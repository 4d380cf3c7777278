------------------------ MODULE DecisionEngineProofs ------------------------
(***************************************************************************)
(* Proofs about DecisionEngine for every constructible policy, any feed,   *)
(* any ledger, any receipts and any history of approvals.                  *)
(***************************************************************************)
EXTENDS DecisionEngine, FiniteSetTheorems, TLAPS

-----------------------------------------------------------------------------
(***************************************************************************)
(* Ranking.                                                                *)
(***************************************************************************)
\* A finite nonempty set has an element nothing is above, in any relation that
\* is transitive and irreflexive on it.
LEMMA TopExists ==
  ASSUME NEW S, IsFiniteSet(S), S # {}, NEW R,
         \A x \in S : <<x, x>> \notin R,
         \A x, y, z \in S : <<x, y>> \in R /\ <<y, z>> \in R => <<x, z>> \in R
  PROVE  \E m \in S : \A x \in S : <<x, m>> \notin R
  <1> DEFINE Above(m) == {x \in S : <<x, m>> \in R}
             T == {Above(m) : m \in S}
  <1>1. /\ T \subseteq SUBSET S
        /\ T # {}
    <2>1. \A m \in S : Above(m) \in SUBSET S
      OBVIOUS
    <2>2. PICK m \in S : TRUE
      OBVIOUS
    <2>3. Above(m) \in T
      OBVIOUS
    <2>4. T \subseteq SUBSET S
      <3> HIDE DEF Above
      <3> QED
        BY <2>1
    <2>5. QED
      BY <2>3, <2>4
  <1>2. IsWellFoundedOn(StrictSubsetOrdering(S), SUBSET S)
    BY FS_StrictSubsetOrderingWellFounded, FS_FiniteSubsetsOfFinite
  <1>3. PICK A \in T : \A B \in T : <<B, A>> \notin StrictSubsetOrdering(S)
    <2> HIDE DEF T
    <2> QED
      BY <1>1, <1>2, WFMin
  <1>4. PICK m \in S : A = Above(m)
    OBVIOUS
  <1>5. ASSUME NEW x \in S, <<x, m>> \in R
        PROVE  FALSE
    <2>1. Above(x) \subseteq Above(m)
      BY <1>5
    <2>2. x \in Above(m) /\ x \notin Above(x)
      BY <1>5
    <2>3. <<Above(x), A>> \in StrictSubsetOrdering(S)
      BY <1>4, <2>1, <2>2 DEF StrictSubsetOrdering
    <2>4. QED
      BY <1>3, <2>3
  <1>6. QED
    BY <1>5

\* Natural division.
LEMMA DivisionType ==
  ASSUME NEW a \in Nat, NEW b \in Nat, b > 0
  PROVE  Rounded(a, b) \in Nat
  <1>1. a \div b \in Nat
    BY SMT
  <1>2. a % b \in Nat
    BY SMT
  <1>3. QED
    BY <1>1, <1>2 DEF Rounded

\* Every rung has a natural score and one of the four directions.
LEMMA LadderType ==
  ASSUME NEW f \in Field, NEW c \in DOMAIN Ladder[f]
  PROVE  Ladder[f][c].score \in Nat
  <1>1. CASE f = "reference"
    BY <1>1 DEF Ladder, Rung
  <1>2. CASE f = "amount"
    BY <1>2 DEF Ladder, Rung
  <1>3. CASE f = "timestamp"
    BY <1>3 DEF Ladder, Rung
  <1>4. CASE f = "sender_name"
    BY <1>4 DEF Ladder, Rung
  <1>5. QED
    BY <1>1, <1>2, <1>3, <1>4 DEF Field

\* A level is a rung of its field's ladder.
LEMMA LevelType ==
  ASSUME TypeOK, NEW t \in Txn, NEW f \in Field
  PROVE  Level(t, f) \in DOMAIN Ladder[f]
  <1>1. CASE f = "amount"
    BY <1>1 DEF Level, AmountLevel, Ladder
  <1>2. CASE f # "amount" /\ f \in receipt.read
    <2>1. ledger[t] \in Entry
      BY EngineAssumption DEF TypeOK
    <2>2. f \in Printed
      BY <1>2 DEF Printed
    <2>3. QED
      BY <1>2, <2>1, <2>2 DEF Level, Entry
  <1>3. CASE f # "amount" /\ f \notin receipt.read
    BY <1>3 DEF Level, Missing, Ladder, Field
  <1>4. QED
    BY <1>1, <1>2, <1>3

LEMMA OutcomeType ==
  ASSUME TypeOK, NEW t \in Txn, NEW f \in Field
  PROVE  Outcome(t, f).score \in Nat
  BY LevelType, LadderType DEF Outcome

\* A score is a number of millionths.
LEMMA ScoreType ==
  ASSUME TypeOK, NEW t \in Txn
  PROVE  Score(t) \in Nat
  <1> DEFINE w == [f \in Field |-> Weight(t, f)]
             p == [f \in Field |-> IF Outcome(t, f).agreement = "MISSING" THEN 0
                                   ELSE policy.weight[f] * Outcome(t, f).score]
  <1>1. \A f \in Field : policy.weight[f] \in Nat /\ policy.penalty \in Nat
    BY EngineAssumption DEF TypeOK, Constructible, Policy
  <1>2. \A f \in Field : w[f] \in Nat
    BY <1>1 DEF Weight
  <1>3. \A f \in Field : p[f] \in Nat
    BY <1>1, OutcomeType
  <1>4. Sum(w) \in Nat /\ Sum(p) \in Nat
    <2> HIDE DEF w, p
    <2> QED
      BY <1>2, <1>3 DEF Sum, Field
  <1>5. Score(t) = IF Sum(w) <= 0 THEN 0 ELSE Rounded(Sum(p) * One, Sum(w))
    BY DEF Score
  <1>6. Sum(p) * One \in Nat
    <2> HIDE DEF w, p
    <2> QED
      BY <1>4 DEF One
  <1>7. QED
    <2> HIDE DEF w, p
    <2> QED
      BY <1>4, <1>5, <1>6, DivisionType

LEMMA CandidatesType ==
  ASSUME TypeOK
  PROVE  /\ Candidates \subseteq Found
         /\ Found \subseteq Txn
  BY EngineAssumption DEF TypeOK, Candidates, Found

\* What there is to know of the ranking.
LEMMA ScoredIs ==
  ASSUME TypeOK
  PROVE  /\ \A c \in Scored : /\ c.txn \in Candidates
                             /\ c.score = Score(c.txn) /\ c.score \in Nat
                             /\ c = ScoreCandidate(c.txn)
         /\ \A t \in Candidates : /\ ScoreCandidate(t) \in Scored
                                 /\ ScoreCandidate(t).txn = t
                                 /\ ScoreCandidate(t).score = Score(t)
  BY CandidatesType, ScoreType DEF Scored, ScoreCandidate

LEMMA ScoredFinite ==
  ASSUME TypeOK
  PROVE  IsFiniteSet(Scored)
  <1> DEFINE D == {j \in DOMAIN feed : j <= policy.maxCandidates}
             g == [i \in D |-> ScoreCandidate(feed[i])]
  <1>1. feed \in Seq(Txn)
    BY EngineAssumption DEF TypeOK
  <1>2. IsFiniteSet(D)
    <2>1. DOMAIN feed = 1..Len(feed) /\ Len(feed) \in Nat
      BY <1>1
    <2>2. IsFiniteSet(1..Len(feed))
      BY <2>1, FS_Interval
    <2>3. QED
      BY <2>1, <2>2, FS_Subset
  <1>3. g \in Surjection(D, Scored)
    BY DEF Surjection, Scored, Candidates
  <1>4. QED
    BY <1>2, <1>3, FS_Surjection

\* The ranking has a first candidate: the scores are a total order once ties are
\* broken by the id.
LEMMA BestIsFirst ==
  ASSUME TypeOK, Candidates # {}
  PROVE  /\ Best \in Scored
         /\ \A d \in Scored \ {Best} : Ahead(Best, d)
  <1> DEFINE R == {cd \in Scored \X Scored : Ahead(cd[1], cd[2])}
  <1>1. \A c \in Scored : c.score \in Nat /\ c.txn \in Nat
    BY ScoredIs, CandidatesType, EngineAssumption
  <1>2. \A c, d \in Scored : c.txn = d.txn => c = d
    BY ScoredIs
  <1>3. \A x \in Scored : <<x, x>> \notin R
    BY <1>1 DEF Ahead
  <1>4. \A x, y, z \in Scored : <<x, y>> \in R /\ <<y, z>> \in R => <<x, z>> \in R
    BY <1>1 DEF Ahead
  <1>5. Scored # {}
    BY ScoredIs
  <1>6. PICK m \in Scored : \A x \in Scored : <<x, m>> \notin R
    <2> HIDE DEF R
    <2> QED
      BY <1>3, <1>4, <1>5, ScoredFinite, TopExists
  <1>7. \A d \in Scored \ {m} : Ahead(m, d)
    <2>1. \A d \in Scored : ~Ahead(d, m)
      BY <1>6
    <2>2. \A d \in Scored \ {m} : d.txn # m.txn
      BY <1>2
    <2>3. QED
      BY <1>1, <2>1, <2>2 DEF Ahead
  <1>8. First(m, Scored)
    BY <1>7 DEF First
  <1>9. Best \in Scored /\ First(Best, Scored)
    BY <1>8 DEF Best
  <1>10. QED
    BY <1>9 DEF First

\* The winner's transaction is a candidate and no candidate scores above it.
LEMMA BestIs ==
  ASSUME TypeOK, Candidates # {}
  PROVE  /\ Best.txn \in Candidates
         /\ BestScore = Score(Best.txn)
         /\ \A u \in Candidates : Score(u) <= Score(Best.txn)
         /\ \A u \in Candidates \ {Best.txn} :
              ScoreCandidate(u) \in Scored \ {Best}
  <1>1. /\ Best.txn \in Candidates
        /\ Best.score = Score(Best.txn)
        /\ Best = ScoreCandidate(Best.txn)
    BY BestIsFirst, ScoredIs
  <1>2. \A u \in Candidates \ {Best.txn} : ScoreCandidate(u) \in Scored \ {Best}
    BY <1>1, ScoredIs
  <1>3. \A u \in Candidates : Score(u) \in Nat
    BY ScoreType, CandidatesType
  <1>4. \A u \in Candidates \ {Best.txn} : Score(u) <= Score(Best.txn)
    BY <1>1, <1>2, <1>3, BestIsFirst, ScoredIs DEF Ahead
  <1>5. QED
    BY <1>1, <1>2, <1>3, <1>4 DEF BestScore

-----------------------------------------------------------------------------
(***************************************************************************)
(* The rule table.                                                         *)
(***************************************************************************)
\* The table is total, so the first matching rule is the least one.
LEMMA FirstMatchIs ==
  /\ FirstMatch \in RuleId
  /\ When(FirstMatch)
  /\ \A s \in RuleId : s < FirstMatch => ~When(s)
  <1> DEFINE Least(r) == When(r) /\ \A s \in RuleId : s < r => ~When(s)
  <1>1. When(999)
    BY DEF When
  <1>2. \E r \in RuleId : Least(r)
    BY <1>1 DEF RuleId
  <1>3. QED
    BY <1>2 DEF FirstMatch

\* What has been ruled out when a verifying rule is reached.
LEMMA Verifying ==
  ASSUME TypeOK, StatusOf(FirstMatch) = "VERIFIED"
  PROVE  /\ Candidates # {}
         /\ ~AllocatedElsewhere /\ ~ProofReused /\ ~Inflated
         /\ Acceptable /\ ~Ambiguous /\ ~PartiallyTrusted
         /\ receipt.doubted = {}
         /\ ~Underpaid /\ ~MateriallyOverpaid /\ ~Contradicted
  <1>1. FirstMatch \in {80, 90}
    BY FirstMatchIs DEF StatusOf, RuleId
  <1>2. Acceptable
    <2>1. When(80) => Acceptable
      BY DEF When
    <2>2. When(90) => Acceptable
      BY DEF When
    <2>3. When(80) \/ When(90)
      BY <1>1, FirstMatchIs
    <2>4. QED
      BY <2>1, <2>2, <2>3
  <1>3. \A s \in {10, 20, 25, 30, 50, 65, 67, 70, 72, 75} : ~When(s)
    BY <1>1, FirstMatchIs DEF RuleId
  <1>4. ~When(10) /\ ~When(20) /\ ~When(25) /\ ~When(30) /\ ~When(50)
    BY <1>3
  <1>5. ~When(65) /\ ~When(67) /\ ~When(70) /\ ~When(72) /\ ~When(75)
    BY <1>3
  <1>6. Candidates # {} /\ ~AllocatedElsewhere /\ ~ProofReused /\ ~Inflated /\ ~Ambiguous
    <2>1. Candidates # {} /\ ~AllocatedElsewhere /\ ~ProofReused
      BY <1>4 DEF When
    <2>2. ~Inflated /\ ~Ambiguous
      BY <1>4 DEF When
    <2>3. QED
      BY <2>1, <2>2
  <1>7. /\ ~PartiallyTrusted /\ receipt.doubted = {}
        /\ ~Underpaid /\ ~MateriallyOverpaid /\ ~Contradicted
    BY <1>2, <1>5 DEF When
  <1>8. QED
    BY <1>2, <1>6, <1>7

LEMMA PolicyType ==
  ASSUME TypeOK
  PROVE  /\ policy.accept \in Nat /\ policy.reject \in Nat
         /\ policy.margin \in Nat /\ policy.ambiguous \in Nat
         /\ policy.tolerance \in Nat
         /\ policy.accept >= policy.reject /\ policy.ambiguous <= policy.accept
  BY DEF TypeOK, Constructible, Policy

\* The winner is credible for every rule that asks: acceptance is the highest of
\* the three bars, which is what the policy's constructor insists on.
LEMMA AcceptableIsEnough ==
  ASSUME TypeOK, Candidates # {}, Acceptable
  PROVE  /\ AmountCompared
         /\ Ambiguous <=> Indistinguishable
  <1>1. BestScore \in Nat
    BY BestIs, ScoreType, CandidatesType
  <1>2. QED
    BY <1>1, PolicyType DEF Acceptable, AmountCompared, Ambiguous

\* Distinguishable is what it says.
LEMMA Distinguishable ==
  ASSUME TypeOK, Candidates # {}, ~Indistinguishable
  PROVE  StandsAlone(Best.txn)
  <1>1. CASE Dominant
    BY <1>1 DEF Dominant, StandsAlone
  <1>2. CASE ~\E c \in Scored \ {Best} : BestScore - c.score < policy.margin
    <2>1. ASSUME NEW u \in Candidates \ {Best.txn}
          PROVE  Score(Best.txn) - Score(u) >= policy.margin
      <3>1. ScoreCandidate(u) \in Scored \ {Best} /\ ScoreCandidate(u).score = Score(u)
        BY BestIs, ScoredIs
      <3>2. ~(Score(Best.txn) - Score(u) < policy.margin)
        BY <1>2, <3>1, BestIs
      <3>3. Score(Best.txn) \in Nat /\ Score(u) \in Nat
        BY BestIs, ScoreType, CandidatesType
      <3>4. QED
        BY <3>2, <3>3, PolicyType
    <2>2. QED
      BY <2>1 DEF StandsAlone
  <1>3. QED
    BY <1>1, <1>2 DEF Indistinguishable

LEMMA BestRow ==
  ASSUME TypeOK, Candidates # {}
  PROVE  /\ Best.txn \in Txn
         /\ ledger[Best.txn] \in Entry
         /\ ledger[Best.txn].amount \in Nat
         /\ ledger[Best.txn].source \in {"trusted", "partial", "screenshot"}
  <1>1. Best.txn \in Txn
    BY BestIs, CandidatesType
  <1>2. ledger[Best.txn] \in Entry
    BY <1>1, EngineAssumption DEF TypeOK
  <1>3. QED
    BY <1>1, <1>2 DEF Entry

\* A decision that verifies is safe to release goods on.
LEMMA DecideIsSafe ==
  ASSUME TypeOK, Decide.status = "VERIFIED"
  PROVE  SafeToRelease(Decide.txn)
  <1>1. StatusOf(FirstMatch) = "VERIFIED" /\ ~Raises(FirstMatch)
    BY DEF Decide
  <1>2. /\ Candidates # {}
        /\ ~AllocatedElsewhere /\ ~ProofReused /\ ~Inflated
        /\ Acceptable /\ ~Ambiguous /\ receipt.doubted = {}
        /\ ~Underpaid /\ ~MateriallyOverpaid
    BY <1>1, Verifying
  <1>3. AmountCompared /\ ~Indistinguishable
    BY <1>2, AcceptableIsEnough
  <1>4. Decide.txn = Best.txn /\ ledger[Best.txn].source = "trusted" /\ ~Contradicted
    BY <1>1 DEF Decide, Raises
  <1>5. StandsAlone(Best.txn)
    BY <1>2, <1>3, Distinguishable
  <1>6. Undisputed(Best.txn)
    BY <1>2, <1>4 DEF Undisputed, Contradicted
  <1>7. Unused(Best.txn)
    BY <1>2 DEF Unused, AllocatedElsewhere, ProofReused
  <1>8. RightMoney(Best.txn)
    <2>1. ASSUME expected # None
          PROVE  /\ expected - ledger[Best.txn].amount <= policy.tolerance
                 /\ ~MaterialOverpayment(expected, ledger[Best.txn].amount, policy)
      <3>1. expected \in Nat /\ ledger[Best.txn].amount \in Nat
        BY <1>2, <2>1, BestRow, EngineAssumption DEF TypeOK
      <3>2. expected - ledger[Best.txn].amount <= policy.tolerance
        BY <1>2, <1>3, <2>1, <3>1, PolicyType DEF Underpaid, Relation, WithinTolerance
      <3>3. ~MaterialOverpayment(expected, ledger[Best.txn].amount, policy)
        BY <1>2, <1>3, <2>1, <3>1
           DEF MateriallyOverpaid, Overpaid, Relation, MaterialOverpayment
      <3>4. QED
        BY <3>2, <3>3
    <2>2. receipt.amount # None =>
            ~MaterialInflation(receipt.amount, ledger[Best.txn].amount, policy)
      BY <1>2, <1>3 DEF Inflated
    <2>3. QED
      BY <2>1, <2>2 DEF RightMoney
  <1>9. QED
    BY <1>2, <1>4, <1>5, <1>6, <1>7, <1>8, BestIs DEF SafeToRelease, Acceptable

\* The post-condition fails only on a row that is a screenshot.
LEMMA DecideRaisesOnScreenshots ==
  ASSUME TypeOK, Decide.status = "RAISED"
  PROVE  \E t \in Candidates : ledger[t].source = "screenshot"
  <1>1. Raises(FirstMatch)
    BY FirstMatchIs DEF Decide, StatusOf
  <1>2. StatusOf(FirstMatch) = "VERIFIED"
    BY <1>1 DEF Raises
  <1>3. /\ Candidates # {} /\ Acceptable /\ ~Ambiguous
        /\ ~PartiallyTrusted /\ ~Contradicted
    BY <1>2, Verifying
  <1>4. ~Indistinguishable
    BY <1>3, AcceptableIsEnough
  <1>5. MatchedTxn(FirstMatch) = Best.txn
    BY <1>2, <1>4, FirstMatchIs DEF MatchedTxn, StatusOf
  <1>6. ledger[Best.txn].source # "trusted"
    BY <1>1, <1>3, <1>5 DEF Raises
  <1>7. ledger[Best.txn].source = "screenshot"
    BY <1>3, <1>6, BestRow DEF PartiallyTrusted
  <1>8. QED
    BY <1>3, <1>7, BestIs

\* Twins score alike, and neither is the only one with the printed id.
LEMMA DecideNamesNoTwin ==
  ASSUME TypeOK, Decide.txn # None, policy.margin > 0, ~Truncated,
         NEW u \in Found \ {Decide.txn}
  PROVE  ~Twins(u, Decide.txn)
  <1>1. ~Indistinguishable /\ StatusOf(FirstMatch) # "UNMATCHED" /\ Decide.txn = Best.txn
    BY DEF Decide, MatchedTxn
  <1>2. Candidates # {}
    <2>1. When(10) <=> Candidates = {}
      BY DEF When
    <2>2. 10 \in RuleId /\ \A r \in RuleId : r = 10 \/ 10 < r
      BY DEF RuleId
    <2>3. FirstMatch = 10 => StatusOf(FirstMatch) = "UNMATCHED"
      BY DEF StatusOf
    <2>4. ~When(10)
      BY <1>1, <2>2, <2>3, FirstMatchIs
    <2>5. QED
      BY <2>1, <2>4
  <1>3. u \in Candidates
    <2>1. feed \in Seq(Txn) /\ policy.maxCandidates \in Nat
      BY EngineAssumption DEF TypeOK, Constructible, Policy
    <2>2. \A i \in DOMAIN feed : i <= policy.maxCandidates
      BY <2>1 DEF Truncated
    <2>3. QED
      BY <2>2 DEF Found, Candidates
  <1>4. SUFFICES ASSUME Twins(u, Best.txn)
                 PROVE  FALSE
    BY <1>1
  <1>5. u # Best.txn
    BY <1>1
  <1>6. StandsAlone(Best.txn)
    BY <1>1, <1>2, Distinguishable
  <1>7. Level(u, "reference") = Level(Best.txn, "reference")
    BY <1>4 DEF Twins, Field
  <1>8. Score(u) = Score(Best.txn)
    <2>1. \A f \in Field : Outcome(u, f) = Outcome(Best.txn, f)
      BY <1>4 DEF Twins, Outcome
    <2>2. \A f \in Field : Weight(u, f) = Weight(Best.txn, f)
      BY <2>1 DEF Weight
    <2>3. [f \in Field |-> Weight(u, f)] = [f \in Field |-> Weight(Best.txn, f)]
      BY <2>2
    <2>4. [f \in Field |-> IF Outcome(u, f).agreement = "MISSING" THEN 0
                           ELSE policy.weight[f] * Outcome(u, f).score]
          = [f \in Field |-> IF Outcome(Best.txn, f).agreement = "MISSING" THEN 0
                             ELSE policy.weight[f] * Outcome(Best.txn, f).score]
      BY <2>1
    <2>5. QED
      BY <2>3, <2>4 DEF Score
  <1>9. ~(Score(Best.txn) - Score(u) >= policy.margin)
    BY <1>2, <1>8, BestIs, ScoreType, CandidatesType, PolicyType
  <1>10. {c \in Candidates : Level(c, "reference") = "REF_EXACT"} # {Best.txn}
    BY <1>3, <1>5, <1>7
  <1>11. QED
    BY <1>3, <1>5, <1>6, <1>9, <1>10 DEF StandsAlone

-----------------------------------------------------------------------------
(***************************************************************************)
(* The invariants.                                                         *)
(***************************************************************************)
LEMMA DecideType ==
  ASSUME TypeOK
  PROVE  Decide \in Answer
  <1>1. FirstMatch \in RuleId
    BY FirstMatchIs
  <1>2. MatchedTxn(FirstMatch) \in Txn \cup {None}
    <2>1. CASE Candidates = {}
      <3>1. When(10) <=> Candidates = {}
        BY DEF When
      <3>2. 10 \in RuleId /\ \A r \in RuleId : r = 10 \/ 10 < r
        BY DEF RuleId
      <3>3. FirstMatch = 10
        BY <2>1, <3>1, <3>2, FirstMatchIs
      <3>4. QED
        BY <3>3 DEF MatchedTxn, StatusOf
    <2>2. CASE Candidates # {}
      BY <2>2, BestRow DEF MatchedTxn
    <2>3. QED
      BY <2>1, <2>2
  <1>3. QED
    BY <1>1, <1>2 DEF Decide, Answer

\* A step either answers on the present inputs or forgets the answer.
LEMMA AnswerSteps ==
  ASSUME TypeOK, [Next]_vars
  PROVE  \/ answer' = Decide /\ UNCHANGED inputs
         \/ answer' = None
         \/ UNCHANGED vars
  BY DEF Next, Check, Approve, ApproveOther, Crop, vars

\* TypeOK is not inductive alone: that an approval spends a transaction rests on
\* a verified answer naming one.
LEMMA TypeStep ==
  ASSUME TypeOK, VerifiedIsSafe, [Next]_vars
  PROVE  TypeOK'
  <1>1. CASE Check
    BY <1>1, DecideType DEF Check, inputs, TypeOK, Constructible, Answer
  <1>2. CASE Approve
    <2>1. answer.txn \in Candidates
      BY <1>2 DEF Approve, VerifiedIsSafe, SafeToRelease
    <2>2. answer.txn \in Txn
      BY <2>1, CandidatesType
    <2>3. QED
      BY <1>2, <2>2, EngineAssumption DEF Approve, TypeOK, Constructible
  <1>3. ASSUME NEW t \in Txn, NEW o \in Order \ {ThisOrder}, ApproveOther(t, o)
        PROVE  TypeOK'
    BY <1>3 DEF ApproveOther, TypeOK, Constructible
  <1>4. ASSUME NEW f \in Croppable, Crop(f)
        PROVE  TypeOK'
    <2>1. receipt' \in Receipt
      <3>1. receipt \in Receipt
        BY DEF TypeOK
      <3>2. receipt' = [amount |-> IF f = "amount" THEN None ELSE receipt.amount,
                        read |-> receipt.read \ {f},
                        doubted |-> receipt.doubted \ {f},
                        tamper |-> receipt.tamper]
        BY <1>4, <3>1 DEF Crop, Receipt
      <3>3. QED
        BY <3>1, <3>2 DEF Receipt
    <2>2. QED
      BY <1>4, <2>1 DEF Crop, TypeOK, Constructible
  <1>5. CASE UNCHANGED vars
    BY <1>5 DEF vars, TypeOK, Constructible
  <1>6. QED
    BY <1>1, <1>2, <1>3, <1>4, <1>5 DEF Next

\* None of what the properties read moves while the inputs stand still.
LEMMA SameInputs ==
  ASSUME UNCHANGED inputs
  PROVE  /\ Candidates' = Candidates /\ Found' = Found /\ Truncated' = Truncated
         /\ \A t, f : Level(t, f)' = Level(t, f)
         /\ \A t, f : Outcome(t, f)' = Outcome(t, f)
         /\ \A t : Score(t)' = Score(t)
  <1>1. Candidates' = Candidates /\ Found' = Found /\ Truncated' = Truncated
    BY DEF inputs, Candidates, Found, Truncated
  <1>2. \A t, f : Level(t, f)' = Level(t, f)
    BY DEF inputs, Level
  <1>3. \A t, f : Outcome(t, f)' = Outcome(t, f)
    BY <1>2 DEF Outcome
  <1>4. \A t, f : Weight(t, f)' = Weight(t, f)
    BY <1>3 DEF inputs, Weight
  <1>5. ASSUME NEW t
        PROVE  Score(t)' = Score(t)
    <2>1. [f \in Field |-> Weight(t, f)]' = [f \in Field |-> Weight(t, f)]
      BY <1>4
    <2>2. [f \in Field |-> IF Outcome(t, f).agreement = "MISSING" THEN 0
                           ELSE policy.weight[f] * Outcome(t, f).score]'
          = [f \in Field |-> IF Outcome(t, f).agreement = "MISSING" THEN 0
                             ELSE policy.weight[f] * Outcome(t, f).score]
      BY <1>3 DEF inputs
    <2>3. QED
      BY <2>1, <2>2 DEF Score, Sum
  <1>6. QED
    BY <1>1, <1>2, <1>3, <1>5

LEMMA SameSafety ==
  ASSUME UNCHANGED inputs, NEW t, SafeToRelease(t)
  PROVE  SafeToRelease(t)'
  <1>1. /\ policy' = policy /\ expected' = expected /\ receipt' = receipt
        /\ ledger' = ledger /\ spent' = spent /\ holder' = holder
    BY DEF inputs
  <1>2. StandsAlone(t)'
    BY <1>1, SameInputs DEF SafeToRelease, StandsAlone
  <1>3. Undisputed(t)' /\ Unused(t)' /\ RightMoney(t)'
    BY <1>1, SameInputs DEF SafeToRelease, Undisputed, Unused, RightMoney
  <1>4. QED
    BY <1>1, <1>2, <1>3, SameInputs DEF SafeToRelease

EngineInv == TypeOK /\ VerifiedIsSafe /\ PostConditionHolds /\ TwinsNeverNamed

LEMMA EngineInit == Init => EngineInv
  <1> SUFFICES ASSUME Init PROVE EngineInv
    OBVIOUS
  <1>1. TypeOK
    BY EngineAssumption DEF Init, TypeOK, Constructible
  <1>2. QED
    BY <1>1 DEF Init, EngineInv, VerifiedIsSafe, PostConditionHolds, TwinsNeverNamed

LEMMA EngineStep ==
  ASSUME EngineInv, [Next]_vars
  PROVE  EngineInv'
  <1>1. TypeOK'
    BY TypeStep DEF EngineInv
  <1>2. CASE answer' = Decide /\ UNCHANGED inputs
    <2>1. VerifiedIsSafe'
      BY <1>2, DecideIsSafe, SameSafety DEF EngineInv, VerifiedIsSafe
    <2>2. PostConditionHolds'
      BY <1>2, DecideRaisesOnScreenshots, SameInputs DEF EngineInv, PostConditionHolds, inputs
    <2>3. TwinsNeverNamed'
      <3>1. PICK d : d = Decide.txn /\ d = answer'.txn
        BY <1>2
      <3>2. (d # None /\ policy.margin > 0 /\ ~Truncated) =>
              \A u \in Found \ {d} : ~Twins(u, d)
        BY <3>1, DecideNamesNoTwin DEF EngineInv
      <3>3. QED
        BY <1>2, <3>1, <3>2, SameInputs DEF TwinsNeverNamed, Twins, inputs
    <2>4. QED
      BY <1>1, <2>1, <2>2, <2>3 DEF EngineInv
  <1>3. CASE answer' = None
    BY <1>1, <1>3 DEF EngineInv, VerifiedIsSafe, PostConditionHolds, TwinsNeverNamed
  <1>4. CASE UNCHANGED vars
    <2>1. UNCHANGED inputs /\ answer' = answer
      BY <1>4 DEF vars, inputs
    <2>2. VerifiedIsSafe'
      BY <2>1, SameSafety DEF EngineInv, VerifiedIsSafe
    <2>3. PostConditionHolds'
      BY <2>1, SameInputs DEF EngineInv, PostConditionHolds, inputs
    <2>4. TwinsNeverNamed'
      BY <2>1, SameInputs DEF EngineInv, TwinsNeverNamed, Twins, inputs
    <2>5. QED
      BY <1>1, <2>2, <2>3, <2>4 DEF EngineInv
  <1>5. QED
    BY <1>2, <1>3, <1>4, AnswerSteps DEF EngineInv

LEMMA EngineInvariant == Spec => []EngineInv
  <1>1. EngineInv /\ [Next]_vars => EngineInv'
    BY EngineStep
  <1>2. QED
    BY <1>1, EngineInit, PTL DEF Spec

\* Every variable always has its type, and the policy in force is always one the
\* constructor accepts.
THEOREM EngineTypeCorrect == Spec => []TypeOK
  BY EngineInvariant, PTL DEF EngineInv

\* Under every constructible policy, whatever the ledger, the receipt and the
\* history, VERIFIED names a transaction that goods may be released on.
THEOREM VerifiedMeansSafe == Spec => []VerifiedIsSafe
  BY EngineInvariant, PTL DEF EngineInv

\* Without a screenshot in the feed the post-condition of decide never fails.
THEOREM PostConditionNeverFails == Spec => []PostConditionHolds
  BY EngineInvariant, PTL DEF EngineInv

\* No decision names one of two payments it cannot tell apart.
THEOREM TwinsAreNeverNamed == Spec => []TwinsNeverNamed
  BY EngineInvariant, PTL DEF EngineInv

-----------------------------------------------------------------------------
(***************************************************************************)
(* The history of approvals.                                               *)
(***************************************************************************)
reading == <<policy, expected, receipt, ledger, feed>>

\* The ranking does not read the history.
LEMMA SameRanking ==
  ASSUME UNCHANGED reading
  PROVE  /\ Candidates' = Candidates
         /\ \A t, f : Level(t, f)' = Level(t, f)
         /\ \A t, f : Outcome(t, f)' = Outcome(t, f)
         /\ Scored' = Scored
         /\ Best' = Best /\ BestScore' = BestScore
         /\ Indistinguishable' = Indistinguishable
  <1>1. Candidates' = Candidates
    BY DEF reading, Candidates
  <1>2. \A t, f : Level(t, f)' = Level(t, f)
    BY DEF reading, Level
  <1>3. \A t, f : Outcome(t, f)' = Outcome(t, f)
    BY <1>2 DEF Outcome
  <1>4. ASSUME NEW t
        PROVE  Score(t)' = Score(t)
    <2>1. \A f : Weight(t, f)' = Weight(t, f)
      BY <1>3 DEF reading, Weight
    <2>2. [f \in Field |-> Weight(t, f)]' = [f \in Field |-> Weight(t, f)]
      BY <2>1
    <2>3. [f \in Field |-> IF Outcome(t, f).agreement = "MISSING" THEN 0
                           ELSE policy.weight[f] * Outcome(t, f).score]'
          = [f \in Field |-> IF Outcome(t, f).agreement = "MISSING" THEN 0
                             ELSE policy.weight[f] * Outcome(t, f).score]
      BY <1>3 DEF reading
    <2>4. QED
      BY <2>2, <2>3 DEF Score, Sum
  <1>5. Scored' = Scored
    BY <1>1, <1>4 DEF Scored, ScoreCandidate
  <1>6. Best' = Best
    BY <1>1, <1>5 DEF Best
  <1>7. BestScore' = BestScore
    BY <1>1, <1>6 DEF BestScore
  <1>8. Indistinguishable' = Indistinguishable
    <2>1. Dominant' = Dominant
      BY <1>1, <1>2, <1>6 DEF Dominant
    <2>2. QED
      BY <1>5, <1>6, <1>7, <2>1 DEF reading, Indistinguishable
  <1>9. QED
    BY <1>1, <1>2, <1>3, <1>5, <1>6, <1>7, <1>8

\* Of the rules only R020 and R025 read the history.
LEMMA SameRules ==
  ASSUME UNCHANGED reading, NEW r \in RuleId \ {20, 25}
  PROVE  When(r)' <=> When(r)
  <1>1. /\ policy' = policy /\ expected' = expected /\ receipt' = receipt
        /\ ledger' = ledger
    BY DEF reading
  <1>2. Acceptable' = Acceptable /\ AmountCompared' = AmountCompared
    BY <1>1, SameRanking DEF Acceptable, AmountCompared
  <1>3. CASE r = 10
    BY <1>3, SameRanking DEF When
  <1>4. CASE r = 30
    BY <1>1, <1>2, <1>4, SameRanking DEF When, Inflated
  <1>5. CASE r = 40
    BY <1>1, <1>2, <1>5 DEF When
  <1>6. CASE r = 50
    BY <1>1, <1>6, SameRanking DEF When, Ambiguous
  <1>7. CASE r = 60
    BY <1>1, <1>7, SameRanking DEF When
  <1>8. CASE r = 65
    BY <1>1, <1>2, <1>8, SameRanking DEF When, PartiallyTrusted
  <1>9. CASE r = 67
    BY <1>1, <1>2, <1>9 DEF When
  <1>10. CASE r = 70
    BY <1>1, <1>2, <1>10, SameRanking DEF When, Underpaid
  <1>11. Overpaid' = Overpaid
    BY <1>1, <1>2, SameRanking DEF Overpaid
  <1>12. CASE r = 72
    BY <1>1, <1>2, <1>11, <1>12, SameRanking DEF When, MateriallyOverpaid
  <1>13. CASE r = 75
    BY <1>13, SameRanking DEF When, Contradicted
  <1>14. CASE r = 80
    BY <1>2, <1>11, <1>14 DEF When
  <1>15. CASE r = 90
    BY <1>2, <1>15 DEF When
  <1>16. CASE r = 999
    BY <1>16 DEF When
  <1>17. QED
    BY <1>3, <1>4, <1>5, <1>6, <1>7, <1>8, <1>9, <1>10, <1>12, <1>13, <1>14,
       <1>15, <1>16 DEF RuleId

\* The table is as total after a step as before it.
LEMMA FirstMatchNext ==
  /\ FirstMatch' \in RuleId
  /\ When(FirstMatch)'
  /\ \A s \in RuleId : s < FirstMatch' => ~When(s)'
  <1> DEFINE Least(r) == When(r)' /\ \A s \in RuleId : s < r => ~When(s)'
  <1>1. When(999)'
    BY DEF When
  <1>2. \E r \in RuleId : Least(r)
    BY <1>1 DEF RuleId
  <1>3. QED
    BY <1>2 DEF FirstMatch

\* A rule that matches, with none before it, is the first.
LEMMA FirstMatchNextIs ==
  ASSUME NEW r \in RuleId, When(r)', \A s \in RuleId : s < r => ~When(s)'
  PROVE  FirstMatch' = r
  <1>1. \A s \in RuleId : s \in Int
    BY DEF RuleId
  <1>2. QED
    BY <1>1, FirstMatchNext

\* While the two rules that read the history say the same, so does the table.
LEMMA SameDecision ==
  ASSUME UNCHANGED reading,
         \A s \in RuleId : s <= FirstMatch => (When(s)' <=> When(s))
  PROVE  Decide' = Decide
  <1>1. \A s \in RuleId : s \in Int
    BY DEF RuleId
  <1>2. FirstMatch' = FirstMatch
    BY <1>1, FirstMatchIs, FirstMatchNextIs
  <1>3. MatchedTxn(FirstMatch)' = MatchedTxn(FirstMatch)
    BY <1>2, SameRanking DEF MatchedTxn
  <1>4. Raises(FirstMatch)' = Raises(FirstMatch)
    BY <1>2, <1>3, SameRanking DEF reading, Raises, Contradicted
  <1>5. QED
    BY <1>2, <1>3, <1>4 DEF Decide

LEMMA HistoryStep ==
  ASSUME TypeOK, [Next]_vars, answer # None, UNCHANGED reading
  PROVE  \/ Decide' = Decide
         \/ /\ Decide'.status = "DUPLICATE"
            /\ \E o \in Order \ {ThisOrder} :
                 <<Best.txn, o>> \in spent' \ spent \/ (holder = None /\ holder' = o)
  <1> DEFINE Accused ==
               \E o \in Order \ {ThisOrder} :
                 <<Best.txn, o>> \in spent' \ spent \/ (holder = None /\ holder' = o)
  <1>1. \A s \in RuleId : s \in Int
    BY DEF RuleId
  <1>2. (When(10) <=> Candidates = {}) /\ (When(10)' <=> Candidates = {})
    BY SameRanking DEF When
  <1>3. (When(20) <=> AllocatedElsewhere) /\ (When(20)' <=> AllocatedElsewhere')
    BY DEF When
  <1>4. (When(25) <=> ProofReused) /\ (When(25)' <=> ProofReused')
    BY DEF When
  <1>5. ~\E f \in Croppable : Crop(f)
    <2> SUFFICES ASSUME NEW f \in Croppable, Crop(f)
                 PROVE  FALSE
      OBVIOUS
    <2>1. receipt' = receipt /\ receipt \in Receipt
      BY DEF reading, TypeOK
    <2>2. CASE f = "amount"
      BY <2>1, <2>2 DEF Crop, Receipt
    <2>3. CASE f # "amount"
      BY <2>1, <2>3 DEF Crop, Receipt
    <2>4. QED
      BY <2>2, <2>3
  <1>6. /\ \A o \in Order \ {ThisOrder} : \A t : <<t, o>> \in spent => <<t, o>> \in spent'
        /\ \/ holder' = holder
           \/ holder = None /\ holder' = ThisOrder
           \/ holder = None /\ holder' \in Order \ {ThisOrder}
    <2>1. CASE Check
      BY <2>1 DEF Check, inputs
    <2>2. CASE Approve
      BY <2>2 DEF Approve
    <2>3. CASE \E t \in Txn, o \in Order \ {ThisOrder} : ApproveOther(t, o)
      BY <2>3 DEF ApproveOther
    <2>4. CASE UNCHANGED vars
      BY <2>4 DEF vars
    <2>5. QED
      BY <1>5, <2>1, <2>2, <2>3, <2>4 DEF Next
  <1>7. AllocatedElsewhere => AllocatedElsewhere'
    BY <1>6, SameRanking DEF AllocatedElsewhere
  <1>8. AllocatedElsewhere' /\ ~AllocatedElsewhere => Accused
    BY SameRanking DEF AllocatedElsewhere
  <1>9. /\ ProofReused => ProofReused'
        /\ ProofReused' /\ ~ProofReused => Accused
    BY <1>6, EngineAssumption DEF ProofReused
  <1>10. \A s \in RuleId \ {20, 25} : When(s)' <=> When(s)
    BY SameRules
  <1>11. CASE When(10)
    <2>1. FirstMatch = 10
      BY <1>11, FirstMatchIs DEF RuleId
    <2>2. \A s \in RuleId : s <= FirstMatch => (When(s)' <=> When(s))
      BY <1>10, <2>1 DEF RuleId
    <2>3. QED
      BY <2>2, SameDecision
  <1>12. CASE ~When(10) /\ (AllocatedElsewhere' <=> AllocatedElsewhere)
                        /\ (AllocatedElsewhere \/ (ProofReused' <=> ProofReused))
    <2>1. \A s \in RuleId : s <= FirstMatch => (When(s)' <=> When(s))
      <3>1. CASE AllocatedElsewhere
        <4>1. ~(20 < FirstMatch)
          BY <1>3, <3>1, FirstMatchIs DEF RuleId
        <4>2. QED
          BY <1>1, <1>3, <1>10, <1>12, <4>1, FirstMatchIs
      <3>2. CASE ProofReused' <=> ProofReused
        BY <1>3, <1>4, <1>10, <1>12, <3>2
      <3>3. QED
        BY <1>12, <3>1, <3>2
    <2>2. QED
      BY <2>1, SameDecision
  <1>13. CASE ~When(10) /\ AllocatedElsewhere' /\ ~AllocatedElsewhere
    <2>1. ~When(10)'
      BY <1>2, <1>13
    <2>2. FirstMatch' = 20
      <3>1. \A s \in RuleId : s < 20 => s = 10
        BY DEF RuleId
      <3>2. QED
        BY <1>3, <1>13, <2>1, <3>1, FirstMatchNextIs DEF RuleId
    <2>3. Decide'.status = "DUPLICATE"
      BY <2>2 DEF Decide, Raises, StatusOf
    <2>4. QED
      BY <1>8, <1>13, <2>3
  <1>14. CASE ~When(10) /\ ~AllocatedElsewhere' /\ ~AllocatedElsewhere
                        /\ ProofReused' /\ ~ProofReused
    <2>1. ~When(10)'
      BY <1>2, <1>14
    <2>2. FirstMatch' = 25
      <3>1. \A s \in RuleId : s < 25 => s \in {10, 20}
        BY DEF RuleId
      <3>2. QED
        BY <1>3, <1>4, <1>14, <2>1, <3>1, FirstMatchNextIs DEF RuleId
    <2>3. Decide'.status = "DUPLICATE"
      BY <2>2 DEF Decide, Raises, StatusOf
    <2>4. QED
      BY <1>9, <1>14, <2>3
  <1>15. QED
    BY <1>7, <1>9, <1>11, <1>12, <1>13, <1>14

\* Other requests can turn a verdict only into DUPLICATE, and only by spending
\* the winner or by having the picture accepted: of the fifteen rules two read
\* the history, and both accuse.
THEOREM HistoryCanOnlyAccuse == Spec => HistoryOnlyAccuses
  <1>1. TypeOK /\ [Next]_vars =>
          [ (answer # None /\ UNCHANGED <<policy, expected, receipt, ledger, feed>>) =>
              \/ Decide' = Decide
              \/ /\ Decide'.status = "DUPLICATE"
                 /\ \E o \in Order \ {ThisOrder} :
                      <<Best.txn, o>> \in spent' \ spent
                        \/ (holder = None /\ holder' = o) ]_vars
    BY HistoryStep DEF reading
  <1>2. QED
    BY <1>1, EngineTypeCorrect, PTL DEF Spec, HistoryOnlyAccuses

-----------------------------------------------------------------------------
(***************************************************************************)
(* The aggregate when a field is hidden.                                   *)
(***************************************************************************)
\* b times the rounded quotient is within half a b of a.
LEMMA RoundedIs ==
  ASSUME NEW a \in Nat, NEW b \in Nat, b > 0
  PROVE  /\ Rounded(a, b) \in Nat
         /\ b * (2 * Rounded(a, b)) <= 2 * a + b
         /\ 2 * a < b * (2 * Rounded(a, b)) + b
  <1> DEFINE q == a \div b
             r == a % b
  <1>1. q \in Nat /\ r \in Nat /\ r < b /\ a = b * q + r
    BY SMT
  <1>2. CASE 2 * r >= b
    <2>1. Rounded(a, b) = q + 1
      BY <1>2 DEF Rounded
    <2>2. b * (2 * (q + 1)) = 2 * (b * q) + 2 * b
      BY <1>1
    <2>3. QED
      BY <1>1, <1>2, <2>1, <2>2
  <1>3. CASE ~(2 * r >= b)
    <2>1. Rounded(a, b) = q
      BY <1>1, <1>3 DEF Rounded
    <2>2. b * (2 * q) = 2 * (b * q)
      BY <1>1
    <2>3. QED
      BY <1>1, <1>3, <2>1, <2>2
  <1>4. QED
    BY <1>2, <1>3

\* Rounding never turns a lesser fraction into a greater number.
LEMMA RoundedMonotone ==
  ASSUME NEW a \in Nat, NEW b \in Nat, NEW c \in Nat, NEW d \in Nat,
         b > 0, d > 0, c * b <= a * d
  PROVE  Rounded(c, d) <= Rounded(a, b)
  <1> DEFINE n == Rounded(a, b)
             m == Rounded(c, d)
  <1>1. /\ n \in Nat /\ m \in Nat
        /\ 2 * a < b * (2 * n) + b
        /\ d * (2 * m) <= 2 * c + d
    BY RoundedIs
  <1> HIDE DEF n, m
  <1>2. SUFFICES ASSUME n + 1 <= m
                 PROVE  FALSE
    BY <1>1 DEF n, m
  <1>3. d * (2 * n + 1) <= 2 * c
    <2>1. d * (2 * (n + 1)) <= d * (2 * m)
      BY <1>1, <1>2
    <2>2. d * (2 * (n + 1)) = d * (2 * n + 1) + d
      BY <1>1
    <2>3. d * (2 * n + 1) \in Int /\ d * (2 * m) \in Int /\ d * (2 * (n + 1)) \in Int
      BY <1>1
    <2> QED
      BY <1>1, <2>1, <2>2, <2>3
  <1>4. 2 * a < b * (2 * n + 1)
    BY <1>1
  <1> DEFINE k == 2 * n + 1
  <1>5. k \in Nat
    BY <1>1
  <1>6. (d * k) * b <= (2 * c) * b
    <2>1. d * k <= 2 * c
      BY <1>3
    <2>2. d * k \in Nat
      BY <1>5
    <2> HIDE DEF k
    <2> QED
      BY <2>1, <2>2
  <1>7. (2 * a) * d < (b * k) * d
    <2>1. 2 * a < b * k
      BY <1>4
    <2>2. b * k \in Nat
      BY <1>5
    <2> HIDE DEF k
    <2> QED
      BY <2>1, <2>2
  <1>8. (d * k) * b = (b * k) * d /\ (2 * c) * b = 2 * (c * b) /\ (2 * a) * d = 2 * (a * d)
    <2> HIDE DEF k
    <2> QED
      BY <1>5
  <1>9. QED
    <2>1. (b * k) * d \in Int /\ c * b \in Int /\ a * d \in Int
      <3> HIDE DEF k
      <3> QED
        BY <1>5
    <2> HIDE DEF k
    <2> QED
      BY <1>6, <1>7, <1>8, <2>1

\* No rung scores above 100.
LEMMA LadderRange ==
  ASSUME NEW f \in Field, NEW c \in DOMAIN Ladder[f]
  PROVE  Ladder[f][c].score <= 100
  <1>1. CASE f = "reference"
    BY <1>1 DEF Ladder, Rung
  <1>2. CASE f = "amount"
    BY <1>2 DEF Ladder, Rung
  <1>3. CASE f = "timestamp"
    BY <1>3 DEF Ladder, Rung
  <1>4. CASE f = "sender_name"
    BY <1>4 DEF Ladder, Rung
  <1>5. QED
    BY <1>1, <1>2, <1>3, <1>4 DEF Field

LEMMA MissingIsMissing ==
  ASSUME NEW f \in Field
  PROVE  Ladder[f][Missing[f]].agreement = "MISSING"
  <1>1. CASE f = "reference"
    BY <1>1 DEF Ladder, Rung, Missing
  <1>2. CASE f = "amount"
    BY <1>2 DEF Ladder, Rung, Missing
  <1>3. CASE f = "timestamp"
    BY <1>3 DEF Ladder, Rung, Missing
  <1>4. CASE f = "sender_name"
    BY <1>4 DEF Ladder, Rung, Missing
  <1>5. QED
    BY <1>1, <1>2, <1>3, <1>4 DEF Field

\* What a field adds to the numerator of the aggregate.
Points(t, f) ==
  IF Outcome(t, f).agreement = "MISSING" THEN 0 ELSE policy.weight[f] * Outcome(t, f).score

\* A field never adds more points than weight, so an aggregate is at most One.
LEMMA PointsWithinWeight ==
  ASSUME TypeOK, NEW t \in Txn, NEW f \in Field
  PROVE  /\ Points(t, f) \in Nat /\ Weight(t, f) \in Nat
         /\ Points(t, f) <= Weight(t, f)
  <1> DEFINE w == policy.weight[f]
             s == Outcome(t, f).score
  <1>1. w \in Nat /\ policy.penalty \in Nat
    BY EngineAssumption DEF TypeOK, Constructible, Policy
  <1>2. s \in Nat /\ s <= 100
    BY OutcomeType, LevelType, LadderRange DEF Outcome
  <1>3. w * s \in Nat /\ w * s <= w * 100
    <2> HIDE DEF w, s
    <2> QED
      BY <1>1, <1>2
  <1>4. CASE Outcome(t, f).agreement = "MISSING"
    <2>1. Points(t, f) = 0 /\ Weight(t, f) = w * policy.penalty
      BY <1>4 DEF Points, Weight
    <2> HIDE DEF w, s
    <2> QED
      BY <1>1, <2>1
  <1>5. CASE Outcome(t, f).agreement # "MISSING"
    <2>1. Points(t, f) = w * s /\ Weight(t, f) = w * 100
      BY <1>5 DEF Points, Weight
    <2> HIDE DEF w, s
    <2> QED
      BY <1>1, <1>3, <2>1
  <1>6. QED
    BY <1>4, <1>5

\* Removing a field: P, W are the points and weight of the others, w its weight,
\* s its score and m the percentage a missing field keeps.
LEMMA RemovalLowers ==
  ASSUME NEW P \in Nat, NEW W \in Nat, NEW w \in Nat, NEW s \in Nat, NEW m \in Nat,
         P <= W, s >= 100 - m, m <= 100
  PROVE  P * (W + w * 100) <= (P + w * s) * (W + w * m)
  <1>1. (100 - m) * P <= s * W
    <2>1. (100 - m) * P <= (100 - m) * W
      BY SMT
    <2>2. (100 - m) * W <= s * W
      BY SMT
    <2>3. (100 - m) * P \in Int /\ (100 - m) * W \in Int /\ s * W \in Int
      OBVIOUS
    <2>4. QED
      BY <2>1, <2>2, <2>3
  <1>2. w * ((100 - m) * P) <= w * (s * W)
    <2>1. (100 - m) * P \in Int /\ s * W \in Int
      OBVIOUS
    <2>2. QED
      BY <1>1, <2>1
  <1>3. w * ((100 - m) * P) = 100 * (w * P) - m * (w * P)
    BY SMT
  <1>4. w * (s * W) = s * (w * W)
    BY SMT
  <1>5. P * (W + w * 100) = P * W + 100 * (w * P)
    BY SMT
  <1>6. (P + w * s) * (W + w * m) = P * W + m * (w * P) + s * (w * W) + (w * s) * (w * m)
    BY SMT
  <1>7. (w * s) * (w * m) \in Nat
    <2>1. w * s \in Nat /\ w * m \in Nat
      BY SMT
    <2>2. QED
      BY <2>1
  <1>8. /\ P * W \in Int /\ m * (w * P) \in Int /\ s * (w * W) \in Int
        /\ 100 * (w * P) \in Int
    BY SMT
  <1>9. QED
    BY <1>2, <1>3, <1>4, <1>5, <1>6, <1>7, <1>8

\* The aggregate of a field and of the others.
LEMMA SumSplit ==
  ASSUME NEW v \in [Field -> Nat], NEW f \in Field
  PROVE  /\ Sum([v EXCEPT ![f] = 0]) \in Nat
         /\ Sum(v) = Sum([v EXCEPT ![f] = 0]) + v[f]
  BY DEF Sum, Field

LEMMA SumMonotone ==
  ASSUME NEW u \in [Field -> Nat], NEW v \in [Field -> Nat],
         \A f \in Field : u[f] <= v[f]
  PROVE  Sum(u) <= Sum(v)
  BY DEF Sum, Field

points(t) == [f \in Field |-> Points(t, f)]
weights(t) == [f \in Field |-> Weight(t, f)]

\* An aggregate lies between 0 and 1, whatever a policy's weights are and however
\* many fields are missing, so that its bars can be compared with it
\* (engine.py, aggregate_score).
THEOREM AggregateIsAFraction ==
  ASSUME TypeOK, NEW t \in Txn
  PROVE  Score(t) \in 0..One
  <1> DEFINE num == Sum(points(t))
             den == Sum(weights(t))
  <1>1. /\ points(t) \in [Field -> Nat] /\ weights(t) \in [Field -> Nat]
        /\ \A f \in Field : points(t)[f] <= weights(t)[f]
    BY PointsWithinWeight DEF points, weights
  <1>2. num \in Nat /\ den \in Nat /\ num <= den
    BY <1>1, SumMonotone DEF Sum, Field
  <1>3. Score(t) = IF den <= 0 THEN 0 ELSE Rounded(num * One, den)
    BY DEF Score, points, weights, Points
  <1>4. Score(t) \in Nat
    BY ScoreType
  <1>5. One \in Nat
    BY DEF One
  <1> HIDE DEF num, den
  <1>6. CASE den <= 0
    <2>1. Score(t) = 0
      BY <1>3, <1>6
    <2>2. QED
      BY <2>1, <1>5
  <1>7. CASE den > 0
    <2>1. Rounded(num * One, den) <= Rounded(One, 1)
      <3>1. (num * One) * 1 <= One * den /\ num * One \in Nat
        BY <1>2 DEF One
      <3>2. QED
        BY <1>2, <1>5, <1>7, <3>1, RoundedMonotone
    <2>2. Rounded(One, 1) = One
      <3>1. One \div 1 = One /\ One % 1 = 0
        BY DEF One
      <3>2. QED
        BY <1>5, <3>1 DEF Rounded
    <2>3. ~(den <= 0)
      BY <1>2, <1>7
    <2>4. QED
      BY <1>3, <1>4, <1>5, <2>1, <2>2, <2>3
  <1>8. QED
    BY <1>2, <1>6, <1>7

\* A crop makes its field missing and touches no other.
LEMMA CropHides ==
  ASSUME TypeOK, NEW f \in Croppable, Crop(f), NEW t \in Txn
  PROVE  /\ f \in Field
         /\ \A g \in Field \ {f} : Outcome(t, g)' = Outcome(t, g)
         /\ Outcome(t, f)'.agreement = "MISSING"
         /\ policy' = policy
  <1>1. f \in Field /\ receipt \in Receipt
    BY EngineAssumption DEF TypeOK
  <1>2. policy' = policy /\ ledger' = ledger
    BY DEF Crop
  <1>3. /\ receipt'.amount = IF f = "amount" THEN None ELSE receipt.amount
        /\ receipt'.read = receipt.read \ {f}
    BY <1>1 DEF Crop, Receipt
  <1>4. \A g \in Field \ {f} : Level(t, g)' = Level(t, g)
    BY <1>1, <1>2, <1>3 DEF Level
  <1>5. Level(t, f)' = Missing[f]
    <2>1. CASE f = "amount"
      BY <1>3, <2>1 DEF Level, Missing, Field
    <2>2. CASE f # "amount"
      BY <1>3, <2>2 DEF Level
    <2>3. QED
      BY <2>1, <2>2
  <1>6. QED
    BY <1>1, <1>2, <1>4, <1>5, MissingIsMissing DEF Outcome

\* Hiding a field whose rung is worth what its absence costs lowers the score.
LEMMA CropLowers ==
  ASSUME TypeOK, NEW f \in Croppable, Crop(f), NEW t \in Txn,
         Outcome(t, f).score >= 100 - policy.penalty
  PROVE  Score(t)' <= Score(t)
  <1> DEFINE P == Sum([points(t) EXCEPT ![f] = 0])
             W == Sum([weights(t) EXCEPT ![f] = 0])
             w == policy.weight[f]
             s == Outcome(t, f).score
             m == policy.penalty
  <1>1. f \in Field
    BY CropHides
  <1>2. /\ w \in Nat /\ s \in Nat /\ m \in Nat /\ m <= 100
    BY <1>1, OutcomeType DEF TypeOK, Constructible, Policy
  <1>3. /\ points(t) \in [Field -> Nat] /\ weights(t) \in [Field -> Nat]
        /\ \A g \in Field : points(t)[g] <= weights(t)[g]
    BY PointsWithinWeight DEF points, weights
  <1>4. /\ P \in Nat /\ W \in Nat /\ P <= W
        /\ Sum(points(t)) = P + points(t)[f]
        /\ Sum(weights(t)) = W + weights(t)[f]
    <2>1. \A g \in Field : [points(t) EXCEPT ![f] = 0][g] <= [weights(t) EXCEPT ![f] = 0][g]
      BY <1>1, <1>3
    <2>2. /\ [points(t) EXCEPT ![f] = 0] \in [Field -> Nat]
          /\ [weights(t) EXCEPT ![f] = 0] \in [Field -> Nat]
      BY <1>3
    <2>3. P <= W
      BY <2>1, <2>2, SumMonotone
    <2>4. QED
      BY <1>1, <1>3, <2>3, SumSplit
  <1>5. /\ points(t)' = [points(t) EXCEPT ![f] = 0]
        /\ weights(t)' = [weights(t) EXCEPT ![f] = w * m]
    <2>1. \A g \in Field \ {f} : Points(t, g)' = Points(t, g) /\ Weight(t, g)' = Weight(t, g)
      BY CropHides DEF Points, Weight
    <2>2. Points(t, f)' = 0 /\ Weight(t, f)' = w * m
      BY CropHides DEF Points, Weight
    <2>3. QED
      BY <2>1, <2>2 DEF points, weights
  <1>6. Sum(points(t)') = P /\ Sum(weights(t)') = W + w * m
    <2>1. w * m \in Nat
      <3> HIDE DEF w, m
      <3> QED
        BY <1>2
    <2>2. weights(t)' \in [Field -> Nat] /\ weights(t)'[f] = w * m
      BY <1>1, <1>3, <1>5, <2>1
    <2>3. [weights(t)' EXCEPT ![f] = 0] = [weights(t) EXCEPT ![f] = 0]
      BY <1>3, <1>5
    <2>4. QED
      BY <1>1, <1>5, <2>2, <2>3, SumSplit
  <1>7. Score(t)' = IF W + w * m <= 0 THEN 0 ELSE Rounded(P * One, W + w * m)
    <2>1. Score(t)' = IF Sum(weights(t)') <= 0 THEN 0
                      ELSE Rounded(Sum(points(t)') * One, Sum(weights(t)'))
      BY DEF Score, points, weights, Points
    <2>2. QED
      BY <1>6, <2>1
  <1>8. Score(t) = IF W + weights(t)[f] <= 0 THEN 0
                    ELSE Rounded((P + points(t)[f]) * One, W + weights(t)[f])
    <2>1. Score(t) = IF Sum(weights(t)) <= 0 THEN 0
                     ELSE Rounded(Sum(points(t)) * One, Sum(weights(t)))
      BY DEF Score, points, weights, Points
    <2>2. QED
      BY <1>4, <2>1
  <1>9. Score(t) \in Nat
    BY ScoreType
  <1>10. CASE Outcome(t, f).agreement = "MISSING"
    <2>1. points(t)[f] = 0 /\ weights(t)[f] = w * m
      BY <1>1, <1>10 DEF Points, Weight, points, weights
    <2>2. P + 0 = P
      BY <1>4
    <2>3. Score(t)' = Score(t)
      BY <1>7, <1>8, <2>1, <2>2
    <2>4. QED
      BY <1>9, <2>3
  <1>11. CASE Outcome(t, f).agreement # "MISSING"
    <2>1. points(t)[f] = w * s /\ weights(t)[f] = w * 100
      BY <1>1, <1>11 DEF Points, Weight, points, weights
    <2>2. Score(t) = IF W + w * 100 <= 0 THEN 0
                     ELSE Rounded((P + w * s) * One, W + w * 100)
      BY <1>8, <2>1
    <2> HIDE DEF P, W, w, s, m
    <2>3. w * m \in Nat /\ w * 100 \in Nat /\ w * s \in Nat /\ w * m <= w * 100
      BY <1>2
    <2>4. CASE W + w * m <= 0
      BY <1>7, <1>9, <2>4
    <2>5. CASE W + w * m > 0
      <3>1. P * (W + w * 100) <= (P + w * s) * (W + w * m)
        BY <1>2, <1>4, RemovalLowers DEF s, m
      <3>2. (P * One) * (W + w * 100) <= ((P + w * s) * One) * (W + w * m)
        <4>1. /\ (P * One) * (W + w * 100) = One * (P * (W + w * 100))
              /\ ((P + w * s) * One) * (W + w * m) = One * ((P + w * s) * (W + w * m))
          BY <1>2, <1>4, <2>3 DEF One
        <4>2. P * (W + w * 100) \in Nat /\ (P + w * s) * (W + w * m) \in Nat
          BY <1>2, <1>4, <2>3
        <4>3. One * (P * (W + w * 100)) <= One * ((P + w * s) * (W + w * m))
          BY <3>1, <4>2 DEF One
        <4>4. QED
          BY <4>1, <4>3
      <3>3. W + w * 100 > 0 /\ W + w * 100 \in Nat /\ W + w * m \in Nat
        BY <1>2, <1>4, <2>3, <2>5
      <3>4. P * One \in Nat /\ (P + w * s) * One \in Nat
        BY <1>2, <1>4, <2>3 DEF One
      <3>5. Rounded(P * One, W + w * m) <= Rounded((P + w * s) * One, W + w * 100)
        BY <2>5, <3>2, <3>3, <3>4, RoundedMonotone
      <3>6. ~(W + w * m <= 0) /\ ~(W + w * 100 <= 0)
        BY <1>2, <1>4, <2>3, <2>5, <3>3
      <3>7. QED
        BY <1>7, <2>2, <3>5, <3>6
    <2>6. QED
      BY <1>2, <1>4, <2>3, <2>4, <2>5
  <1>12. QED
    BY <1>10, <1>11

\* Under every constructible policy, hiding a field whose rung is worth what its
\* absence costs lowers no candidate's score: the gap that lets a cropped receipt
\* verify is not in the aggregation.
THEOREM CroppingOnlyLowers == Spec => CroppingNeverRaisesScore
  <1>1. TypeOK =>
          [ \A f \in Croppable : Crop(f) =>
              \A t \in Candidates :
                Outcome(t, f).score >= 100 - policy.penalty => Score(t)' <= Score(t) ]_vars
    BY CropLowers, CandidatesType
  <1>2. QED
    BY <1>1, EngineTypeCorrect, PTL DEF Spec, CroppingNeverRaisesScore
=============================================================================
