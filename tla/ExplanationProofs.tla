-------------------------- MODULE ExplanationProofs --------------------------
(***************************************************************************)
(* What the merchant is told is what the engine found, for every ledger,   *)
(* receipt, history and constructible policy.                              *)
(*                                                                         *)
(* The explanation reads a decision beside the state it was made on, so    *)
(* the invariant it needs is that an answer on the table is still the one  *)
(* the engine would give: every action but Check takes it away.            *)
(***************************************************************************)
EXTENDS Explanation, DecisionEngineProofs

AnswerIsCurrent == answer # None => answer = Decide

\* The engine reads its inputs and nothing else.
LEMMA DecisionOfInputs ==
  ASSUME UNCHANGED inputs
  PROVE  Decide' = Decide
  <1>1. UNCHANGED reading /\ spent' = spent /\ holder' = holder
    BY DEF inputs, reading
  <1>2. Candidates' = Candidates /\ Best' = Best
    BY <1>1, SameRanking
  <1>3. When(20)' <=> When(20)
    BY <1>1, <1>2 DEF When, AllocatedElsewhere
  <1>4. When(25)' <=> When(25)
    BY <1>1 DEF When, ProofReused
  <1>5. \A s \in RuleId : When(s)' <=> When(s)
    BY <1>1, <1>3, <1>4, SameRules
  <1>6. QED
    BY <1>1, <1>5, SameDecision

LEMMA CurrentStep ==
  ASSUME TypeOK, AnswerIsCurrent, [Next]_vars
  PROVE  AnswerIsCurrent'
  <1>1. CASE answer' = Decide /\ UNCHANGED inputs
    BY <1>1, DecisionOfInputs DEF AnswerIsCurrent
  <1>2. CASE answer' = None
    BY <1>2 DEF AnswerIsCurrent
  <1>3. CASE UNCHANGED vars
    <2>1. UNCHANGED inputs /\ answer' = answer
      BY <1>3 DEF vars, inputs
    <2>2. QED
      BY <2>1, DecisionOfInputs DEF AnswerIsCurrent
  <1>4. QED
    BY <1>1, <1>2, <1>3, AnswerSteps

LEMMA CurrentInvariant == Spec => [](TypeOK /\ AnswerIsCurrent)
  <1>1. Init => AnswerIsCurrent
    BY DEF Init, AnswerIsCurrent
  <1>2. TypeOK /\ AnswerIsCurrent /\ [Next]_vars => AnswerIsCurrent'
    BY CurrentStep
  <1>3. QED
    BY <1>1, <1>2, EngineTypeCorrect, PTL DEF Spec

-----------------------------------------------------------------------------
(***************************************************************************)
(* The reasons of the first rule that matches.                             *)
(***************************************************************************)
LEMMA RelationIs ==
  ASSUME TypeOK, AmountCompared
  PROVE  /\ RelationReason \in {"MISSING_ORDER_AMOUNT", "AMOUNT_EXACT",
                               "AMOUNT_UNDERPAID", "AMOUNT_OVERPAID"}
         /\ RelationReason = "AMOUNT_UNDERPAID" <=>
              (expected # None /\ ledger[Best.txn].amount < expected)
         /\ RelationReason = "AMOUNT_OVERPAID" <=> Overpaid
  <1>1. Candidates # {} /\ ledger[Best.txn].amount \in Nat
    BY BestRow DEF AmountCompared
  <1>2. expected # None => expected \in Nat
    BY EngineAssumption DEF TypeOK
  <1>3. QED
    BY <1>1, <1>2 DEF RelationReason, Relation, Overpaid

LEMMA IntegrityIs ==
  ASSUME TypeOK, AmountCompared
  PROVE  /\ IntegrityReason \in {None, "CLAIM_CONSISTENT", "CLAIM_INFLATED", "CLAIM_DEFLATED"}
         /\ IntegrityReason = "CLAIM_INFLATED" <=>
              (receipt.amount # None /\ receipt.amount > ledger[Best.txn].amount)
  <1>1. Candidates # {} /\ ledger[Best.txn].amount \in Nat
    BY BestRow DEF AmountCompared
  <1>2. receipt.amount # None => receipt.amount \in Nat
    BY DEF TypeOK, Receipt
  <1>3. None # "CLAIM_INFLATED"
    BY ReasonAssumption DEF Reason
  <1>4. QED
    BY <1>1, <1>2, <1>3 DEF IntegrityReason

\* The amount evidence tells the difference between order and ledger whenever
\* the amounts were compared, whichever rule fires.
LEMMA AmountReasonsAre ==
  ASSUME TypeOK
  PROVE  /\ AmountReasons \subseteq {"MISSING_ORDER_AMOUNT", "AMOUNT_EXACT",
              "AMOUNT_UNDERPAID", "AMOUNT_OVERPAID", "AMOUNT_OVERPAID_MATERIAL",
              "CLAIM_CONSISTENT", "CLAIM_INFLATED", "CLAIM_DEFLATED"}
         /\ "AMOUNT_UNDERPAID" \in AmountReasons <=>
              (AmountCompared /\ expected # None /\ ledger[Best.txn].amount < expected)
         /\ "AMOUNT_OVERPAID" \in AmountReasons <=> Overpaid
         /\ "AMOUNT_OVERPAID_MATERIAL" \in AmountReasons <=> MateriallyOverpaid
         /\ "CLAIM_INFLATED" \in AmountReasons <=>
              (AmountCompared /\ receipt.amount # None
                 /\ receipt.amount > ledger[Best.txn].amount)
  <1>1. CASE AmountCompared
    <2>1. None \notin {"AMOUNT_UNDERPAID", "AMOUNT_OVERPAID", "AMOUNT_OVERPAID_MATERIAL",
                      "CLAIM_INFLATED"}
      BY ReasonAssumption DEF Reason
    <2> HIDE DEF RelationReason, IntegrityReason
    <2>2. AmountReasons = ({RelationReason, IntegrityReason} \ {None})
             \cup (IF MateriallyOverpaid THEN {"AMOUNT_OVERPAID_MATERIAL"} ELSE {})
      BY <1>1 DEF AmountReasons
    <2>3. QED
      BY <1>1, <2>1, <2>2, RelationIs, IntegrityIs
  <1>2. CASE ~AmountCompared
    BY <1>2 DEF AmountReasons, Overpaid, MateriallyOverpaid
  <1>3. QED
    BY <1>1, <1>2

\* The leading reason of each rule, and that only R080 has a second one.
LEMMA RuleReasonsAre ==
  ASSUME NEW r \in RuleId
  PROVE  /\ "PROOF_REUSED" \in RuleReasons(r) <=> r = 25
         /\ "CLAIM_INFLATED" \in RuleReasons(r) <=> r = 30
         /\ "NO_CANDIDATES" \in RuleReasons(r) <=> r = 10
         /\ "AMBIGUOUS_CANDIDATES" \in RuleReasons(r) <=> r = 50
         /\ "SOURCE_PARTIALLY_TRUSTED" \in RuleReasons(r) <=> r = 65
         /\ "LOW_EXTRACTION_CONFIDENCE" \in RuleReasons(r) <=> r = 67
         /\ "AMOUNT_UNDERPAID" \in RuleReasons(r) <=> r = 70
         /\ "AMOUNT_OVERPAID_MATERIAL" \in RuleReasons(r) <=> r = 72
         /\ "FIELD_CONTRADICTS_MATCH" \in RuleReasons(r) <=> r = 75
         /\ "AMOUNT_OVERPAID" \in RuleReasons(r) <=> r = 80
  BY ReasonAssumption DEF Reason, RuleId, RuleReasons, RuleLead

\* Inflation that matters is inflation.
LEMMA InflatedIs ==
  ASSUME TypeOK, Inflated
  PROVE  /\ AmountCompared /\ receipt.amount # None
         /\ receipt.amount > ledger[Best.txn].amount
  <1>1. AmountCompared /\ receipt.amount # None
    BY DEF Inflated
  <1>2. ledger[Best.txn].amount \in Nat /\ receipt.amount \in Nat
    BY <1>1, BestRow DEF AmountCompared, TypeOK, Receipt
  <1>3. receipt.amount - ledger[Best.txn].amount > 0
    BY DEF Inflated, MaterialInflation
  <1>4. QED
    BY <1>1, <1>2, <1>3

LEMMA UnderpaidIs ==
  ASSUME TypeOK, Underpaid
  PROVE  /\ AmountCompared /\ expected # None
         /\ ledger[Best.txn].amount < expected
  <1>1. AmountCompared /\ expected # None
    BY DEF Underpaid
  <1>2. ledger[Best.txn].amount \in Nat /\ expected \in Nat
    BY <1>1, BestRow, EngineAssumption DEF AmountCompared, TypeOK
  <1>3. QED
    BY <1>1, <1>2 DEF Underpaid, Relation

\* The reasons of a decision say what was found: those of the arithmetic and the
\* contradiction under every rule, the others under the one rule that carries them.
LEMMA ReasonsAre ==
  ASSUME TypeOK
  PROVE  /\ "PROOF_REUSED" \in ReasonsFor(FirstMatch) <=> FirstMatch = 25
         /\ "NO_CANDIDATES" \in ReasonsFor(FirstMatch) <=> FirstMatch = 10
         /\ "AMBIGUOUS_CANDIDATES" \in ReasonsFor(FirstMatch) <=> FirstMatch = 50
         /\ "SOURCE_PARTIALLY_TRUSTED" \in ReasonsFor(FirstMatch) <=> FirstMatch = 65
         /\ "LOW_EXTRACTION_CONFIDENCE" \in ReasonsFor(FirstMatch) <=> FirstMatch = 67
         /\ "FIELD_CONTRADICTS_MATCH" \in ReasonsFor(FirstMatch) <=> Contradicted
         /\ "AMOUNT_UNDERPAID" \in ReasonsFor(FirstMatch) <=>
              (AmountCompared /\ expected # None /\ ledger[Best.txn].amount < expected)
         /\ "AMOUNT_OVERPAID" \in ReasonsFor(FirstMatch) <=> Overpaid
         /\ "AMOUNT_OVERPAID_MATERIAL" \in ReasonsFor(FirstMatch) <=> MateriallyOverpaid
         /\ "CLAIM_INFLATED" \in ReasonsFor(FirstMatch) <=>
              (AmountCompared /\ receipt.amount # None
                 /\ receipt.amount > ledger[Best.txn].amount)
  <1>1. FirstMatch \in RuleId /\ When(FirstMatch)
    BY FirstMatchIs
  <1>2. FirstMatch = 30 => Inflated
    BY <1>1 DEF When
  <1>3. FirstMatch = 70 => Underpaid
    BY <1>1 DEF When
  <1>4. FirstMatch = 72 => MateriallyOverpaid
    BY <1>1 DEF When
  <1>5. FirstMatch = 75 => Contradicted
    BY <1>1 DEF When
  <1>6. FirstMatch = 80 => Overpaid
    BY <1>1 DEF When
  <1> DEFINE r == FirstMatch
             rule == RuleReasons(r)
             money == AmountReasons
             contra == IF Contradicted THEN {"FIELD_CONTRADICTS_MATCH"} ELSE {}
  <1>7. ReasonsFor(r) = contra \cup rule \cup money
    BY DEF ReasonsFor
  <1>8. contra = IF Contradicted THEN {"FIELD_CONTRADICTS_MATCH"} ELSE {}
    OBVIOUS
  <1>9. /\ "PROOF_REUSED" \in rule <=> r = 25
        /\ "CLAIM_INFLATED" \in rule <=> r = 30
        /\ "NO_CANDIDATES" \in rule <=> r = 10
        /\ "AMBIGUOUS_CANDIDATES" \in rule <=> r = 50
        /\ "SOURCE_PARTIALLY_TRUSTED" \in rule <=> r = 65
        /\ "LOW_EXTRACTION_CONFIDENCE" \in rule <=> r = 67
        /\ "AMOUNT_UNDERPAID" \in rule <=> r = 70
        /\ "AMOUNT_OVERPAID_MATERIAL" \in rule <=> r = 72
        /\ "FIELD_CONTRADICTS_MATCH" \in rule <=> r = 75
        /\ "AMOUNT_OVERPAID" \in rule <=> r = 80
    BY <1>1, RuleReasonsAre
  <1>10. /\ money \subseteq {"MISSING_ORDER_AMOUNT", "AMOUNT_EXACT",
              "AMOUNT_UNDERPAID", "AMOUNT_OVERPAID", "AMOUNT_OVERPAID_MATERIAL",
              "CLAIM_CONSISTENT", "CLAIM_INFLATED", "CLAIM_DEFLATED"}
         /\ "AMOUNT_UNDERPAID" \in money <=>
              (AmountCompared /\ expected # None /\ ledger[Best.txn].amount < expected)
         /\ "AMOUNT_OVERPAID" \in money <=> Overpaid
         /\ "AMOUNT_OVERPAID_MATERIAL" \in money <=> MateriallyOverpaid
         /\ "CLAIM_INFLATED" \in money <=>
              (AmountCompared /\ receipt.amount # None
                 /\ receipt.amount > ledger[Best.txn].amount)
    BY AmountReasonsAre
  <1>11. r = 30 => (AmountCompared /\ receipt.amount # None
                      /\ receipt.amount > ledger[Best.txn].amount)
    BY <1>2, InflatedIs
  <1>12. r = 70 => (AmountCompared /\ expected # None /\ ledger[Best.txn].amount < expected)
    BY <1>3, UnderpaidIs
  <1> HIDE DEF rule, money, contra
  <1>13. QED
    BY <1>4, <1>5, <1>6, <1>7, <1>8, <1>9, <1>10, <1>11, <1>12

-----------------------------------------------------------------------------
(***************************************************************************)
(* The summary.                                                            *)
(***************************************************************************)
Told == answer # None /\ answer = Decide /\ answer.status # "RAISED"

LEMMA ToldIs ==
  ASSUME TypeOK, Told
  PROVE  /\ answer.rule = FirstMatch /\ FirstMatch \in RuleId
         /\ answer.status = StatusOf(FirstMatch)
         /\ answer.txn = MatchedTxn(FirstMatch)
         /\ When(FirstMatch)
         /\ \A s \in RuleId : s < FirstMatch => ~When(s)
  BY FirstMatchIs DEF Told, Decide

LEMMA DecisionIs ==
  ASSUME TypeOK, Told
  PROVE  /\ Decision.status = StatusOf(FirstMatch)
         /\ Decision.txn = MatchedTxn(FirstMatch)
         /\ Decision.lead = LeadReason(FirstMatch)
         /\ Decision.reasons = ReasonsFor(FirstMatch)
         /\ Decision.evidence = Evidence
         /\ Decision.earlier = EarlierOrder
         /\ Decision.risk = RiskOf(FirstMatch)
  BY ToldIs DEF Decision

\* A named transaction is the top candidate.
LEMMA NamedIsBest ==
  ASSUME TypeOK, MatchedTxn(FirstMatch) # None
  PROVE  Candidates # {} /\ MatchedTxn(FirstMatch) = Best.txn
  <1>1. MatchedTxn(FirstMatch) = Best.txn /\ StatusOf(FirstMatch) # "UNMATCHED"
    BY DEF MatchedTxn
  <1>2. ASSUME Candidates = {}
        PROVE  FALSE
    <2>1. When(10) /\ 10 \in RuleId
      BY <1>2 DEF When, RuleId
    <2>2. FirstMatch \in RuleId /\ ~(10 < FirstMatch)
      BY <2>1, FirstMatchIs
    <2>3. FirstMatch = 10
      BY <2>2 DEF RuleId
    <2>4. QED
      BY <1>1, <2>3 DEF StatusOf
  <1>3. QED
    BY <1>1, <1>2

LEMMA ExactAmountIs ==
  ASSUME TypeOK, Candidates # {}, Level(Best.txn, "amount") = "AMT_EXACT"
  PROVE  receipt.amount # None /\ receipt.amount = ledger[Best.txn].amount
  <1>1. receipt.amount # None
    BY DEF Level
  <1>2. AmountLevel(receipt.amount, ledger[Best.txn].amount, policy) = "AMT_EXACT"
    BY <1>1 DEF Level
  <1>3. QED
    BY <1>1, <1>2 DEF AmountLevel

LEMMA EvidenceIs ==
  /\ Candidates = {} => DOMAIN Evidence = {}
  /\ Candidates # {} =>
       /\ DOMAIN Evidence = Field
       /\ \A f \in Field : /\ Evidence[f].level = Level(Best.txn, f)
                          /\ Evidence[f].agreement = Outcome(Best.txn, f).agreement
  BY DEF Evidence

LEMMA AmountsAreReal ==
  ASSUME TypeOK, Told
  PROVE  MoneyIsReal(Decision)
  <1>1. SUFFICES ASSUME Received(Decision) # None
                 PROVE  Candidates # {} /\ Received(Decision) = ledger[Best.txn].amount
    BY DEF MoneyIsReal
  <1>2. CASE Decision.txn # None
    BY <1>2, DecisionIs, NamedIsBest DEF Received
  <1>3. CASE Decision.txn = None
    <2>1. /\ "amount" \in DOMAIN Evidence /\ Evidence["amount"].level = "AMT_EXACT"
          /\ Received(Decision) = receipt.amount
      BY <1>1, <1>3, DecisionIs DEF Received
    <2>2. Candidates # {} /\ "amount" \in Field
      BY <2>1, EvidenceIs DEF Field
    <2>3. QED
      BY <2>1, <2>2, EvidenceIs, ExactAmountIs
  <1>4. QED
    BY <1>2, <1>3

\* What a summary of one sentence speaks of.
LEMMA OneSentence ==
  ASSUME NEW d, NEW s, Summary(d) = {s}
  PROVE  Kinds(d) = {s[1]}
  BY DEF Kinds

\* A review that is not ambiguous has one sentence for each reason.
LEMMA ReviewKinds ==
  ASSUME NEW d, d.status = "NEEDS_REVIEW"
  PROVE  IF "AMBIGUOUS_CANDIDATES" \in d.reasons
         THEN Kinds(d) = {"several match"}
         ELSE /\ "contradiction" \in Kinds(d) <=> "FIELD_CONTRADICTS_MATCH" \in d.reasons
              /\ "overpaid" \in Kinds(d) <=> "AMOUNT_OVERPAID_MATERIAL" \in d.reasons
              /\ "underpaid" \in Kinds(d) <=> "AMOUNT_UNDERPAID" \in d.reasons
              /\ "imported" \in Kinds(d) <=> "SOURCE_PARTIALLY_TRUSTED" \in d.reasons
              /\ "read badly" \in Kinds(d) <=> "LOW_EXTRACTION_CONFIDENCE" \in d.reasons
              /\ "not enough evidence" \in Kinds(d) =>
                   /\ "FIELD_CONTRADICTS_MATCH" \notin d.reasons
                   /\ "AMOUNT_OVERPAID_MATERIAL" \notin d.reasons
                   /\ "AMOUNT_UNDERPAID" \notin d.reasons
                   /\ "SOURCE_PARTIALLY_TRUSTED" \notin d.reasons
                   /\ "LOW_EXTRACTION_CONFIDENCE" \notin d.reasons
  <1> DEFINE c1 == <<"contradiction", Contradicting(d)>>
             c2 == <<"overpaid", Priced(d)>>
             c3 == <<"underpaid", Priced(d)>>
             c4 == <<"imported">>
             c5 == <<"read badly">>
             P == SayIf("FIELD_CONTRADICTS_MATCH" \in d.reasons, c1)
                    \cup SayIf("AMOUNT_OVERPAID_MATERIAL" \in d.reasons, c2)
                    \cup SayIf("AMOUNT_UNDERPAID" \in d.reasons, c3)
                    \cup SayIf("SOURCE_PARTIALLY_TRUSTED" \in d.reasons, c4)
                    \cup SayIf("LOW_EXTRACTION_CONFIDENCE" \in d.reasons, c5)
  <1>1. /\ c1[1] = "contradiction" /\ c2[1] = "overpaid" /\ c3[1] = "underpaid"
        /\ c4[1] = "imported" /\ c5[1] = "read badly"
    OBVIOUS
  <1>2. Summary(d) = IF "AMBIGUOUS_CANDIDATES" \in d.reasons THEN {<<"several match">>}
                     ELSE IF P # {} THEN P ELSE {<<"not enough evidence">>}
    BY DEF Summary, ReviewSummary
  <1> HIDE DEF c1, c2, c3, c4, c5
  <1>3. \A s : s \in P <=>
          \/ "FIELD_CONTRADICTS_MATCH" \in d.reasons /\ s = c1
          \/ "AMOUNT_OVERPAID_MATERIAL" \in d.reasons /\ s = c2
          \/ "AMOUNT_UNDERPAID" \in d.reasons /\ s = c3
          \/ "SOURCE_PARTIALLY_TRUSTED" \in d.reasons /\ s = c4
          \/ "LOW_EXTRACTION_CONFIDENCE" \in d.reasons /\ s = c5
    BY DEF SayIf
  <1> HIDE DEF P
  <1>4. CASE "AMBIGUOUS_CANDIDATES" \in d.reasons
    <2>1. Summary(d) = {<<"several match">>}
      BY <1>2, <1>4
    <2>2. Kinds(d) = {<<"several match">>[1]}
      BY <2>1, OneSentence
    <2>3. <<"several match">>[1] = "several match"
      OBVIOUS
    <2>4. QED
      BY <1>4, <2>2, <2>3
  <1>5. CASE "AMBIGUOUS_CANDIDATES" \notin d.reasons /\ P # {}
    <2>1. Summary(d) = P
      BY <1>2, <1>5
    <2>2. \A k : k \in Kinds(d) <=> \E s \in P : k = s[1]
      BY <2>1 DEF Kinds
    <2>4. /\ "contradiction" \in Kinds(d) <=> "FIELD_CONTRADICTS_MATCH" \in d.reasons
          /\ "overpaid" \in Kinds(d) <=> "AMOUNT_OVERPAID_MATERIAL" \in d.reasons
          /\ "underpaid" \in Kinds(d) <=> "AMOUNT_UNDERPAID" \in d.reasons
          /\ "imported" \in Kinds(d) <=> "SOURCE_PARTIALLY_TRUSTED" \in d.reasons
          /\ "read badly" \in Kinds(d) <=> "LOW_EXTRACTION_CONFIDENCE" \in d.reasons
          /\ "not enough evidence" \notin Kinds(d)
      <3>1. "contradiction" \in Kinds(d) <=> "FIELD_CONTRADICTS_MATCH" \in d.reasons
        <4>1. ASSUME "contradiction" \in Kinds(d)
              PROVE  "FIELD_CONTRADICTS_MATCH" \in d.reasons
          <5>1. PICK s \in P : s[1] = "contradiction"
            BY <2>2, <4>1
          <5>2. QED
            BY <1>1, <1>3, <5>1
        <4>2. ASSUME "FIELD_CONTRADICTS_MATCH" \in d.reasons
              PROVE  "contradiction" \in Kinds(d)
          BY <1>1, <1>3, <2>2, <4>2
        <4>3. QED
          BY <4>1, <4>2
      <3>2. "overpaid" \in Kinds(d) <=> "AMOUNT_OVERPAID_MATERIAL" \in d.reasons
        <4>1. ASSUME "overpaid" \in Kinds(d)
              PROVE  "AMOUNT_OVERPAID_MATERIAL" \in d.reasons
          <5>1. PICK s \in P : s[1] = "overpaid"
            BY <2>2, <4>1
          <5>2. QED
            BY <1>1, <1>3, <5>1
        <4>2. ASSUME "AMOUNT_OVERPAID_MATERIAL" \in d.reasons
              PROVE  "overpaid" \in Kinds(d)
          BY <1>1, <1>3, <2>2, <4>2
        <4>3. QED
          BY <4>1, <4>2
      <3>3. "underpaid" \in Kinds(d) <=> "AMOUNT_UNDERPAID" \in d.reasons
        <4>1. ASSUME "underpaid" \in Kinds(d)
              PROVE  "AMOUNT_UNDERPAID" \in d.reasons
          <5>1. PICK s \in P : s[1] = "underpaid"
            BY <2>2, <4>1
          <5>2. QED
            BY <1>1, <1>3, <5>1
        <4>2. ASSUME "AMOUNT_UNDERPAID" \in d.reasons
              PROVE  "underpaid" \in Kinds(d)
          BY <1>1, <1>3, <2>2, <4>2
        <4>3. QED
          BY <4>1, <4>2
      <3>4. "imported" \in Kinds(d) <=> "SOURCE_PARTIALLY_TRUSTED" \in d.reasons
        <4>1. ASSUME "imported" \in Kinds(d)
              PROVE  "SOURCE_PARTIALLY_TRUSTED" \in d.reasons
          <5>1. PICK s \in P : s[1] = "imported"
            BY <2>2, <4>1
          <5>2. QED
            BY <1>1, <1>3, <5>1
        <4>2. ASSUME "SOURCE_PARTIALLY_TRUSTED" \in d.reasons
              PROVE  "imported" \in Kinds(d)
          BY <1>1, <1>3, <2>2, <4>2
        <4>3. QED
          BY <4>1, <4>2
      <3>5. "read badly" \in Kinds(d) <=> "LOW_EXTRACTION_CONFIDENCE" \in d.reasons
        <4>1. ASSUME "read badly" \in Kinds(d)
              PROVE  "LOW_EXTRACTION_CONFIDENCE" \in d.reasons
          <5>1. PICK s \in P : s[1] = "read badly"
            BY <2>2, <4>1
          <5>2. QED
            BY <1>1, <1>3, <5>1
        <4>2. ASSUME "LOW_EXTRACTION_CONFIDENCE" \in d.reasons
              PROVE  "read badly" \in Kinds(d)
          BY <1>1, <1>3, <2>2, <4>2
        <4>3. QED
          BY <4>1, <4>2
      <3>6. ASSUME "not enough evidence" \in Kinds(d)
            PROVE  FALSE
        <4>1. PICK s \in P : s[1] = "not enough evidence"
          BY <2>2, <3>6
        <4>2. QED
          BY <1>1, <1>3, <4>1
      <3>7. QED
        BY <3>1, <3>2, <3>3, <3>4, <3>5, <3>6
    <2>5. QED
      BY <1>5, <2>4
  <1>6. CASE "AMBIGUOUS_CANDIDATES" \notin d.reasons /\ P = {}
    <2>1. Summary(d) = {<<"not enough evidence">>}
      BY <1>2, <1>6
    <2> DEFINE none == <<"not enough evidence">>
    <2>2. Kinds(d) = {none[1]} /\ none[1] = "not enough evidence"
      BY <2>1, OneSentence
    <2>3. \A s : ~(s \in P)
      BY <1>6
    <2>4. QED
      BY <1>3, <1>6, <2>2, <2>3
  <1>7. QED
    BY <1>4, <1>5, <1>6

\* Past R010 and R060 the winner is credible, so the amounts were compared.
LEMMA PastTheFloor ==
  ASSUME TypeOK, Told, FirstMatch > 60
  PROVE  AmountCompared
  <1>1. ~When(10) /\ ~When(60)
    BY ToldIs DEF RuleId
  <1>2. Candidates # {} /\ ~(BestScore < policy.reject)
    BY <1>1 DEF When
  <1>3. BestScore \in Nat /\ policy.reject \in Nat
    BY <1>2, PolicyType, BestIs, BestRow, ScoreType
  <1>4. QED
    BY <1>2, <1>3 DEF AmountCompared

LEMMA ReviewsSayWhy ==
  ASSUME TypeOK, Told
  PROVE  ReviewSaysWhy(Decision)
  <1> DEFINE d == Decision
             r == FirstMatch
  <1>1. SUFFICES ASSUME StatusOf(r) = "NEEDS_REVIEW"
                 PROVE  ReviewSaysWhy(d)
    BY DecisionIs DEF ReviewSaysWhy
  <1>2. d.status = "NEEDS_REVIEW" /\ d.reasons = ReasonsFor(r)
    BY <1>1, DecisionIs
  <1>3. r \in {50, 65, 67, 70, 72, 75, 999}
    BY <1>1, ToldIs DEF StatusOf, RuleId
  <1>4. CASE r = 50
    <2>1. Ambiguous
      BY <1>4, ToldIs DEF When
    <2>2. "AMBIGUOUS_CANDIDATES" \in d.reasons
      BY <1>2, <1>4, ReasonsAre
    <2>3. Kinds(d) = {"several match"}
      BY <1>2, <2>2, ReviewKinds
    <2>4. QED
      BY <2>1, <2>3 DEF ReviewSaysWhy
  <1>5. CASE r # 50
    <2>1. r > 60
      BY <1>3, <1>5
    <2>2. ~Ambiguous
      <3>1. ~When(50)
        BY <2>1, ToldIs DEF RuleId
      <3>2. QED
        BY <3>1 DEF When
    <2>3. "AMBIGUOUS_CANDIDATES" \notin d.reasons
      BY <1>2, <1>5, ReasonsAre
    <2>4. AmountCompared
      BY <2>1, PastTheFloor
    <2>5. /\ "contradiction" \in Kinds(d) <=> "FIELD_CONTRADICTS_MATCH" \in d.reasons
          /\ "overpaid" \in Kinds(d) <=> "AMOUNT_OVERPAID_MATERIAL" \in d.reasons
          /\ "underpaid" \in Kinds(d) <=> "AMOUNT_UNDERPAID" \in d.reasons
          /\ "imported" \in Kinds(d) <=> "SOURCE_PARTIALLY_TRUSTED" \in d.reasons
          /\ "read badly" \in Kinds(d) <=> "LOW_EXTRACTION_CONFIDENCE" \in d.reasons
      <3> HIDE DEF d
      <3> QED
        BY <1>2, <2>3, ReviewKinds
    <2>6. /\ "contradiction" \in Kinds(d) <=> Contradicted
          /\ "overpaid" \in Kinds(d) <=> MateriallyOverpaid
          /\ "underpaid" \in Kinds(d) <=>
               (expected # None /\ ledger[Best.txn].amount < expected)
          /\ "imported" \in Kinds(d) <=> r = 65
          /\ "read badly" \in Kinds(d) <=> r = 67
      BY <1>2, <2>4, <2>5, ReasonsAre
    <2>7. r = 65 => PartiallyTrusted
      BY ToldIs DEF When
    <2>8. r = 67 => receipt.doubted # {}
      BY ToldIs DEF When
    <2>9. "not enough evidence" \in Kinds(d) => ~Acceptable
      <3>1. SUFFICES ASSUME "not enough evidence" \in Kinds(d)
                     PROVE  ~Acceptable
        OBVIOUS
      <3>2. /\ "FIELD_CONTRADICTS_MATCH" \notin d.reasons
            /\ "AMOUNT_OVERPAID_MATERIAL" \notin d.reasons
            /\ "AMOUNT_UNDERPAID" \notin d.reasons
            /\ "SOURCE_PARTIALLY_TRUSTED" \notin d.reasons
            /\ "LOW_EXTRACTION_CONFIDENCE" \notin d.reasons
        BY <1>2, <2>3, <3>1, ReviewKinds
      <3>3. /\ ~Contradicted /\ ~MateriallyOverpaid
            /\ ~(expected # None /\ ledger[Best.txn].amount < expected)
            /\ r # 65 /\ r # 67
        BY <1>2, <2>4, <3>2, ReasonsAre
      <3>4. When(r)
        BY ToldIs
      <3>5. /\ r = 70 => Underpaid
            /\ r = 72 => MateriallyOverpaid
            /\ r = 75 => Contradicted
        <4> HIDE DEF r
        <4>1. r = 70 => Underpaid
          BY <3>4 DEF When
        <4>2. r = 72 => MateriallyOverpaid
          BY <3>4 DEF When
        <4>3. r = 75 => Contradicted
          BY <3>4 DEF When
        <4>4. QED
          BY <4>1, <4>2, <4>3
      <3>6. r # 70 /\ r # 72 /\ r # 75
        BY <3>3, <3>5, UnderpaidIs
      <3>7. r = 999
        BY <1>3, <1>5, <3>3, <3>6
      <3>8. ~When(90)
        BY <3>7, ToldIs DEF RuleId
      <3>9. QED
        BY <3>8 DEF When
    <2> HIDE DEF d, r
    <2>10. QED
      BY <2>2, <2>6, <2>7, <2>8, <2>9 DEF ReviewSaysWhy
  <1>6. QED
    BY <1>4, <1>5

LEMMA AccusationsSayWhich ==
  ASSUME TypeOK, Told
  PROVE  AccusationSaysWhich(Decision)
  <1> DEFINE d == Decision
             r == FirstMatch
  <1>1. d.status = StatusOf(r) /\ d.reasons = ReasonsFor(r) /\ r \in RuleId
    BY DecisionIs, ToldIs
  <1>2. ASSUME d.status = "DUPLICATE"
        PROVE  \/ Summary(d) = {<<"transaction used">>} /\ AllocatedElsewhere
               \/ Summary(d) = {<<"screenshot used", holder>>} /\ holder \notin {None, ThisOrder}
    <2>1. r \in {20, 25}
      BY <1>1, <1>2 DEF StatusOf, RuleId
    <2>2. Summary(d) = IF "PROOF_REUSED" \in d.reasons
                       THEN {<<"screenshot used", d.earlier>>} ELSE {<<"transaction used">>}
      BY <1>2 DEF Summary, DuplicateSummary
    <2>3. CASE r = 20
      <3>1. AllocatedElsewhere
        BY <2>3, ToldIs DEF When
      <3>2. "PROOF_REUSED" \notin d.reasons
        BY <1>1, <2>3, ReasonsAre
      <3>3. QED
        BY <2>2, <3>1, <3>2
    <2>4. CASE r = 25
      <3>1. ProofReused
        BY <2>4, ToldIs DEF When
      <3>2. "PROOF_REUSED" \in d.reasons
        BY <1>1, <2>4, ReasonsAre
      <3>3. d.earlier = holder
        BY <3>1, DecisionIs DEF EarlierOrder
      <3>4. QED
        BY <2>2, <3>1, <3>2, <3>3 DEF ProofReused
    <2>5. QED
      BY <2>1, <2>3, <2>4
  <1>3. ASSUME d.status = "SUSPICIOUS"
        PROVE  \/ "claims more" \in Kinds(d) /\ receipt.amount > ledger[Best.txn].amount
               \/ "claims more" \notin Kinds(d) /\ (Inflated => d.txn = None)
    <2> DEFINE told == "CLAIM_INFLATED" \in d.reasons /\ Received(d) # None
                         /\ receipt.amount # None
               more == <<"claims more", receipt.amount, Received(d)>>
               edited == <<"looks edited">>
               conflict == <<"details conflict">>
    <2>1. Summary(d) = IF told THEN {more}
                       ELSE IF "TAMPER_OBSERVATIONS" \in d.reasons
                       THEN {edited} ELSE {conflict}
      BY <1>3 DEF Summary, SuspiciousSummary
    <2>2. /\ more[1] = "claims more" /\ edited[1] = "looks edited"
          /\ conflict[1] = "details conflict"
      OBVIOUS
    <2> HIDE DEF told, more, edited, conflict
    <2>3. CASE told
      <3>1. Kinds(d) = {more[1]}
        BY <2>1, <2>3, OneSentence
      <3>2. receipt.amount > ledger[Best.txn].amount
        BY <1>1, <2>3, ReasonsAre DEF told
      <3>3. QED
        BY <2>2, <3>1, <3>2
    <2>4. CASE ~told
      <3>1. Kinds(d) = {edited[1]} \/ Kinds(d) = {conflict[1]}
        BY <2>1, <2>4, OneSentence
      <3>2. "claims more" \notin Kinds(d)
        BY <2>2, <3>1
      <3>3. ASSUME Inflated
            PROVE  d.txn = None
        <4>1. "CLAIM_INFLATED" \in d.reasons /\ receipt.amount # None /\ Candidates # {}
          BY <1>1, <3>3, InflatedIs, ReasonsAre DEF AmountCompared
        <4>2. Received(d) = None
          BY <2>4, <4>1 DEF told
        <4>3. SUFFICES ASSUME d.txn # None
                       PROVE  FALSE
          OBVIOUS
        <4>4. d.txn = Best.txn
          BY <4>3, DecisionIs, NamedIsBest
        <4>5. Received(d) \in Nat
          BY <4>1, <4>3, <4>4, BestRow DEF Received
        <4>6. QED
          BY <4>2, <4>5, EngineAssumption
      <3>4. QED
        BY <3>2, <3>3
    <2>5. QED
      BY <2>3, <2>4
  <1>4. QED
    BY <1>2, <1>3 DEF AccusationSaysWhich

\* Whatever the verdict, its summary tells what the engine found: every
\* contradiction and every difference in money of a review, the ground of an
\* accusation, and only amounts that were received (explain.py 379-599).
THEOREM SummariesTellTheFindings == Spec => []SummaryTellsTheFindings
  <1>1. TypeOK /\ AnswerIsCurrent => SummaryTellsTheFindings
    BY ReviewsSayWhy, AccusationsSayWhich, AmountsAreReal
       DEF SummaryTellsTheFindings, AnswerIsCurrent, Told
  <1>2. QED
    BY <1>1, CurrentInvariant, PTL

-----------------------------------------------------------------------------
(***************************************************************************)
(* The attempt as it is stored.                                            *)
(***************************************************************************)
Agreement == {"AGREE", "WEAK", "CONTRADICT", "MISSING"}

LEMMA LadderAgreement ==
  ASSUME NEW f \in Field, NEW c \in DOMAIN Ladder[f]
  PROVE  Ladder[f][c].agreement \in Agreement
  <1>1. CASE f = "reference"
    BY <1>1 DEF Ladder, Rung, Field, Agreement
  <1>2. CASE f = "amount"
    BY <1>2 DEF Ladder, Rung, Field, Agreement
  <1>3. CASE f = "timestamp"
    BY <1>3 DEF Ladder, Rung, Field, Agreement
  <1>4. CASE f = "sender_name"
    BY <1>4 DEF Ladder, Rung, Field, Agreement
  <1>5. QED
    BY <1>1, <1>2, <1>3, <1>4 DEF Field

\* The outcome column holds each direction as another word, and back.
LEMMA OutcomeRoundTrip ==
  ASSUME NEW a \in Agreement
  PROVE  AgreementOf[OutcomeOf[a]] = a
  BY DEF Agreement, AgreementOf, OutcomeOf

\* Of a decision the row keeps everything but the reasons after the first and
\* the earlier order.
LEMMA StoredIs ==
  ASSUME TypeOK, Told
  PROVE  LET s == StoredDecision(Stored(Decision))
         IN /\ s.status = Decision.status /\ s.risk = Decision.risk
            /\ s.txn = Decision.txn
            /\ s.reasons = {LeadReason(FirstMatch)} \ {None}
            /\ DOMAIN s.evidence = DOMAIN Decision.evidence
            /\ \A f \in DOMAIN Decision.evidence :
                 /\ s.evidence[f].level = Decision.evidence[f].level
                 /\ s.evidence[f].agreement = Decision.evidence[f].agreement
  <1> DEFINE d == Decision
             row == Stored(d)
             s == StoredDecision(row)
  <1>1. /\ s.status = d.status /\ s.risk = d.risk /\ s.txn = d.txn
        /\ s.reasons = {d.lead} \ {None}
    BY DEF StoredDecision, Stored
  <1>2. /\ DOMAIN row.evidence = DOMAIN d.evidence
        /\ \A f \in DOMAIN d.evidence :
             /\ row.evidence[f].code = d.evidence[f].level
             /\ row.evidence[f].outcome = OutcomeOf[d.evidence[f].agreement]
    BY DEF Stored
  <1>3. /\ DOMAIN s.evidence = DOMAIN row.evidence
        /\ \A f \in DOMAIN row.evidence :
             /\ s.evidence[f].level = row.evidence[f].code
             /\ s.evidence[f].agreement = AgreementOf[row.evidence[f].outcome]
    BY DEF StoredDecision
  <1>4. \A f \in DOMAIN d.evidence : d.evidence[f].agreement \in Agreement
    <2>1. ASSUME NEW f \in DOMAIN d.evidence
          PROVE  d.evidence[f].agreement \in Agreement
      <3>1. /\ Candidates # {} /\ f \in Field
            /\ d.evidence[f].agreement = Outcome(Best.txn, f).agreement
        BY <2>1, DecisionIs, EvidenceIs
      <3>2. Level(Best.txn, f) \in DOMAIN Ladder[f]
        BY <3>1, BestRow, LevelType
      <3>3. QED
        BY <3>1, <3>2, LadderAgreement DEF Outcome
    <2>2. QED
      BY <2>1
  <1>5. \A f \in DOMAIN d.evidence :
          /\ s.evidence[f].level = d.evidence[f].level
          /\ s.evidence[f].agreement = d.evidence[f].agreement
    <2> HIDE DEF d, row, s
    <2> QED
      BY <1>2, <1>3, <1>4, OutcomeRoundTrip
  <1>6. d.lead = LeadReason(FirstMatch)
    BY DecisionIs
  <1>7. QED
    BY <1>1, <1>2, <1>3, <1>5, <1>6

\* Rows, and the amount that is told, read the evidence field by field.
LEMMA SameRows ==
  ASSUME NEW d, NEW s, s.status = d.status, s.risk = d.risk, s.txn = d.txn,
         DOMAIN s.evidence = DOMAIN d.evidence,
         \A f \in DOMAIN d.evidence :
           /\ s.evidence[f].level = d.evidence[f].level
           /\ s.evidence[f].agreement = d.evidence[f].agreement
  PROVE  /\ Response(s).status = Response(d).status
         /\ Response(s).risk = Response(d).risk
         /\ Response(s).txn = Response(d).txn
         /\ Response(s).rows = Response(d).rows
         /\ Received(s) = Received(d)
         /\ (Summary(s) = Summary(d) /\ Action(s) = Action(d)) => Response(s) = Response(d)
  <1>1. \A f \in DOMAIN d.evidence : FieldRow(s, f) = FieldRow(d, f)
    BY DEF FieldRow
  <1>2. [f \in DOMAIN s.evidence |-> FieldRow(s, f)] = [f \in DOMAIN d.evidence |-> FieldRow(d, f)]
    BY <1>1
  <1>3. Received(s) = Received(d)
    BY DEF Received
  <1>4. QED
    BY <1>2, <1>3 DEF Response

LEMMA SameVerified ==
  ASSUME NEW d, NEW s, d.status = "VERIFIED", s.status = "VERIFIED", s.txn = d.txn,
         Received(s) = Received(d),
         "AMOUNT_OVERPAID" \in s.reasons <=> "AMOUNT_OVERPAID" \in d.reasons
  PROVE  Summary(s) = Summary(d) /\ Action(s) = Action(d)
  <1>1. VerifiedSummary(s) = VerifiedSummary(d)
    BY DEF VerifiedSummary, SayIf
  <1>2. QED
    BY <1>1 DEF Summary, Action

LEMMA SameUnmatched ==
  ASSUME NEW d, NEW s, d.status = "UNMATCHED", s.status = "UNMATCHED",
         "NO_CANDIDATES" \in s.reasons <=> "NO_CANDIDATES" \in d.reasons
  PROVE  Summary(s) = Summary(d) /\ Action(s) = Action(d)
  BY DEF Summary, UnmatchedSummary, Action

\* The one reason that is kept is the one these two summaries look for.
LEMMA LeadTellsOverpayment ==
  ASSUME TypeOK, Told, StatusOf(FirstMatch) = "VERIFIED"
  PROVE  "AMOUNT_OVERPAID" \in {LeadReason(FirstMatch)} \ {None} <=>
           "AMOUNT_OVERPAID" \in ReasonsFor(FirstMatch)
  <1>1. FirstMatch \in {80, 90} /\ FirstMatch \in RuleId
    BY ToldIs DEF StatusOf, RuleId
  <1>2. ~Contradicted /\ Acceptable
    BY Verifying
  <1>3. LeadReason(FirstMatch) = RuleLead(FirstMatch) /\ None \notin Reason
        /\ RuleLead(FirstMatch) = IF FirstMatch = 80 THEN "AMOUNT_OVERPAID"
                                   ELSE "STRONG_FIELD_AGREEMENT"
    BY <1>1, <1>2, ReasonAssumption DEF LeadReason, RuleLead, Reason
  <1>4. FirstMatch = 80 <=> Overpaid
    <2>1. FirstMatch = 80 => Overpaid
      BY ToldIs DEF When
    <2>2. FirstMatch = 90 => ~When(80)
      BY ToldIs DEF RuleId
    <2>3. FirstMatch = 90 => ~Overpaid
      BY <1>2, <2>2 DEF When
    <2>4. QED
      BY <1>1, <2>1, <2>3
  <1>5. "AMOUNT_OVERPAID" \in ReasonsFor(FirstMatch) <=> Overpaid
    BY ReasonsAre
  <1>6. QED
    BY <1>1, <1>3, <1>4, <1>5 DEF Reason

LEMMA LeadTellsNothingFound ==
  ASSUME TypeOK, Told, StatusOf(FirstMatch) = "UNMATCHED"
  PROVE  "NO_CANDIDATES" \in {LeadReason(FirstMatch)} \ {None} <=>
           "NO_CANDIDATES" \in ReasonsFor(FirstMatch)
  <1>1. FirstMatch \in {10, 60} /\ FirstMatch \in RuleId
    BY ToldIs DEF StatusOf, RuleId
  <1>2. FirstMatch = 10 => ~Contradicted
    BY ToldIs DEF When, Contradicted
  <1>3. None \notin Reason /\ "NO_CANDIDATES" \in Reason
    BY ReasonAssumption DEF Reason
  <1>4. FirstMatch = 10 => LeadReason(FirstMatch) = "NO_CANDIDATES"
    BY <1>2, <1>3 DEF LeadReason, RuleLead
  <1>5. FirstMatch = 60 => LeadReason(FirstMatch) \in {"FIELD_CONTRADICTS_MATCH", "NAME_MISMATCH"}
    BY ReasonAssumption DEF LeadReason, RuleLead, Reason
  <1>6. "NO_CANDIDATES" \in ReasonsFor(FirstMatch) <=> FirstMatch = 10
    BY ReasonsAre
  <1>7. QED
    BY <1>1, <1>3, <1>4, <1>5, <1>6

LEMMA StoredReadsTheSame ==
  ASSUME TypeOK, Told
  PROVE  LET then == Response(Decision)
             now  == Reread(Decision)
         IN /\ answer.status \in {"VERIFIED", "UNMATCHED"} => now = then
            /\ now.status = then.status /\ now.risk = then.risk
            /\ now.txn = then.txn /\ now.rows = then.rows
  <1> DEFINE d == Decision
             s == StoredDecision(Stored(d))
             kept == {LeadReason(FirstMatch)} \ {None}
  <1>1. /\ s.status = d.status /\ s.risk = d.risk /\ s.txn = d.txn /\ s.reasons = kept
        /\ DOMAIN s.evidence = DOMAIN d.evidence
        /\ \A f \in DOMAIN d.evidence :
             /\ s.evidence[f].level = d.evidence[f].level
             /\ s.evidence[f].agreement = d.evidence[f].agreement
    BY StoredIs
  <1>2. /\ d.status = StatusOf(FirstMatch) /\ d.status = answer.status
        /\ d.reasons = ReasonsFor(FirstMatch)
    BY DecisionIs, ToldIs
  <1>3. Reread(d) = Response(s)
    BY DEF Reread
  <1>4. d.status = "VERIFIED" =>
          ("AMOUNT_OVERPAID" \in s.reasons <=> "AMOUNT_OVERPAID" \in d.reasons)
    BY <1>1, <1>2, LeadTellsOverpayment
  <1>5. d.status = "UNMATCHED" =>
          ("NO_CANDIDATES" \in s.reasons <=> "NO_CANDIDATES" \in d.reasons)
    BY <1>1, <1>2, LeadTellsNothingFound
  <1> HIDE DEF d, s, kept
  <1>6. /\ Response(s).status = Response(d).status
        /\ Response(s).risk = Response(d).risk
        /\ Response(s).txn = Response(d).txn
        /\ Response(s).rows = Response(d).rows
        /\ Received(s) = Received(d)
        /\ (Summary(s) = Summary(d) /\ Action(s) = Action(d)) => Response(s) = Response(d)
    BY <1>1, SameRows
  <1>7. d.status = "VERIFIED" => Response(s) = Response(d)
    BY <1>1, <1>4, <1>6, SameVerified
  <1>8. d.status = "UNMATCHED" => Response(s) = Response(d)
    BY <1>1, <1>5, <1>6, SameUnmatched
  <1>9. QED
    BY <1>2, <1>3, <1>6, <1>7, <1>8 DEF d

\* A verdict that releases goods or finds no payment has the same summary, action
\* and marks when it is fetched again, and no verdict loses its status, risk,
\* transaction or marks, though one reason of several is kept
\* (verification_service.py 351-442).
THEOREM StoredVerdictsReadTheSame == Spec => []StoredVerdictReadsTheSame
  <1>1. TypeOK /\ AnswerIsCurrent => StoredVerdictReadsTheSame
    BY StoredReadsTheSame DEF StoredVerdictReadsTheSame, AnswerIsCurrent, Told
  <1>2. QED
    BY <1>1, CurrentInvariant, PTL
=============================================================================
