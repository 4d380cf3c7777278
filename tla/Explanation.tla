----------------------------- MODULE Explanation -----------------------------
(***************************************************************************)
(* What the merchant is told of a decision: the reasons and notes decide() *)
(* puts on it (engine.py), the summary, marks and action of explain.py,    *)
(* the response built from them (verification_mapper.py), and the reading  *)
(* of the same attempt back from the database (verification_service.py).   *)
(*                                                                         *)
(* A sentence is a tuple of what it says and the amounts, fields or orders *)
(* it names; None is a clause the code drops.  Headlines, labels, dates,   *)
(* confidence and the neutral notes other than the earlier order are left  *)
(* out, and of a row its place in the list and the text of its two sides.  *)
(* Of the order of the reasons only the first is ever read.                *)
(***************************************************************************)
EXTENDS DecisionEngine

-----------------------------------------------------------------------------
(***************************************************************************)
(* The reasons.                                                            *)
(***************************************************************************)
\* The reason codes that a rule or the amount evidence can put on a decision.
Reason ==
    {"NO_CANDIDATES", "TXN_ALREADY_ALLOCATED", "PROOF_REUSED", "CLAIM_INFLATED",
     "TAMPER_OBSERVATIONS", "AMBIGUOUS_CANDIDATES", "NAME_MISMATCH",
     "SOURCE_PARTIALLY_TRUSTED", "LOW_EXTRACTION_CONFIDENCE", "AMOUNT_UNDERPAID",
     "AMOUNT_OVERPAID_MATERIAL", "FIELD_CONTRADICTS_MATCH", "AMOUNT_OVERPAID",
     "STRONG_FIELD_AGREEMENT", "MISSING_ORDER_AMOUNT", "AMOUNT_EXACT",
     "CLAIM_CONSISTENT", "CLAIM_DEFLATED"}

ASSUME ReasonAssumption == None \notin Reason

RiskOf(r) ==
    CASE r \in {20, 25, 30, 40} -> "HIGH"
      [] r \in {80, 90}         -> "LOW"
      [] OTHER                  -> "MEDIUM"

\* The first reason a rule carries; the total ELSE carries none.
RuleLead(r) ==
    CASE r = 10 -> "NO_CANDIDATES"
      [] r = 20 -> "TXN_ALREADY_ALLOCATED"
      [] r = 25 -> "PROOF_REUSED"
      [] r = 30 -> "CLAIM_INFLATED"
      [] r = 40 -> "TAMPER_OBSERVATIONS"
      [] r = 50 -> "AMBIGUOUS_CANDIDATES"
      [] r = 60 -> "NAME_MISMATCH"
      [] r = 65 -> "SOURCE_PARTIALLY_TRUSTED"
      [] r = 67 -> "LOW_EXTRACTION_CONFIDENCE"
      [] r = 70 -> "AMOUNT_UNDERPAID"
      [] r = 72 -> "AMOUNT_OVERPAID_MATERIAL"
      [] r = 75 -> "FIELD_CONTRADICTS_MATCH"
      [] r = 80 -> "AMOUNT_OVERPAID"
      [] r = 90 -> "STRONG_FIELD_AGREEMENT"
      [] OTHER  -> None

RuleReasons(r) ==
    ({RuleLead(r)} \ {None}) \cup (IF r = 80 THEN {"STRONG_FIELD_AGREEMENT"} ELSE {})

\* AmountEvidence.reason_codes, the commercial axis first.
RelationReason ==
    LET received == ledger[Best.txn].amount
        relation == IF expected = None THEN "UNKNOWN" ELSE Relation(expected, received)
    IN CASE relation = "UNKNOWN" -> "MISSING_ORDER_AMOUNT"
         [] relation = "EXACT"   -> "AMOUNT_EXACT"
         [] relation = "UNDER"   -> "AMOUNT_UNDERPAID"
         [] relation = "OVER"    -> "AMOUNT_OVERPAID"

\* _integrity; an unreadable amount asserts nothing.
IntegrityReason ==
    CASE receipt.amount = None                    -> None
      [] receipt.amount = ledger[Best.txn].amount -> "CLAIM_CONSISTENT"
      [] OTHER -> IF receipt.amount > ledger[Best.txn].amount
                  THEN "CLAIM_INFLATED" ELSE "CLAIM_DEFLATED"

\* Mutant: only R072 tells that an overpayment is a large one.
AmountReasonsNoMagnitude ==
    IF AmountCompared THEN {RelationReason, IntegrityReason} \ {None} ELSE {}

\* Only amounts that were compared give reasons.
AmountReasons ==
    IF AmountCompared
    THEN ({RelationReason, IntegrityReason} \ {None})
           \cup (IF MateriallyOverpaid THEN {"AMOUNT_OVERPAID_MATERIAL"} ELSE {})
    ELSE {}

\* _reasons_for: a contradiction goes in front of the rule's own reasons, the
\* arithmetic behind them.
ReasonsFor(r) ==
    (IF Contradicted THEN {"FIELD_CONTRADICTS_MATCH"} ELSE {})
        \cup RuleReasons(r) \cup AmountReasons

\* Mutant: it is the rule's last reason that is stored.
LeadReasonLast(r) == IF r = 80 THEN "STRONG_FIELD_AGREEMENT" ELSE RuleLead(r)

LeadReason(r) ==
    IF Contradicted THEN "FIELD_CONTRADICTS_MATCH"
    ELSE IF RuleLead(r) # None THEN RuleLead(r)
    ELSE IF AmountCompared THEN RelationReason ELSE None

\* Context.evidence: the winner's outcomes, or nothing.
Evidence ==
    IF Candidates = {} THEN <<>>
    ELSE [f \in Field |-> [level |-> Level(Best.txn, f),
                           agreement |-> Outcome(Best.txn, f).agreement]]

\* ProofReport.observations: the order the picture was accepted for, whichever
\* rule fired.
EarlierOrder == IF ProofReused THEN holder ELSE None

\* The Decision that decide() returned with this answer.
Decision ==
    [status |-> answer.status, risk |-> RiskOf(answer.rule), txn |-> answer.txn,
     lead |-> LeadReason(answer.rule), reasons |-> ReasonsFor(answer.rule),
     evidence |-> Evidence, earlier |-> EarlierOrder]

-----------------------------------------------------------------------------
(***************************************************************************)
(* explain(decision): the summary, the rows and the action.                *)
(***************************************************************************)
\* _received_amount: the named row's, or the claimed one where the evidence says
\* that they are equal.
Received(d) ==
    IF d.txn # None THEN ledger[d.txn].amount
    ELSE IF "amount" \in DOMAIN d.evidence /\ d.evidence["amount"].level = "AMT_EXACT"
    THEN receipt.amount ELSE None

\* _contradiction_sentence names every field that contradicts.
Contradicting(d) == {f \in DOMAIN d.evidence : d.evidence[f].agreement = "CONTRADICT"}

\* What _shortfall_sentence and _overpayment_sentence name: both amounts, or the
\* order's alone, or none.
Priced(d) == IF expected = None THEN <<None, None>> ELSE <<Received(d), expected>>

\* A sentence that is said on a condition.
SayIf(condition, sentence) == IF condition THEN {sentence} ELSE {}

VerifiedSummary(d) ==
    LET lines ==
          SayIf(Received(d) # None, <<"received", Received(d)>>)
            \cup SayIf(d.txn # None, <<"matches", d.txn>>)
            \cup SayIf("AMOUNT_OVERPAID" \in d.reasons /\ Received(d) # None /\ expected # None,
                       <<"more than the total", expected>>)
    IN IF lines = {} THEN {<<"matches some transaction">>} ELSE lines

UnmatchedSummary(d) ==
    IF "NO_CANDIDATES" \in d.reasons THEN {<<"none found">>} ELSE {<<"none close enough">>}

SuspiciousSummary(d) ==
    IF "CLAIM_INFLATED" \in d.reasons /\ Received(d) # None /\ receipt.amount # None
    THEN {<<"claims more", receipt.amount, Received(d)>>}
    ELSE IF "TAMPER_OBSERVATIONS" \in d.reasons
    THEN {<<"looks edited">>} ELSE {<<"details conflict">>}

DuplicateSummary(d) ==
    IF "PROOF_REUSED" \in d.reasons
    THEN {<<"screenshot used", d.earlier>>} ELSE {<<"transaction used">>}

ReviewSummary(d) ==
    LET parts ==
          SayIf("FIELD_CONTRADICTS_MATCH" \in d.reasons, <<"contradiction", Contradicting(d)>>)
            \cup SayIf("AMOUNT_OVERPAID_MATERIAL" \in d.reasons, <<"overpaid", Priced(d)>>)
            \cup SayIf("AMOUNT_UNDERPAID" \in d.reasons, <<"underpaid", Priced(d)>>)
            \cup SayIf("SOURCE_PARTIALLY_TRUSTED" \in d.reasons, <<"imported">>)
            \cup SayIf("LOW_EXTRACTION_CONFIDENCE" \in d.reasons, <<"read badly">>)
    IN IF "AMBIGUOUS_CANDIDATES" \in d.reasons THEN {<<"several match">>}
       ELSE IF parts # {} THEN parts ELSE {<<"not enough evidence">>}

Summary(d) ==
    CASE d.status = "VERIFIED"     -> VerifiedSummary(d)
      [] d.status = "UNMATCHED"    -> UnmatchedSummary(d)
      [] d.status = "SUSPICIOUS"   -> SuspiciousSummary(d)
      [] d.status = "DUPLICATE"    -> DuplicateSummary(d)
      [] d.status = "NEEDS_REVIEW" -> ReviewSummary(d)

\* _action_for: one action per status, and one for a reused screenshot.
Action(d) ==
    IF d.status = "DUPLICATE" /\ "PROOF_REUSED" \in d.reasons
    THEN "ask for a fresh receipt" ELSE d.status

Mark == [AGREE |-> "tick", WEAK |-> "caution", CONTRADICT |-> "cross", MISSING |-> "unknown"]

\* A row: whether the receipt shows the field, whose record stands beside it,
\* and the mark.
FieldRow(d, f) ==
    [claimed  |-> IF f = "amount" THEN receipt.amount # None ELSE f \in receipt.read,
     recorded |-> d.txn,
     mark     |-> Mark[d.evidence[f].agreement]]

\* verification_result_from_decision, without the machine codes.
Response(d) ==
    [status |-> d.status, risk |-> d.risk, txn |-> d.txn,
     summary |-> Summary(d), action |-> Action(d),
     rows |-> [f \in DOMAIN d.evidence |-> FieldRow(d, f)]]

-----------------------------------------------------------------------------
(***************************************************************************)
(* The attempt as it is stored, and GET /verifications/{id}.               *)
(***************************************************************************)
\* _evidence_outcome, and the way back in _stored_decision.
OutcomeOf == [AGREE |-> "PASS", CONTRADICT |-> "FAIL", WEAK |-> "WARNING", MISSING |-> "UNKNOWN"]
AgreementOf == [PASS |-> "AGREE", FAIL |-> "CONTRADICT", WARNING |-> "WEAK", UNKNOWN |-> "MISSING"]

\* What _submit_persisted writes: the first reason only, and no notes.
Stored(d) ==
    [decision_status |-> d.status, risk_level |-> d.risk, selected |-> d.txn,
     summary_reason_code |-> d.lead,
     evidence |-> [f \in DOMAIN d.evidence |->
                     [code |-> d.evidence[f].level,
                      outcome |-> OutcomeOf[d.evidence[f].agreement]]]]

\* _stored_decision.
StoredDecision(row) ==
    [status |-> row.decision_status, risk |-> row.risk_level, txn |-> row.selected,
     lead |-> row.summary_reason_code, reasons |-> {row.summary_reason_code} \ {None},
     evidence |-> [f \in DOMAIN row.evidence |->
                     [level |-> row.evidence[f].code,
                      agreement |-> AgreementOf[row.evidence[f].outcome]]],
     earlier |-> None]

\* _stored_result, with the claim, the order and the transactions as stored,
\* which nothing changes.
Reread(d) == Response(StoredDecision(Stored(d)))

-----------------------------------------------------------------------------
(***************************************************************************)
(* Properties.                                                             *)
(***************************************************************************)
Kinds(d) == {s[1] : s \in Summary(d)}

\* A review names every contradiction and every difference in money, whichever
\* rule sent it there, and only where nothing is acceptable does it say that the
\* evidence is not enough (explain.py 554-598).  If several candidates cannot be
\* told apart it says that alone.
ReviewSaysWhy(d) ==
    d.status = "NEEDS_REVIEW" =>
      IF Ambiguous THEN Kinds(d) = {"several match"}
      ELSE /\ "contradiction" \in Kinds(d) <=> Contradicted
           /\ "underpaid" \in Kinds(d) <=>
                (expected # None /\ ledger[Best.txn].amount < expected)
           /\ "overpaid" \in Kinds(d) <=> MateriallyOverpaid
           /\ "imported" \in Kinds(d) => PartiallyTrusted
           /\ "read badly" \in Kinds(d) => receipt.doubted # {}
           /\ "not enough evidence" \in Kinds(d) => ~Acceptable

\* An accusation says what was found and nothing else (explain.py 534-553).
AccusationSaysWhich(d) ==
    /\ d.status = "DUPLICATE" =>
         \/ Summary(d) = {<<"transaction used">>} /\ AllocatedElsewhere
         \/ Summary(d) = {<<"screenshot used", holder>>} /\ holder \notin {None, ThisOrder}
    /\ d.status = "SUSPICIOUS" =>
         \/ "claims more" \in Kinds(d) /\ receipt.amount > ledger[Best.txn].amount
         \/ "claims more" \notin Kinds(d) /\ (Inflated => d.txn = None)

\* An amount that is told as received was received (explain.py 379-402).
MoneyIsReal(d) ==
    Received(d) # None => Candidates # {} /\ Received(d) = ledger[Best.txn].amount

\* A summary tells what the engine found: all of it that concerns the merchant,
\* nothing that is not so, and real amounts.  Sentences are chosen by reasons, and
\* a reason that only its own rule carries is lost when a rule above it fires.
SummaryTellsTheFindings ==
    (answer # None /\ answer.status # "RAISED") =>
        ReviewSaysWhy(Decision) /\ AccusationSaysWhich(Decision) /\ MoneyIsReal(Decision)

\* Read back from the database, which keeps only the first reason, a verdict that
\* releases the goods or finds no payment has the summary, action and marks it was
\* given with, and every other one keeps its status, risk, transaction and marks.
StoredVerdictReadsTheSame ==
    (answer # None /\ answer.status # "RAISED") =>
        \A d \in {Decision} :  \* bound, so that TLC evaluates it once
            LET then == Response(d)
                now  == Reread(d)
            IN /\ answer.status \in {"VERIFIED", "UNMATCHED"} => now = then
               /\ now.status = then.status /\ now.risk = then.risk
               /\ now.txn = then.txn /\ now.rows = then.rows
=============================================================================
