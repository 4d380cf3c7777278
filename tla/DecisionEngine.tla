--------------------------- MODULE DecisionEngine ---------------------------
(***************************************************************************)
(* decide() of core/decide/engine.py: retrieval's cap, scoring, ranking,   *)
(* the evidence the rules read, the rule table of rules_v1.py, the naming  *)
(* of a transaction and the post-condition, under any DecisionPolicy its   *)
(* constructor accepts.                                                    *)
(*                                                                         *)
(* One customer shows one receipt for one order, again and again.  In      *)
(* between, approvals spend payments and the customer may crop a field off *)
(* the receipt.  Scores are exact millionths; field scores, weights and    *)
(* percentages are whole numbers.                                          *)
(***************************************************************************)
EXTENDS Amounts, Sequences

CONSTANTS
    Txn,            \* transaction ids, numbers because ids break ties
    Order,          \* orders
    ThisOrder,      \* the order the receipt is shown for
    Policies,       \* policies someone tries to construct
    Totals,         \* what the order may ask for, None for an ad-hoc payment
    Receipts,       \* receipts as they may be read
    Entries,        \* what the ledger may say, seen next to the receipt
    Feeds,          \* candidate transactions in the order retrieval finds them
    Croppable,      \* the fields the customer may crop off
    None            \* the absent value

VARIABLES
    policy, expected, receipt, ledger, feed,
    spent,          \* active allocations, <<transaction, order>>
    holder,         \* the order the receipt's bytes were accepted for
    answer          \* the decision on the present state, if it was asked for

vars == <<policy, expected, receipt, ledger, feed, spent, holder, answer>>
inputs == <<policy, expected, receipt, ledger, feed, spent, holder>>

-----------------------------------------------------------------------------
(***************************************************************************)
(* The ladders: a rung's score in percent and which way it points.         *)
(***************************************************************************)
Field == {"reference", "amount", "timestamp", "sender_name"}

Rung(score, agreement) == [score |-> score, agreement |-> agreement]

Ladder ==
    [reference |->
       [REF_EXACT |-> Rung(100, "AGREE"), REF_CONFUSABLE |-> Rung(90, "AGREE"),
        REF_SUFFIX |-> Rung(75, "AGREE"), REF_PARTIAL |-> Rung(55, "WEAK"),
        REF_MISSING |-> Rung(0, "MISSING"), REF_ELSE |-> Rung(0, "CONTRADICT")],
     amount |->
       [AMT_EXACT |-> Rung(100, "AGREE"), AMT_TOLERANCE |-> Rung(90, "AGREE"),
        AMT_SCALED |-> Rung(35, "CONTRADICT"), AMT_MISSING |-> Rung(0, "MISSING"),
        AMT_ELSE |-> Rung(0, "CONTRADICT")],
     timestamp |->
       [TS_TIGHT |-> Rung(100, "AGREE"), TS_CLOSE |-> Rung(85, "AGREE"),
        TS_DATE_ONLY |-> Rung(60, "WEAK"), TS_LOOSE |-> Rung(50, "WEAK"),
        TS_HOUR_ART |-> Rung(25, "WEAK"), TS_MISSING |-> Rung(0, "MISSING"),
        TS_ELSE |-> Rung(0, "CONTRADICT")],
     sender_name |->
       [NAME_EXACT |-> Rung(100, "AGREE"), NAME_STRONG |-> Rung(90, "AGREE"),
        NAME_MASK_OK |-> Rung(85, "AGREE"), NAME_INITIALS |-> Rung(80, "AGREE"),
        NAME_PARTIAL |-> Rung(55, "WEAK"), NAME_COMMON_ONLY |-> Rung(20, "WEAK"),
        NAME_MISSING |-> Rung(0, "MISSING"), NAME_ELSE |-> Rung(0, "CONTRADICT")]]

Missing == [reference |-> "REF_MISSING", amount |-> "AMT_MISSING",
            timestamp |-> "TS_MISSING", sender_name |-> "NAME_MISSING"]

\* The fields whose rung is given; the amount's is computed.
Printed == Field \ {"amount"}

-----------------------------------------------------------------------------
(***************************************************************************)
(* Values.                                                                 *)
(***************************************************************************)
One == 1000000      \* a score of 1.0

Policy ==
    [accept : Nat, reject : Nat, margin : Nat, ambiguous : Nat,
     penalty : Nat, weight : [Field -> Nat],
     tolerance : Nat, inflation : Nat, inflationPct : Nat,
     overpayment : Nat, overpaymentPct : Nat, tamperLimit : Nat,
     maxCandidates : Nat]

\* Mutant: the ambiguity floor may be above the acceptance bar.
ConstructibleAnyFloor(p) ==
    /\ p \in Policy
    /\ p.maxCandidates >= 1
    /\ p.accept >= p.reject

\* DecisionPolicy.__post_init__, as far as the fields above go.
Constructible(p) ==
    /\ p \in Policy
    /\ p.maxCandidates >= 1
    /\ {p.accept, p.reject, p.margin, p.ambiguous} \subseteq 0..One
    /\ p.penalty \in 0..100 /\ p.inflationPct \in 0..100
    /\ p.accept >= p.reject
    /\ p.ambiguous <= p.accept

\* A transaction: its amount, how far its source is trusted, and how its other
\* fields compare with the receipt where the receipt shows them.
Entry == [amount : Nat, source : {"trusted", "partial", "screenshot"},
          level : {l \in [Printed -> UNION {DOMAIN Ladder[f] : f \in Printed}] :
                     \A f \in Printed : l[f] \in DOMAIN Ladder[f]}]

\* A receipt: the amount or None, the other fields that can be read, the fields
\* the reader reported low confidence in, the image observations.
Receipt == [amount : Nat \cup {None}, read : SUBSET Printed,
            doubted : SUBSET Field, tamper : Nat]

ASSUME EngineAssumption ==
    /\ Txn \subseteq Nat /\ ThisOrder \in Order
    /\ Policies \subseteq Policy
    /\ Totals \subseteq Nat \cup {None}
    /\ Receipts \subseteq Receipt
    /\ Entries \subseteq Entry
    /\ Feeds \subseteq Seq(Txn)
    /\ Croppable \subseteq Field
    /\ None \notin Nat /\ None \notin Order

-----------------------------------------------------------------------------
(***************************************************************************)
(* Retrieve, score, rank.                                                  *)
(***************************************************************************)
\* retrieve(): the first max_candidates of what the blocking keys find.
Found == {feed[i] : i \in DOMAIN feed}
Candidates == {feed[i] : i \in {j \in DOMAIN feed : j <= policy.maxCandidates}}

Truncated == Len(feed) > policy.maxCandidates

Level(t, f) ==
    IF f = "amount"
    THEN IF receipt.amount = None THEN "AMT_MISSING"
         ELSE AmountLevel(receipt.amount, ledger[t].amount, policy)
    ELSE IF f \in receipt.read THEN ledger[t].level[f] ELSE Missing[f]

Outcome(t, f) == Ladder[f][Level(t, f)]

Sum(v) == v["reference"] + v["amount"] + v["timestamp"] + v["sender_name"]

\* Mutant: an unreadable field costs nothing.
WeightWithoutPenalty(t, f) ==
    IF Outcome(t, f).agreement = "MISSING" THEN 0 ELSE 100 * policy.weight[f]

\* What a field contributes to the denominator, in hundredths.
Weight(t, f) ==
    policy.weight[f] * (IF Outcome(t, f).agreement = "MISSING" THEN policy.penalty ELSE 100)

\* round(a / b), halves up.
Rounded(a, b) == (a \div b) + (IF 2 * (a % b) >= b THEN 1 ELSE 0)

\* aggregate_score.
Score(t) ==
    LET total == Sum([f \in Field |-> Weight(t, f)])
        points == Sum([f \in Field |->
                         IF Outcome(t, f).agreement = "MISSING" THEN 0
                         ELSE policy.weight[f] * Outcome(t, f).score])
    IN IF total <= 0 THEN 0 ELSE Rounded(points * One, total)

ScoreCandidate(t) == [txn |-> t, score |-> Score(t)]
Scored == {ScoreCandidate(t) : t \in Candidates}

\* ScoredCandidate.sort_key: the higher score, then the lesser id.
Ahead(c, d) == c.score > d.score \/ (c.score = d.score /\ c.txn < d.txn)

First(c, among) == \A d \in among \ {c} : Ahead(c, d)

\* CandidateRanking.best.
Best ==
    IF Candidates = {} THEN None
    ELSE LET scored == Scored IN CHOOSE c \in scored : First(c, scored)

BestScore == IF Candidates = {} THEN 0 ELSE Best.score

\* Mutant: some exact transaction id is enough, whoever carries it.
DominantAnywhere == \E t \in Candidates : Level(t, "reference") = "REF_EXACT"

\* is_dominant: the winner, and nobody else, carries the exact id.
Dominant ==
    Candidates # {} /\ {t \in Candidates : Level(t, "reference") = "REF_EXACT"} = {Best.txn}

\* Context.indistinguishable: some rival is within the margin.
Indistinguishable ==
    /\ \E c \in Scored \ {Best} : BestScore - c.score < policy.margin
    /\ ~Dominant

-----------------------------------------------------------------------------
(***************************************************************************)
(* The evidence the rules read.                                            *)
(***************************************************************************)
Ambiguous == Indistinguishable /\ BestScore >= policy.ambiguous

\* build_context compares amounts only with a credible winner.
AmountCompared == Candidates # {} /\ BestScore >= policy.reject

Inflated ==
    AmountCompared /\ receipt.amount # None /\
    MaterialInflation(receipt.amount, ledger[Best.txn].amount, policy)

Underpaid ==
    /\ AmountCompared /\ expected # None
    /\ Relation(expected, ledger[Best.txn].amount) = "UNDER"
    /\ ~WithinTolerance(expected, ledger[Best.txn].amount, policy)

Overpaid ==
    AmountCompared /\ expected # None /\ Relation(expected, ledger[Best.txn].amount) = "OVER"

MateriallyOverpaid ==
    Overpaid /\ MaterialOverpayment(expected, ledger[Best.txn].amount, policy)

\* Mutant: an allocation to the same order is a conflict.
AllocatedAtAll == Candidates # {} /\ \E o \in Order : <<Best.txn, o>> \in spent

\* check_candidate on the winner.
AllocatedElsewhere == Candidates # {} /\ \E o \in Order \ {ThisOrder} : <<Best.txn, o>> \in spent

\* check_proof.
ProofReused == holder # None /\ holder # ThisOrder

Contradicted == Candidates # {} /\ \E f \in Field : Outcome(Best.txn, f).agreement = "CONTRADICT"

PartiallyTrusted == Candidates # {} /\ ledger[Best.txn].source = "partial"

Acceptable == BestScore >= policy.accept

-----------------------------------------------------------------------------
(***************************************************************************)
(* The rule table.  The first rule that matches decides; a rule's position *)
(* is its number, which _validate insists on.                              *)
(***************************************************************************)
RuleId == {10, 20, 25, 30, 40, 50, 60, 65, 67, 70, 72, 75, 80, 90, 999}

When(r) ==
    CASE r = 10  -> Candidates = {}
      [] r = 20  -> AllocatedElsewhere
      [] r = 25  -> ProofReused
      [] r = 30  -> Inflated
      [] r = 40  -> receipt.tamper > policy.tamperLimit /\ ~Acceptable
      [] r = 50  -> Ambiguous
      [] r = 60  -> BestScore < policy.reject
      [] r = 65  -> Acceptable /\ PartiallyTrusted
      [] r = 67  -> Acceptable /\ receipt.doubted # {}
      [] r = 70  -> Acceptable /\ Underpaid
      [] r = 72  -> Acceptable /\ MateriallyOverpaid
      [] r = 75  -> Contradicted
      [] r = 80  -> Acceptable /\ Overpaid
      [] r = 90  -> Acceptable
      [] r = 999 -> TRUE

StatusOf(r) ==
    CASE r \in {10, 60} -> "UNMATCHED"
      [] r \in {20, 25} -> "DUPLICATE"
      [] r \in {30, 40} -> "SUSPICIOUS"
      [] r \in {80, 90} -> "VERIFIED"
      [] OTHER          -> "NEEDS_REVIEW"

FirstMatch == CHOOSE r \in RuleId : When(r) /\ \A s \in RuleId : s < r => ~When(s)

\* Mutant: nobody is named as transaction zero.
MatchedTxnOrZero(r) ==
    IF StatusOf(r) = "UNMATCHED" \/ Indistinguishable \/ r = 25 THEN 0 ELSE Best.txn

\* Mutant: suppression is keyed off R050 having fired.
MatchedTxnUnlessR050(r) ==
    IF StatusOf(r) = "UNMATCHED" \/ r = 50 \/ r = 25 THEN None ELSE Best.txn

\* _matched_txn_id; R025 is the rule that does not read the ranking.
MatchedTxn(r) ==
    IF StatusOf(r) = "UNMATCHED" \/ Indistinguishable \/ r = 25 THEN None ELSE Best.txn

\* _enforce_invariants raises instead of returning.
Raises(r) ==
    /\ StatusOf(r) = "VERIFIED"
    /\ \/ Candidates = {}
       \/ ledger[Best.txn].source # "trusted"
       \/ MatchedTxn(r) # Best.txn
       \/ Contradicted

Decide ==
    LET r == FirstMatch
    IN [rule |-> r, status |-> IF Raises(r) THEN "RAISED" ELSE StatusOf(r),
        txn |-> MatchedTxn(r)]

-----------------------------------------------------------------------------
(***************************************************************************)
(* Behaviour.                                                              *)
(***************************************************************************)
Init ==
    /\ policy \in {p \in Policies : Constructible(p)}
    /\ expected \in Totals
    /\ receipt \in Receipts
    /\ ledger \in [Txn -> Entries]
    /\ feed \in Feeds
    /\ spent = {}
    /\ holder = None
    /\ answer = None

Check ==
    /\ answer = None
    /\ answer' = Decide
    /\ UNCHANGED inputs

Free(t, o) == \A s \in spent : s[1] # t /\ s[2] # o

\* activate_for_attempt for the verified answer; the picture is accepted with it.
Approve ==
    /\ answer # None /\ answer.status = "VERIFIED"
    /\ Free(answer.txn, ThisOrder)
    /\ spent' = spent \cup {<<answer.txn, ThisOrder>>}
    /\ holder' = IF holder = None THEN ThisOrder ELSE holder
    /\ answer' = None
    /\ UNCHANGED <<policy, expected, receipt, ledger, feed>>

\* Another order's check is approved, of these bytes or of others.
ApproveOther(t, o) ==
    /\ answer # None
    /\ Free(t, o)
    /\ spent' = spent \cup {<<t, o>>}
    /\ holder' \in {holder, IF holder = None THEN o ELSE holder}
    /\ answer' = None
    /\ UNCHANGED <<policy, expected, receipt, ledger, feed>>

\* The customer sends the receipt again without a field: other bytes, and a
\* reader that reports nothing about it.
Crop(f) ==
    /\ answer # None
    /\ IF f = "amount" THEN receipt.amount # None ELSE f \in receipt.read
    /\ receipt' = [receipt EXCEPT !.amount = IF f = "amount" THEN None ELSE @,
                                  !.read = @ \ {f}, !.doubted = @ \ {f}]
    /\ holder' = None
    /\ answer' = None
    /\ UNCHANGED <<policy, expected, ledger, feed, spent>>

Next ==
    \/ Check \/ Approve
    \/ \E t \in Txn, o \in Order \ {ThisOrder} : ApproveOther(t, o)
    \/ \E f \in Croppable : Crop(f)

Spec == Init /\ [][Next]_vars

-----------------------------------------------------------------------------
(***************************************************************************)
(* Properties.                                                             *)
(***************************************************************************)
Answer == [rule : RuleId,
           status : {StatusOf(r) : r \in RuleId} \cup {"RAISED"},
           txn : Txn \cup {None}]

\* Every variable has its type, and only a policy that could be constructed is
\* in use.
TypeOK ==
    /\ policy \in Policies /\ Constructible(policy)
    /\ expected \in Totals
    /\ receipt \in Receipt
    /\ ledger \in [Txn -> Entries]
    /\ feed \in Feeds
    /\ spent \subseteq Txn \X Order
    /\ holder \in Order \cup {None}
    /\ answer \in {None} \cup Answer

\* Nobody else could have been meant: every rival is a margin behind, or only
\* this one carries the printed transaction id.
StandsAlone(t) ==
    \/ \A u \in Candidates \ {t} : Score(t) - Score(u) >= policy.margin
    \/ {u \in Candidates : Level(u, "reference") = "REF_EXACT"} = {t}

\* A clear reading of a trusted row that agrees with it field by field.
Undisputed(t) ==
    /\ ledger[t].source = "trusted"
    /\ receipt.doubted = {}
    /\ \A f \in Field : Outcome(t, f).agreement # "CONTRADICT"

\* Neither the payment nor the picture has paid another order.
Unused(t) ==
    /\ \A o \in Order \ {ThisOrder} : <<t, o>> \notin spent
    /\ holder \in {None, ThisOrder}

\* The row covers the order, not vastly, and the receipt does not inflate it.
RightMoney(t) ==
    /\ expected # None =>
         /\ expected - ledger[t].amount <= policy.tolerance
         /\ ~MaterialOverpayment(expected, ledger[t].amount, policy)
    /\ receipt.amount # None =>
         ~MaterialInflation(receipt.amount, ledger[t].amount, policy)

SafeToRelease(t) ==
    /\ t \in Candidates
    /\ Score(t) >= policy.accept
    /\ \A u \in Candidates : Score(u) <= Score(t)
    /\ StandsAlone(t) /\ Undisputed(t) /\ Unused(t) /\ RightMoney(t)

\* VERIFIED releases goods (docs/system-design.md 12.1), so whatever policy is
\* in force it names the top candidate, acceptable and beyond confusion,
\* undisputed, unused and for the right money.  No single rule says this: each
\* part rests on the rules above R080 and on the policy's own constraints.
VerifiedIsSafe ==
    (answer # None /\ answer.status = "VERIFIED") => SafeToRelease(answer.txn)

\* The post-condition never kills a verification, unless the feed itself holds
\* a customer's screenshot (reasons.py: reaching VERIFIED on one is a bug in
\* the rule table that the assertion exists to catch).
PostConditionHolds ==
    (answer # None /\ answer.status = "RAISED") =>
        \E t \in Candidates : ledger[t].source = "screenshot"

Twins(t, u) == \A f \in Field : Level(t, f) = Level(u, f)

\* No verdict, of any rule, names one of two payments the receipt fits alike,
\* as long as retrieval did not cut the other one off.
TwinsNeverNamed ==
    (answer # None /\ answer.txn # None /\ policy.margin > 0 /\ ~Truncated) =>
        \A u \in Found \ {answer.txn} : ~Twins(u, answer.txn)

\* What other requests do to the history can only turn a verdict into
\* DUPLICATE, and only by spending the candidate it would name or by having the
\* picture accepted; an order's own approval changes nothing for that order.
HistoryOnlyAccuses ==
    [][ (answer # None /\ UNCHANGED <<policy, expected, receipt, ledger, feed>>) =>
          \/ Decide' = Decide
          \/ /\ Decide'.status = "DUPLICATE"
             /\ \E o \in Order \ {ThisOrder} :
                  <<Best.txn, o>> \in spent' \ spent \/ (holder = None /\ holder' = o) ]_vars

\* engine.py 234-240: hiding a field whose rung is worth what its absence costs
\* never raises any candidate's aggregate, whatever else is on the receipt.
CroppingNeverRaisesScore ==
    [][ \A f \in Croppable : Crop(f) =>
          \A t \in Candidates :
            Outcome(t, f).score >= 100 - policy.penalty => Score(t)' <= Score(t) ]_vars

\* tests/core/test_properties.py 1127-1129: the agreeing rungs "block nothing at
\* all", so hiding a field that agrees does not buy a verification.
CroppingNeverVerifies ==
    [][ \A f \in Croppable :
          (/\ Crop(f) /\ receipt.doubted = {} /\ Candidates # {}
           /\ Outcome(Best.txn, f).score >= 100 - policy.penalty
           /\ Decide.status # "VERIFIED") => Decide'.status # "VERIFIED" ]_vars
=============================================================================
