--------------------------- MODULE PipelineProofs ---------------------------
(***************************************************************************)
(* Proofs about Pipeline for any pictures, any feed, any constructible     *)
(* policies and any reader.                                                *)
(***************************************************************************)
EXTENDS Pipeline, DecisionEngineProofs

-----------------------------------------------------------------------------
(***************************************************************************)
(* Time.                                                                   *)
(***************************************************************************)
\* A receipt whose time is only a day, or whose date is inferred, never counts
\* as agreeing with a transaction's time, however wide the curve is: only
\* IsPrecise claims reach the two agreeing rungs of compare/timestamp.py.
THEOREM ImpreciseTimeNeverAgrees ==
  ASSUME NEW c \in ClaimedInstant, NEW at \in Int,
         Ladder.timestamp[TimestampLevel(c, at)].agreement = "AGREE"
  PROVE  IsPrecise(c) /\ Within(c, at, "close")
  <1>1. TimestampLevel(c, at) \in {"TS_TIGHT", "TS_CLOSE"}
    BY DEF TimestampLevel, Ladder, Rung
  <1>2. Within(c, at, "tight") => Within(c, at, "close")
    <2>1. Apart(at, c.at) \in Nat /\ Apart(at, c.at + c.granularity) \in Nat
      BY DEF ClaimedInstant, Apart
    <2>2. WindowGap(c, at) \in Nat
      BY <2>1 DEF WindowGap
    <2>3. QED
      BY <2>2, TimeAssumption DEF Within
  <1>3. QED
    BY <1>1, <1>2 DEF TimestampLevel

-----------------------------------------------------------------------------
(***************************************************************************)
(* The search.                                                             *)
(***************************************************************************)
LEMMA GroupIsLeast ==
  ASSUME NEW c, NEW row, NEW h \in Search!Group, Search!FoundBy(h, c, row)
  PROVE  LET g == Search!GroupOf(c, row)
         IN g \in Search!Group /\ Search!FoundBy(g, c, row) /\ g <= h
  <1> DEFINE Least(g) == /\ Search!FoundBy(g, c, row)
                         /\ \A k \in Search!Group : k < g => ~Search!FoundBy(k, c, row)
  <1>1. \E g \in Search!Group : Least(g)
    BY DEF Search!Group
  <1>2. Search!GroupOf(c, row) \in Search!Group /\ Least(Search!GroupOf(c, row))
    BY <1>1 DEF Search!GroupOf
  <1>3. ~(h < Search!GroupOf(c, row))
    BY <1>2
  <1>4. QED
    BY <1>2, <1>3 DEF Search!Group

\* The first key: the very id.
LEMMA FirstKey ==
  ASSUME NEW c, NEW row
  PROVE  Search!FoundBy(1, c, row) <=>
           c.reference # None /\ c.reference = row.reference
  BY DEF Search!FoundBy

\* retrieval.py 11-15: the payment that alone carries the printed id is found
\* first, whatever else was read and however the clocks lie.
LEMMA PrintedIdComesFirst ==
  ASSUME NEW c \in Claim, NEW b \in Books, NEW s \in Seq(Txn), Search!Retrieved(c, b, s), NEW t \in Txn,
         b[t] # None, c.reference # None, b[t].reference = c.reference,
         \A u \in Txn : b[u] # None /\ b[u].reference = c.reference => u = t
  PROVE  1 \in DOMAIN s /\ s[1] = t
  <1> DEFINE found == Search!Retrievable(c, b)
             group(u) == Search!GroupOf(c, b[u])
  <1>1. Search!FoundBy(1, c, b[t]) /\ 1 \in Search!Group
    <2>1. Search!FoundBy(1, c, b[t])
      BY FirstKey
    <2>2. QED
      BY <2>1 DEF Search!Group
  <1>2. t \in found
    BY <1>1 DEF Search!Retrievable
  <1>3. PICK i \in DOMAIN s : s[i] = t
    <2>1. t \in {s[k] : k \in DOMAIN s}
      BY <1>2 DEF Search!Retrieved
    <2>2. QED
      BY <2>1
  <1>4. 1 \in DOMAIN s /\ i \in Nat /\ i >= 1
    BY <1>3
  <1>5. s[1] \in found /\ s[1] \in Txn
    BY <1>4 DEF Search!Retrieved
  <1>6. ASSUME i > 1
        PROVE  FALSE
    <2>1. Search!Before(c, b, s[1], t)
      BY <1>3, <1>4, <1>6 DEF Search!Retrieved
    <2>2. PICK h \in Search!Group : Search!FoundBy(h, c, b[s[1]])
      BY <1>5 DEF Search!Retrievable
    <2>3. group(t) = 1
      <3>1. group(t) \in Search!Group /\ group(t) <= 1
        BY <1>1, GroupIsLeast
      <3>2. QED
        BY <3>1 DEF Search!Group
    <2>4. group(s[1]) \in Search!Group /\ Search!FoundBy(group(s[1]), c, b[s[1]])
      BY <2>2, GroupIsLeast
    <2>5. CASE group(s[1]) = 1
      <3>1. b[s[1]].reference = c.reference /\ b[s[1]] # None
        BY <1>5, <2>4, <2>5, FirstKey DEF Search!Retrievable
      <3>2. s[1] = t
        BY <1>5, <3>1
      <3>3. t \in Nat
        BY EngineAssumption
      <3>4. b[t].at \in Int /\ Search!Centre(c) \in Int
        <4>1. b[t] \in Row
          BY PipelineAssumption
        <4>2. QED
          BY <4>1, PipelineAssumption DEF Row, Claim, ClaimedInstant, Search!Centre
      <3>5. Search!Apart(b[t].at, Search!Centre(c)) \in Int
        BY <3>4 DEF Search!Apart
      <3>6. QED
        BY <2>1, <2>3, <3>2, <3>3, <3>5 DEF Search!Before
    <2>6. CASE group(s[1]) # 1
      <3>1. group(s[1]) > 1 /\ group(s[1]) \in Int
        BY <2>4, <2>6 DEF Search!Group
      <3>2. QED
        BY <2>1, <2>3, <3>1 DEF Search!Before
    <2>7. QED
      BY <2>5, <2>6
  <1>7. QED
    BY <1>3, <1>4, <1>6

-----------------------------------------------------------------------------
(***************************************************************************)
(* What a reading becomes.                                                 *)
(***************************************************************************)
\* A text of a picture is read as it is, mangled or not at all.
LEMMA TextIs ==
  ASSUME NEW p \in Pictures, NEW manner \in Manner, NEW f \in Field
  PROVE  LET text == TextsRead(p, manner)[f]
         IN text # None =>
              /\ p.shows[f] # None
              /\ text.value = p.shows[f].value
              /\ text.parses => text = p.shows[f] /\ p.shows[f].parses
  BY DEF TextsRead, Mangled

LEMMA TextType ==
  ASSUME NEW p \in Pictures, NEW manner \in Manner, NEW f \in Field, NEW V,
         p.shows[f] \in Imprint(V), TextsRead(p, manner)[f] # None
  PROVE  TextsRead(p, manner)[f].value \in V
  <1>1. p.shows[f] # None /\ TextsRead(p, manner)[f].value = p.shows[f].value
    BY TextIs
  <1>2. QED
    BY <1>1 DEF Imprint

LEMMA PrintType ==
  ASSUME NEW p \in Pictures
  PROVE  /\ p.shows["reference"] \in Imprint(Reference) /\ p.shows["amount"] \in Imprint(Nat)
         /\ p.shows["timestamp"] \in Imprint(Clock)
         /\ p.shows["sender_name"] \in Imprint(DOMAIN NameKeys)
         /\ p.receiver_name \in DOMAIN NameKeys \cup {None}
  <1>1. p \in Picture
    BY PipelineAssumption
  <1>2. QED
    BY <1>1 DEF Picture

LEMMA CloudClaimType ==
  ASSUME NEW p \in Pictures, NEW manner \in Manner, NEW words,
         NEW receiver \in {p.receiver_name, None}
  PROVE  CloudClaim(TextsRead(p, manner), words, receiver) \in Claim
  <1> DEFINE texts == TextsRead(p, manner)
  <1>0. "reference" \in Field /\ "amount" \in Field /\ "timestamp" \in Field
        /\ "sender_name" \in Field
    BY DEF Field
  <1>1. /\ Verbatim(texts["reference"]) \in Reference \cup {None}
        /\ Verbatim(texts["sender_name"]) \in DOMAIN NameKeys \cup {None}
        /\ Parsed(texts["amount"]) \in Nat \cup {None}
        /\ Parsed(texts["timestamp"]) \in Clock \cup {None}
    <2>1. texts["reference"] # None => texts["reference"].value \in Reference
      BY <1>0, PrintType, TextType
    <2>2. texts["sender_name"] # None => texts["sender_name"].value \in DOMAIN NameKeys
      BY <1>0, PrintType, TextType
    <2>3. texts["amount"] # None => texts["amount"].value \in Nat
      BY <1>0, PrintType, TextType
    <2>4. texts["timestamp"] # None =>
            texts["timestamp"].value \in Clock
      BY <1>0, PrintType, TextType
    <2>5. QED
      BY <2>1, <2>2, <2>3, <2>4 DEF Verbatim, Parsed
  <1>2. \A c \in Clock \cup {None} :
          CloudInstant(c) \in ClaimedInstant \cup {None}
    BY DEF CloudInstant, ClaimedInstant, Clock, Day, Minute
  <1>3. receiver \in DOMAIN NameKeys \cup {None}
    BY PrintType
  <1>4. QED
    BY <1>1, <1>2, <1>3 DEF CloudClaim, Claim

LEMMA FixtureClaimType ==
  ASSUME NEW p \in Pictures
  PROVE  FixtureClaim(p.shows, p.receiver_name) \in Claim
  <1> DEFINE texts == p.shows
  <1>3. \A V, s : s \in Imprint(V) =>
          Verbatim(s) \in V \cup {None} /\ Parsed(s) \in V \cup {None}
    BY DEF Imprint, Verbatim, Parsed
  <1>4. \A c \in Clock \cup {None} :
          FixtureInstant(c) \in ClaimedInstant \cup {None}
    BY DEF FixtureInstant, ClaimedInstant, Clock, Day, Minute
  <1>5. QED
    BY <1>3, <1>4, PrintType DEF FixtureClaim, Claim

\* The empty claim, and the empty claim that says the reader was down.
Nothing == {Empty(FALSE), Empty(TRUE)}

LEMMA NothingIs ==
  /\ Nothing \subseteq Claim
  /\ \A c \in Nothing : AsReceipt(c) =
       [amount |-> None, doubted |-> {}, tamper |-> 0, read |-> {}]
  <1>1. \A c \in Nothing : /\ c.amount = None /\ c.doubted = {}
                            /\ \A f \in Printed : c[f] = None
    BY DEF Nothing, Empty, Printed, Field
  <1>2. Nothing \subseteq Claim
    BY DEF Nothing, Empty, Claim
  <1>3. QED
    BY <1>1, <1>2 DEF AsReceipt

LEMMA ReceiptType ==
  ASSUME NEW c \in Claim
  PROVE  AsReceipt(c) \in Receipt
  BY DEF Claim, AsReceipt, Receipt, Printed

\* A transaction that is not in the feed is an entry too.
LEMMA NothingSeenType ==
  ASSUME NEW c
  PROVE  SeenBy(c, None) \in Entries
  <1>1. \A f \in Printed : Missing[f] \in DOMAIN Ladder[f]
    BY DEF Missing, Ladder, Printed, Field
  <1>2. [f \in Printed |-> Missing[f]] \in Rungs
    BY <1>1 DEF Rungs
  <1>3. 0 \in SeenAmounts
    BY DEF SeenAmounts
  <1>4. QED
    BY <1>2, <1>3, PipelineAssumption DEF SeenBy

\* However a claim compares with a row, it is one of the engine's entries.
LEMMA SeenType ==
  ASSUME NEW c \in Claim, NEW b \in Books, NEW t \in Txn
  PROVE  SeenBy(c, b[t]) \in Entries
  <1>1. b[t] \in Row \cup {None}
    BY PipelineAssumption
  <1>2. \A x \in SeenAmounts, y \in {"trusted", "partial", "screenshot"}, l \in Rungs :
          [amount |-> x, source |-> y, level |-> l] \in Entries
    BY PipelineAssumption
  <1>4. CASE b[t] = None
    BY <1>4, NothingSeenType
  <1>5. CASE b[t] # None
    <2> DEFINE row == b[t]
               l == [f \in Printed |->
                       CASE f = "reference" -> ReferenceLevel(c.reference, row.reference)
                         [] f = "timestamp" -> TimeLevel(c.timestamp, row.at)
                         [] f = "sender_name" -> NameLevel(c.sender_name, row.sender_name)]
    <2>1. row \in Row
      BY <1>1, <1>5
    <2>2. ReferenceLevel(c.reference, row.reference) \in DOMAIN Ladder["reference"]
      BY DEF ReferenceLevel, Ladder
    <2>3. TimeLevel(c.timestamp, row.at) \in DOMAIN Ladder["timestamp"]
      BY DEF TimeLevel, TimestampLevel, Ladder
    <2>4. NameLevel(c.sender_name, row.sender_name) \in DOMAIN Ladder["sender_name"]
      <3>1. CASE c.sender_name = None \/ row.sender_name = None
        BY <3>1 DEF NameLevel, Ladder
      <3>2. CASE ~(c.sender_name = None \/ row.sender_name = None)
        <4>1. c.sender_name \in DOMAIN NameKeys /\ row.sender_name \in DOMAIN NameKeys
          BY <2>1, <3>2 DEF Claim, Row
        <4>2. NameLevel(c.sender_name, row.sender_name)
                = NameRung[<<c.sender_name, row.sender_name>>]
          BY <3>2 DEF NameLevel
        <4>3. QED
          BY <4>1, <4>2, PipelineAssumption
      <3>3. QED
        BY <3>1, <3>2
    <2>5. \A f \in Printed : l[f] \in DOMAIN Ladder[f]
      BY <2>2, <2>3, <2>4 DEF Printed, Field
    <2>6. l \in Rungs
      <3>1. \A f \in Printed : l[f] \in UNION {DOMAIN Ladder[g] : g \in Printed}
        BY <2>5
      <3>2. l \in [Printed -> UNION {DOMAIN Ladder[g] : g \in Printed}]
        BY <3>1
      <3> HIDE DEF l
      <3>3. QED
        BY <2>5, <3>2 DEF Rungs
    <2>7. row.amount \in SeenAmounts /\ row.source \in {"trusted", "partial", "screenshot"}
      BY <1>5, <2>1 DEF Row, SeenAmounts
    <2>8. QED
      BY <1>2, <1>5, <2>6, <2>7 DEF SeenBy
  <1>6. QED
    BY <1>4, <1>5

-----------------------------------------------------------------------------
(***************************************************************************)
(* A claim nothing was read into scores nothing.                           *)
(***************************************************************************)
LEMMA RoundedZero ==
  ASSUME NEW b \in Nat, b > 0
  PROVE  Rounded(0, b) = 0
  <1>1. 0 \div b = 0 /\ 0 % b = 0
    BY SMT
  <1>2. QED
    BY <1>1 DEF Rounded

LEMMA NothingScoresNothing ==
  ASSUME TypeOK, receipt.amount = None, receipt.read = {}, NEW t \in Txn
  PROVE  Score(t) = 0
  <1> DEFINE w == [f \in Field |-> Weight(t, f)]
             p == [f \in Field |-> IF Outcome(t, f).agreement = "MISSING" THEN 0
                                   ELSE policy.weight[f] * Outcome(t, f).score]
  <1>1. \A f \in Field : Level(t, f) = Missing[f]
    BY DEF Level, Missing, Field
  <1>2. \A f \in Field : Outcome(t, f).agreement = "MISSING"
    BY <1>1 DEF Outcome, Missing, Ladder, Rung, Field
  <1>3. Sum(p) = 0
    <2>1. \A f \in Field : p[f] = 0
      BY <1>2
    <2> HIDE DEF p
    <2>2. QED
      BY <2>1 DEF Sum, Field
  <1>4. Sum(w) \in Nat
    <2>1. \A f \in Field : policy.weight[f] \in Nat /\ policy.penalty \in Nat
      BY EngineAssumption DEF TypeOK, Constructible, Policy
    <2>2. \A f \in Field : w[f] \in Nat
      BY <2>1 DEF Weight
    <2> HIDE DEF w
    <2>3. QED
      BY <2>2 DEF Sum, Field
  <1>5. Score(t) = IF Sum(w) <= 0 THEN 0 ELSE Rounded(Sum(p) * One, Sum(w))
    BY DEF Score
  <1>6. QED
    <2> HIDE DEF w, p
    <2>1. Sum(p) * One = 0
      BY <1>3 DEF One
    <2>2. QED
      BY <1>4, <1>5, <2>1, RoundedZero

LEMMA NothingVerifiesNothing ==
  ASSUME TypeOK, receipt.amount = None, receipt.read = {}, policy.accept > 0
  PROVE  Decide.status \notin {"VERIFIED", "RAISED"}
  <1>1. BestScore = 0
    <2>1. CASE Candidates = {}
      BY <2>1 DEF BestScore
    <2>2. CASE Candidates # {}
      BY <2>2, BestIs, CandidatesType, NothingScoresNothing
    <2>3. QED
      BY <2>1, <2>2
  <1>2. ~Acceptable
    BY <1>1, PolicyType DEF Acceptable
  <1>3. StatusOf(FirstMatch) # "VERIFIED"
    BY <1>2, Verifying
  <1>4. ~Raises(FirstMatch)
    BY <1>3 DEF Raises
  <1>5. Decide.status = StatusOf(FirstMatch)
    BY <1>4 DEF Decide
  <1>6. StatusOf(FirstMatch) # "RAISED"
    BY DEF StatusOf
  <1>7. QED
    BY <1>3, <1>5, <1>6

\* A verified answer names a transaction.
LEMMA VerifiedNames ==
  ASSUME TypeOK, Decide.status = "VERIFIED"
  PROVE  Decide.txn \in Txn
  <1>1. SafeToRelease(Decide.txn)
    BY DecideIsSafe
  <1>2. QED
    BY <1>1, CandidatesType DEF SafeToRelease

-----------------------------------------------------------------------------
(***************************************************************************)
(* The invariant.                                                          *)
(***************************************************************************)
AnswerNames == (answer # None /\ answer.status = "VERIFIED") => answer.txn \in Txn

\* The claim knows why it is empty.
ClaimTellsReply ==
    claim # None => /\ claim.degraded <=> reply \in Failure
                    /\ reply \in Failure \cup {"refused"} => claim \in Nothing

PipelineInv ==
    PipelineTypeOK /\ AnswerNames /\ ClaimTellsReply /\ DoubtIsAFailedCheck

\* What a field of the cloud reader's claim says of its text.
LEMMA CloudField ==
  ASSUME NEW p \in Pictures, NEW manner \in Manner, NEW words, NEW receiver, NEW f \in Field
  PROVE  LET text == TextsRead(p, manner)[f]
             c == CloudClaim(TextsRead(p, manner), words, receiver)
         IN /\ f \in c.doubted => text # None /\ ~text.parses
            /\ f \notin c.doubted /\ text # None => text.parses
            /\ c[f] # None => text # None
            /\ f \in {"amount", "timestamp"} /\ text # None /\ ~text.parses => c[f] = None
  <1> DEFINE texts == TextsRead(p, manner)
             c == CloudClaim(texts, words, receiver)
  <1>1. f \in c.doubted <=> ConfidenceBand(texts[f], Grounded(f, words)) = "low"
    BY DEF CloudClaim
  <1>2. Grounded(f, words) # "failed"
    BY DEF Grounded
  <1>3. ConfidenceBand(texts[f], Grounded(f, words)) = "low"
          <=> texts[f] # None /\ ~texts[f].parses
    BY <1>2 DEF ConfidenceBand, FormatValid
  <1>4. c[f] # None => texts[f] # None
    BY DEF CloudClaim, Field, Verbatim, Parsed, CloudInstant
  <1>5. f \in {"amount", "timestamp"} /\ texts[f] # None /\ ~texts[f].parses => c[f] = None
    BY DEF CloudClaim, Parsed, CloudInstant
  <1>6. QED
    BY <1>1, <1>3, <1>4, <1>5

\* No claim is the absent value.
LEMMA ClaimIsNotNone == None \notin Claim
  BY PipelineAssumption

LEMMA EmptyFeed == << >> \in Feeds
  <1>1. << >> \in [1..0 -> Txn]
    OBVIOUS
  <1>2. 0 \in 0..Cardinality(Txn)
    BY PipelineAssumption, FS_CardinalityType
  <1>3. << >> \in UNION {[1..n -> Txn] : n \in 0..Cardinality(Txn)}
    BY <1>1, <1>2
  <1>4. QED
    BY <1>3, PipelineAssumption

LEMMA PipelineStart == PipelineInit => PipelineInv
  <1> SUFFICES ASSUME PipelineInit
               PROVE  PipelineInv
    OBVIOUS
  <1>1. /\ policy \in Policies /\ Constructible(policy) /\ expected \in Totals
        /\ spent = {} /\ holder = None /\ answer = None /\ claim = None /\ reply = "none"
        /\ phase = "idle" /\ mode \in Modes /\ picture \in Pictures /\ book \in Books
    BY DEF PipelineInit
  <1>2. receipt \in Receipt
    BY NothingIs, ReceiptType DEF PipelineInit, Unread, Nothing
  <1>3. feed \in Feeds
    BY EmptyFeed DEF PipelineInit
  <1>4. SeenBy(Unread, None) \in Entries
    BY NothingSeenType
  <1>5. ledger \in [Txn -> Entries]
    BY <1>4 DEF PipelineInit, NothingSeen
  <1>6. TypeOK
    BY <1>1, <1>2, <1>3, <1>5 DEF TypeOK, Constructible
  <1>7. PipelineTypeOK
    BY <1>1, <1>6 DEF PipelineTypeOK
  <1>8. QED
    BY <1>1, <1>7 DEF PipelineInv, AnswerNames, ClaimTellsReply, DoubtIsAFailedCheck

\* A reader's answer that leaves a claim.
LEMMA ReadStep ==
  ASSUME PipelineInv, phase = "reading", ReaderOnly, phase' = "read",
         claim' \in Claim, reply' \in {"texts", "refused", "fixture"} \cup Failure
  PROVE  PipelineTypeOK' /\ AnswerNames'
  <1>1. answer = None
    BY DEF PipelineInv, PipelineTypeOK
  <1>2. answer' = None
    BY <1>1 DEF ReaderOnly
  <1>3. TypeOK'
    BY DEF PipelineInv, PipelineTypeOK, TypeOK, Constructible, ReaderOnly, deployment,
           engineInputs
  <1>4. claim' # None
    BY ClaimIsNotNone
  <1>5. PipelineTypeOK'
    BY <1>2, <1>3, <1>4 DEF PipelineInv, PipelineTypeOK, ReaderOnly, deployment
  <1>6. QED
    BY <1>2, <1>5 DEF AnswerNames

\* A step that ends in no claim and no answer.
LEMMA EmptyStep ==
  ASSUME PipelineInv, claim' = None, answer' = None, phase' \in {"idle", "reading"},
         reply' \in {"none", "broken", "fixture"}, UNCHANGED <<deployment, spent, holder>>,
         receipt' \in Receipt, ledger' \in [Txn -> Entries], feed' \in Feeds
  PROVE  PipelineInv'
  <1>1. TypeOK'
    BY DEF PipelineInv, PipelineTypeOK, TypeOK, Constructible, deployment
  <1>2. PipelineTypeOK'
    BY <1>1 DEF PipelineInv, PipelineTypeOK, deployment
  <1>3. QED
    BY <1>2 DEF PipelineInv, AnswerNames, ClaimTellsReply, DoubtIsAFailedCheck

\* The inputs of the engine stand still, and so do their types.
LEMMA InputTypes ==
  ASSUME PipelineInv
  PROVE  /\ receipt \in Receipt /\ ledger \in [Txn -> Entries] /\ feed \in Feeds
         /\ TypeOK
         /\ policy \in Policies /\ Constructible(policy)
  BY DEF PipelineInv, PipelineTypeOK, TypeOK

LEMMA PipelineStep ==
  ASSUME PipelineInv, [PipelineNext]_pipelineVars
  PROVE  PipelineInv'
  <1>1. CASE Submit
    <2>1. receipt' \in Receipt /\ ledger' \in [Txn -> Entries] /\ feed' \in Feeds
      <3>1. receipt' \in Receipt
        BY <1>1, NothingIs, ReceiptType DEF Submit, Unread, Nothing
      <3>2. ledger' \in [Txn -> Entries]
        <4>1. SeenBy(Unread, None) \in Entries
          BY NothingSeenType
        <4>2. QED
          BY <1>1, <4>1 DEF Submit, NothingSeen
      <3>3. feed' \in Feeds
        BY <1>1, EmptyFeed DEF Submit
      <3>4. QED
        BY <3>1, <3>2, <3>3
    <2>2. claim' = None /\ phase' \in {"idle", "reading"}
      BY <1>1 DEF Submit, EndUnanswered
    <2>3. QED
      BY <1>1, <2>1, <2>2, EmptyStep DEF Submit
  <1>2. ASSUME NEW manner \in Manner, NEW words \in {{}, Field},
               NEW receiver \in {picture.receiver_name, None},
               Answers(TextsRead(picture, manner), words, receiver)
        PROVE  PipelineInv'
    <2> DEFINE c == CloudClaim(TextsRead(picture, manner), words, receiver)
    <2>1. picture \in Pictures
      BY DEF PipelineInv, PipelineTypeOK
    <2>2. c \in Claim
      BY <2>1, CloudClaimType
    <2>3. claim' = c /\ reply' = "texts" /\ phase = "reading" /\ phase' = "read" /\ ReaderOnly
          /\ picture' = picture
      BY <1>2 DEF Answers, ReaderOnly, deployment
    <2>4. PipelineTypeOK' /\ AnswerNames'
      BY <2>2, <2>3, ReadStep
    <2>5. ClaimTellsReply'
      <3>1. ~c.degraded
        BY DEF CloudClaim
      <3>2. QED
        BY <2>3, <3>1 DEF ClaimTellsReply, Failure
    <2>6. DoubtIsAFailedCheck'
      <3>1. c.doubted \subseteq {f \in Field : picture.shows[f] # None}
        <4>1. c.doubted \subseteq Field
          BY DEF CloudClaim
        <4>2. QED
          BY <2>1, <4>1, CloudField, TextIs
      <3>2. \A f \in {"amount", "timestamp"} : f \in c.doubted => c[f] = None
        BY <2>1, CloudField DEF Field
      <3>3. \A f \in Field : f \notin c.doubted /\ c[f] # None =>
              picture.shows[f] # None /\ picture.shows[f].parses
        BY <2>1, CloudField, TextIs
      <3> HIDE DEF c
      <3>4. QED
        BY <2>3, <3>1, <3>2, <3>3 DEF DoubtIsAFailedCheck
    <2>7. QED
      BY <2>4, <2>5, <2>6 DEF PipelineInv
  <1>3. ASSUME NEW kind \in Failure, Fails(kind)
        PROVE  PipelineInv'
    <2>1. claim' = Empty(TRUE) /\ reply' = kind
      BY <1>3 DEF Fails
    <2>2. Empty(TRUE) \in Claim /\ Empty(TRUE) \in Nothing /\ Empty(TRUE).degraded
      BY NothingIs DEF Nothing, Empty
    <2>3. PipelineTypeOK' /\ AnswerNames'
      BY <1>3, <2>1, <2>2, ReadStep DEF Fails
    <2>4. ClaimTellsReply' /\ DoubtIsAFailedCheck'
      BY <2>1, <2>2 DEF ClaimTellsReply, DoubtIsAFailedCheck, Failure
    <2>5. QED
      BY <2>3, <2>4 DEF PipelineInv
  <1>4. CASE Refuses
    <2>1. claim' = Empty(FALSE) /\ reply' = "refused"
      BY <1>4 DEF Refuses, Unread
    <2>2. Empty(FALSE) \in Claim /\ Empty(FALSE) \in Nothing /\ ~Empty(FALSE).degraded
      BY NothingIs DEF Nothing, Empty
    <2>3. PipelineTypeOK' /\ AnswerNames'
      BY <1>4, <2>1, <2>2, ReadStep DEF Refuses
    <2>4. ClaimTellsReply' /\ DoubtIsAFailedCheck'
      BY <2>1, <2>2 DEF ClaimTellsReply, DoubtIsAFailedCheck, Failure
    <2>5. QED
      BY <2>3, <2>4 DEF PipelineInv
  <1>5. CASE Breaks
    <2>1. /\ claim' = None /\ phase' = "idle" /\ reply' = "broken" /\ answer' = answer
          /\ phase = "reading" /\ UNCHANGED <<deployment, spent, holder, receipt, ledger, feed>>
      BY <1>5 DEF Breaks, EndUnanswered, ReaderOnly, engineInputs
    <2>2. answer' = None
      BY <2>1 DEF PipelineInv, PipelineTypeOK
    <2>3. receipt' \in Receipt /\ ledger' \in [Txn -> Entries] /\ feed' \in Feeds
      BY <2>1, InputTypes
    <2>4. QED
      BY <2>1, <2>2, <2>3, EmptyStep
  <1>6. CASE ReadsFixture
    <2>1. /\ phase = "reading" /\ reply' = "fixture" /\ ReaderOnly
      BY <1>6 DEF ReadsFixture
    <2>2. CASE EndUnanswered
      <3>1. /\ claim' = None /\ phase' = "idle" /\ answer' = answer
            /\ UNCHANGED <<deployment, spent, holder, receipt, ledger, feed>>
        BY <2>1, <2>2 DEF EndUnanswered, ReaderOnly, engineInputs
      <3>2. answer' = None
        BY <2>1, <3>1 DEF PipelineInv, PipelineTypeOK
      <3>3. receipt' \in Receipt /\ ledger' \in [Txn -> Entries] /\ feed' \in Feeds
        BY <3>1, InputTypes
      <3>4. QED
        BY <2>1, <3>1, <3>2, <3>3, EmptyStep
    <2>3. CASE phase' = "read" /\ claim' = FixtureClaim(picture.shows, picture.receiver_name)
      <3>1. claim' \in Claim /\ ~claim'.degraded
        BY <2>3, FixtureClaimType DEF PipelineInv, PipelineTypeOK, FixtureClaim
      <3>2. PipelineTypeOK' /\ AnswerNames'
        BY <2>1, <2>3, <3>1, ReadStep
      <3>3. ClaimTellsReply' /\ DoubtIsAFailedCheck'
        BY <2>1, <3>1 DEF ClaimTellsReply, DoubtIsAFailedCheck, Failure
      <3>4. QED
        BY <3>2, <3>3 DEF PipelineInv
    <2>4. QED
      BY <1>6, <2>2, <2>3 DEF ReadsFixture
  <1>7. CASE Retrieve
    <2>1. /\ phase = "read" /\ phase' = "retrieved" /\ receipt' = AsReceipt(claim)
          /\ ledger' = [t \in Txn |-> SeenBy(claim, book[t])] /\ feed' \in Feeds
          /\ UNCHANGED <<deployment, spent, holder, answer, reply, claim>>
      BY <1>7 DEF Retrieve
    <2>2. claim \in Claim /\ claim # None /\ book \in Books /\ answer = None
      BY <2>1 DEF PipelineInv, PipelineTypeOK
    <2>3. receipt' \in Receipt
      BY <2>1, <2>2, ReceiptType
    <2>4. ledger' \in [Txn -> Entries]
      <3>1. \A t \in Txn : SeenBy(claim, book[t]) \in Entries
        BY <2>2, SeenType
      <3>2. QED
        BY <2>1, <3>1
    <2>5. TypeOK'
      BY <2>1, <2>3, <2>4, InputTypes DEF TypeOK, Constructible, deployment, PipelineInv,
         PipelineTypeOK
    <2>6. PipelineTypeOK'
      <3>1. AsReceipt(claim)' = AsReceipt(claim)
        BY <2>1 DEF AsReceipt
      <3>2. QED
        BY <2>1, <2>2, <2>5, <3>1 DEF PipelineInv, PipelineTypeOK, deployment
    <2>7. AnswerNames'
      BY <2>1, <2>2 DEF AnswerNames
    <2>8. ClaimTellsReply' /\ DoubtIsAFailedCheck'
      BY <2>1 DEF ClaimTellsReply, DoubtIsAFailedCheck, deployment, PipelineInv
    <2>9. QED
      BY <2>6, <2>7, <2>8 DEF PipelineInv
  <1>8. CASE Answered
    <2>1. /\ phase = "retrieved" /\ phase' = "idle" /\ answer' = Decide
          /\ UNCHANGED inputs /\ UNCHANGED <<mode, book, picture, reply, claim>>
      BY <1>8 DEF Answered, Check
    <2>2. claim # None /\ receipt = AsReceipt(claim) /\ TypeOK
      BY <2>1 DEF PipelineInv, PipelineTypeOK
    <2>3. TypeOK'
      BY <2>1, <2>2, DecideType DEF TypeOK, Constructible, inputs, Answer
    <2>4. PipelineTypeOK'
      <3>1. AsReceipt(claim)' = AsReceipt(claim) /\ receipt' = receipt
        BY <2>1 DEF AsReceipt, inputs
      <3>2. QED
        BY <2>1, <2>2, <2>3, <3>1 DEF PipelineInv, PipelineTypeOK
    <2>5. AnswerNames'
      BY <2>1, <2>2, VerifiedNames DEF AnswerNames
    <2>6. ClaimTellsReply' /\ DoubtIsAFailedCheck'
      BY <2>1 DEF ClaimTellsReply, DoubtIsAFailedCheck, PipelineInv
    <2>7. QED
      BY <2>4, <2>5, <2>6 DEF PipelineInv
  <1>9. ASSUME spent' \subseteq Txn \X Order, holder' \in Order \cup {None},
               UNCHANGED <<deployment, engineInputs, answer, phase, reply, claim>>
        PROVE  PipelineInv'
    <2>1. /\ UNCHANGED <<policy, expected, receipt, ledger, feed, mode, book, picture>>
          /\ UNCHANGED <<answer, phase, reply, claim>>
      BY <1>9 DEF deployment, engineInputs
    <2>2. TypeOK'
      BY <1>9, <2>1, InputTypes DEF TypeOK, Constructible, Answer
    <2>3. PipelineTypeOK'
      <3>1. AsReceipt(claim)' = AsReceipt(claim)
        BY <2>1 DEF AsReceipt
      <3>2. QED
        BY <2>1, <2>2, <3>1 DEF PipelineInv, PipelineTypeOK
    <2>4. AnswerNames' /\ ClaimTellsReply' /\ DoubtIsAFailedCheck'
      BY <2>1 DEF AnswerNames, ClaimTellsReply, DoubtIsAFailedCheck,
                  PipelineInv
    <2>5. QED
      BY <2>3, <2>4 DEF PipelineInv
  <1>10. CASE Use
    <2>1. answer.txn \in Txn
      BY <1>10 DEF Use, PipelineInv, AnswerNames
    <2>2. spent' \subseteq Txn \X Order /\ holder' \in Order \cup {None}
      BY <1>10, <2>1, InputTypes, EngineAssumption DEF Use, TypeOK
    <2>3. QED
      BY <1>9, <1>10, <2>2 DEF Use
  <1>11. ASSUME NEW t \in Txn, NEW o \in Order \ {ThisOrder}, UsedElsewhere(t, o)
         PROVE  PipelineInv'
    <2>1. spent' \subseteq Txn \X Order /\ holder' \in Order \cup {None}
      BY <1>11, InputTypes DEF UsedElsewhere, TypeOK
    <2>2. QED
      BY <1>9, <1>11, <2>1 DEF UsedElsewhere
  <1>12. CASE UNCHANGED pipelineVars
    <2>1. /\ UNCHANGED <<deployment, engineInputs, answer, phase, reply, claim>>
          /\ UNCHANGED <<spent, holder>>
      BY <1>12 DEF pipelineVars, vars, deployment, engineInputs
    <2>2. spent' \subseteq Txn \X Order /\ holder' \in Order \cup {None}
      BY <2>1, InputTypes DEF TypeOK
    <2>3. QED
      BY <1>9, <2>1, <2>2
  <1>13. CASE ReaderStep
    <2>1. \A kind \in Failure \ {"timeout"} : kind \in Failure
      OBVIOUS
    <2>2. "timeout" \in Failure
      BY DEF Failure
    <2>3. QED
      BY <1>2, <1>3, <1>4, <1>5, <1>6, <1>13, <2>1, <2>2 DEF ReaderStep, TimesOut
  <1>14. QED
    BY <1>1, <1>7, <1>8, <1>10, <1>11, <1>12, <1>13 DEF PipelineNext

-----------------------------------------------------------------------------
(***************************************************************************)
(* The theorems.                                                           *)
(***************************************************************************)
\* PipelineTypeOK, whatever the reader does: a submission that is compared or
\* answered is about the claim that was read.
THEOREM PipelineTypeCorrect == PipelineSpec => []PipelineTypeOK
  <1>1. PipelineInv => PipelineTypeOK
    BY DEF PipelineInv
  <1>2. QED
    BY <1>1, PipelineStart, PipelineStep, PTL DEF PipelineSpec

\* DoubtIsAFailedCheck: of any picture, read in any manner, the fields doubted
\* are those whose text fails a check that ran.
THEOREM DoubtNeedsAFailedCheck == PipelineSpec => []DoubtIsAFailedCheck
  <1>1. PipelineInv => DoubtIsAFailedCheck
    BY DEF PipelineInv
  <1>2. QED
    BY <1>1, PipelineStart, PipelineStep, PTL DEF PipelineSpec

\* A policy that accepts a score of 0 accepts anything; the constructor allows
\* it, the shipped policy is far from it.
LowestBar == \A p \in Policies : p.accept > 0

\* An empty claim is answered, and not with VERIFIED.
NothingNotVerified ==
    (answer # None /\ reply \in Failure \cup {"refused"}) =>
        answer.status \notin {"VERIFIED", "RAISED"}

LEMMA NothingStep ==
  ASSUME PipelineInv, NothingNotVerified, [PipelineNext]_pipelineVars, LowestBar
  PROVE  NothingNotVerified'
  <1>1. CASE answer' = None
    BY <1>1 DEF NothingNotVerified
  <1>2. CASE UNCHANGED <<answer, reply>>
    BY <1>2 DEF NothingNotVerified
  <1>3. CASE Answered
    <2>1. /\ phase = "retrieved" /\ answer' = Decide /\ reply' = reply
      BY <1>3 DEF Answered, Check
    <2>2. claim # None /\ receipt = AsReceipt(claim) /\ TypeOK
      BY <2>1 DEF PipelineInv, PipelineTypeOK
    <2>3. ASSUME reply \in Failure \cup {"refused"}
          PROVE  Decide.status \notin {"VERIFIED", "RAISED"}
      <3>1. claim \in Nothing
        BY <2>2, <2>3 DEF PipelineInv, ClaimTellsReply
      <3>2. receipt.amount = None /\ receipt.read = {}
        BY <2>2, <3>1, NothingIs
      <3>3. policy.accept > 0
        BY <2>2 DEF LowestBar, TypeOK
      <3>4. QED
        BY <2>2, <3>2, <3>3, NothingVerifiesNothing
    <2>4. QED
      BY <2>1, <2>3 DEF NothingNotVerified, Failure
  <1>4. ASSUME phase = "reading", ReaderOnly
        PROVE  answer' = None
    BY <1>4 DEF PipelineInv, PipelineTypeOK, ReaderOnly
  <1>5. CASE ReaderStep
    <2>1. phase = "reading" /\ ReaderOnly
      BY <1>5 DEF ReaderStep, Answers, Fails, TimesOut, Refuses, Breaks, ReadsFixture
    <2>2. QED
      BY <1>1, <1>4, <2>1
  <1>6. Submit => answer' = None
    BY DEF Submit
  <1>7. Retrieve \/ Use \/ (\E t \in Txn, o \in Order \ {ThisOrder} : UsedElsewhere(t, o))
          \/ UNCHANGED pipelineVars => UNCHANGED <<answer, reply>>
    BY DEF Retrieve, Use, UsedElsewhere, pipelineVars, vars
  <1>8. QED
    BY <1>1, <1>2, <1>3, <1>5, <1>6, <1>7 DEF PipelineNext

\* FailedReadingReleasesNothing: under any policies that ask for more than nothing,
\* the response to a submission whose reader was down shows as unreadable and as
\* nothing else, and neither a failure nor a refusal ends in VERIFIED.
THEOREM FailureIsShownAsFailure ==
  ASSUME LowestBar
  PROVE  PipelineSpec => []FailedReadingReleasesNothing
  <1>1. PipelineInit => NothingNotVerified
    BY DEF PipelineInit, NothingNotVerified
  <1>2. PipelineInv /\ NothingNotVerified => FailedReadingReleasesNothing
    <2> SUFFICES ASSUME PipelineInv, NothingNotVerified, answer # None
                 PROVE  /\ reply \in Failure <=> Screen = "unreadable"
                        /\ reply \in Failure \cup {"refused"} => answer.status # "VERIFIED"
      BY DEF FailedReadingReleasesNothing
    <2>1. claim # None /\ answer \in Answer
      BY DEF PipelineInv, PipelineTypeOK, TypeOK
    <2>2. answer.status # "unreadable"
      <3>1. \A r \in RuleId : StatusOf(r) # "unreadable"
        BY DEF StatusOf
      <3>2. QED
        BY <2>1, <3>1 DEF Answer
    <2>3. claim.degraded <=> reply \in Failure
      BY <2>1 DEF PipelineInv, ClaimTellsReply
    <2>4. reply \in Failure => answer.status # "RAISED"
      BY DEF NothingNotVerified
    <2>5. reply \in Failure \cup {"refused"} => answer.status # "VERIFIED"
      BY DEF NothingNotVerified
    <2>6. reply \in Failure <=> Screen = "unreadable"
      BY <2>2, <2>3, <2>4 DEF Screen
    <2>7. QED
      BY <2>5, <2>6
  <1>3. QED
    BY <1>1, <1>2, PipelineStart, PipelineStep, NothingStep, PTL DEF PipelineSpec

\* Whatever was read of the picture and whatever the feed, a verdict that
\* releases goods is safe at the step that gives it: the engine's guarantee
\* survives the composition with the reader and the search.  (Afterwards
\* another order may spend the payment, which approval then notices.)
AnsweredSafely ==
    (Answered /\ answer'.status = "VERIFIED") => SafeToRelease(answer'.txn)

THEOREM VerdictIsSafeWhenGiven == PipelineSpec => [][AnsweredSafely]_pipelineVars
  <1>1. ASSUME PipelineInv, Answered, answer'.status = "VERIFIED"
        PROVE  SafeToRelease(answer'.txn)
    <2>1. answer' = Decide /\ TypeOK
      BY <1>1 DEF Answered, Check, PipelineInv, PipelineTypeOK
    <2>2. QED
      BY <1>1, <2>1, DecideIsSafe
  <1>2. PipelineInv => AnsweredSafely
    BY <1>1 DEF AnsweredSafely
  <1>3. QED
    BY <1>2, PipelineStart, PipelineStep, PTL DEF PipelineSpec

\* retrieval.py 11-15: the payment that alone carries the printed id is scored,
\* however many rivals the other keys find and however few max_candidates lets
\* through.
PrintedIdIsScored ==
    phase = "retrieved" => \A t \in Txn : book[t] # None /\ IdPointsAt(t) => t \in Candidates

FeedWasRetrieved == phase = "retrieved" => Search!Retrieved(claim, book, feed)

LEMMA FeedStart == PipelineInit => FeedWasRetrieved
  BY DEF PipelineInit, FeedWasRetrieved

LEMMA FeedStep ==
  ASSUME FeedWasRetrieved, [PipelineNext]_pipelineVars
  PROVE  FeedWasRetrieved'
  <1>1. CASE Retrieve
    BY <1>1 DEF Retrieve, FeedWasRetrieved, deployment
  <1>2. CASE UNCHANGED <<phase, claim, book, feed>>
    BY <1>2 DEF FeedWasRetrieved
  <1>3. Submit \/ ReaderStep \/ Answered => phase' # "retrieved"
    BY DEF Submit, EndUnanswered, Answered, ReaderStep, Answers, Fails, TimesOut, Refuses,
           Breaks, ReadsFixture
  <1>4. Use \/ (\E t \in Txn, o \in Order \ {ThisOrder} : UsedElsewhere(t, o))
          \/ UNCHANGED pipelineVars => UNCHANGED <<phase, claim, book, feed>>
    BY DEF Use, UsedElsewhere, pipelineVars, vars, deployment, engineInputs
  <1>5. QED
    BY <1>1, <1>2, <1>3, <1>4 DEF PipelineNext, FeedWasRetrieved

THEOREM PrintedIdIsNeverCut == PipelineSpec => []PrintedIdIsScored
  <1>1. PipelineInv /\ FeedWasRetrieved => PrintedIdIsScored
    <2> SUFFICES ASSUME PipelineInv, FeedWasRetrieved, phase = "retrieved",
                        NEW t \in Txn, book[t] # None, IdPointsAt(t)
                 PROVE  t \in Candidates
      BY DEF PrintedIdIsScored
    <2>1. claim \in Claim /\ book \in Books /\ feed \in Feeds /\ Constructible(policy)
      BY DEF PipelineInv, PipelineTypeOK, TypeOK
    <2>2. feed \in Seq(Txn)
      BY <2>1, EngineAssumption
    <2>3. /\ claim.reference # None /\ book[t].reference = claim.reference
          /\ \A u \in Txn : book[u] # None /\ book[u].reference = claim.reference => u = t
      BY DEF IdPointsAt
    <2>4. 1 \in DOMAIN feed /\ feed[1] = t
      BY <2>1, <2>2, <2>3, PrintedIdComesFirst DEF FeedWasRetrieved
    <2>5. 1 <= policy.maxCandidates
      BY <2>1 DEF Constructible
    <2>6. QED
      BY <2>4, <2>5 DEF Candidates
  <1>2. QED
    BY <1>1, PipelineStart, PipelineStep, FeedStart, FeedStep, PTL DEF PipelineSpec

-----------------------------------------------------------------------------
(***************************************************************************)
(* Genuine receipts.  The other candidate can lead the receipt's own       *)
(* payment by 75 points on the reference (one misread glyph against a      *)
(* missing head) and by 60 on the time, and every aggregate that is        *)
(* accepted has at least 1450 to divide them by: less than the margin.     *)
(***************************************************************************)
\* s is the aggregate of num points over the weight den, without the division.
Scores(s, num, den) ==
    /\ den * (2 * s) <= 2 * (num * One) + den
    /\ 2 * (num * One) < den * (2 * s) + den

\* The payment has the weights w and the points p, the other candidate v and q.
LeadBounded(w, p, v, q) ==
    /\ \A f \in {"reference", "amount", "timestamp"} : v[f] = w[f]
    /\ \/ w["reference"] = 250 /\ q["reference"] = 0 /\ p["reference"] = 0
       \/ /\ w["reference"] = 500
          /\ q["reference"] <= 500 /\ q["reference"] <= p["reference"] + 75
    /\ \/ w["amount"] = 250 /\ q["amount"] = 0 /\ p["amount"] = 0
       \/ w["amount"] = 500 /\ q["amount"] <= 500 /\ p["amount"] = 500
    /\ \/ w["timestamp"] = 200 /\ q["timestamp"] = 0 /\ p["timestamp"] = 0
       \/ /\ w["timestamp"] = 400
          /\ q["timestamp"] <= 400 /\ q["timestamp"] <= p["timestamp"] + 60
    /\ \/ /\ w["sender_name"] = 150 /\ v["sender_name"] = 150
          /\ q["sender_name"] = 0 /\ p["sender_name"] = 0
       \/ /\ w["sender_name"] = 300 /\ p["sender_name"] = 300
          /\ \/ v["sender_name"] = 150 /\ q["sender_name"] = 0
             \/ v["sender_name"] = 300 /\ q["sender_name"] <= 300

LEMMA LeadIsSmall ==
  ASSUME NEW w \in [Field -> Nat], NEW p \in [Field -> Nat],
         NEW v \in [Field -> Nat], NEW q \in [Field -> Nat], LeadBounded(w, p, v, q),
         NEW s \in Nat, NEW r \in Nat, Scores(s, Sum(p), Sum(w)), Scores(r, Sum(q), Sum(v)),
         r >= 820000
  PROVE  /\ r - s < 100000
         /\ w["amount"] = 250 => q["reference"] > 450
  <1>1. /\ w["reference"] \in Nat /\ w["amount"] \in Nat
        /\ w["timestamp"] \in Nat /\ w["sender_name"] \in Nat
        /\ p["reference"] \in Nat /\ p["amount"] \in Nat
        /\ p["timestamp"] \in Nat /\ p["sender_name"] \in Nat
        /\ q["reference"] \in Nat /\ q["amount"] \in Nat
        /\ q["timestamp"] \in Nat /\ q["sender_name"] \in Nat
        /\ v["sender_name"] \in Nat
        /\ v["reference"] = w["reference"] /\ v["amount"] = w["amount"]
        /\ v["timestamp"] = w["timestamp"]
    BY DEF Field, LeadBounded
  <1>2. CASE w["reference"] = 250 /\ w["amount"] = 250
    <2>1. v["timestamp"] = 400 => Sum(v) >= 1050 /\ (q["sender_name"] > 0 => Sum(v) = 1200)
      BY <1>1, <1>2 DEF LeadBounded, Sum
    <2>2. v["timestamp"] = 200 => Sum(v) >= 850 /\ Sum(q) <= 300
      BY <1>1, <1>2 DEF LeadBounded, Sum
    <2>3. Sum(q) <= 700 /\ (q["sender_name"] = 0 => Sum(q) <= 400)
      BY <1>1, <1>2 DEF LeadBounded, Sum
    <2>4. Sum(v) \in {850, 1000, 1050, 1200} /\ Sum(q) \in Nat
      BY <1>1, <1>2 DEF LeadBounded, Sum
    <2>5. 1640000 * Sum(v) <= 2 * (Sum(q) * One) + Sum(v)
      <3>1. Sum(v) * (2 * 820000) <= Sum(v) * (2 * r)
        BY <2>4
      <3>2. QED
        BY <2>4, <3>1 DEF Scores, One
    <2>6. QED
      BY <1>1, <1>2, <2>1, <2>2, <2>3, <2>4, <2>5 DEF LeadBounded, One
  <1>3. CASE w["reference"] = 250 /\ w["amount"] = 500
    BY <1>1, <1>3, SMTT(30) DEF LeadBounded, Scores, Sum, One
  <1>4. CASE w["reference"] = 500 /\ w["amount"] = 250
    BY <1>1, <1>4, SMTT(30) DEF LeadBounded, Scores, Sum, One
  <1>5. CASE w["reference"] = 500 /\ w["amount"] = 500
    <2>1. CASE w["timestamp"] = 200
      <3>1. CASE v["sender_name"] = 150 /\ w["sender_name"] = 150
        BY <1>1, <1>5, <2>1, <3>1 DEF LeadBounded, Scores, Sum, One
      <3>2. CASE v["sender_name"] = 150 /\ w["sender_name"] = 300
        BY <1>1, <1>5, <2>1, <3>2 DEF LeadBounded, Scores, Sum, One
      <3>3. CASE v["sender_name"] = 300 /\ w["sender_name"] = 300
        BY <1>1, <1>5, <2>1, <3>3 DEF LeadBounded, Scores, Sum, One
      <3>4. QED
        BY <1>1, <3>1, <3>2, <3>3 DEF LeadBounded
    <2>2. CASE w["timestamp"] = 400
      <3>1. CASE v["sender_name"] = 150 /\ w["sender_name"] = 150
        BY <1>1, <1>5, <2>2, <3>1 DEF LeadBounded, Scores, Sum, One
      <3>2. CASE v["sender_name"] = 150 /\ w["sender_name"] = 300
        BY <1>1, <1>5, <2>2, <3>2 DEF LeadBounded, Scores, Sum, One
      <3>3. CASE v["sender_name"] = 300 /\ w["sender_name"] = 300
        BY <1>1, <1>5, <2>2, <3>3 DEF LeadBounded, Scores, Sum, One
      <3>4. QED
        BY <1>1, <3>1, <3>2, <3>3 DEF LeadBounded
    <2>3. QED
      BY <2>1, <2>2 DEF LeadBounded
  <1>6. QED
    BY <1>2, <1>3, <1>4, <1>5 DEF LeadBounded

\* The engine looks at the claim next to the rows of the feed.
Compared ==
    /\ TypeOK /\ claim \in Claim /\ book \in Books
    /\ receipt = AsReceipt(claim)
    /\ ledger = [t \in Txn |-> SeenBy(claim, book[t])]

LEMMA LevelsAre ==
  ASSUME Compared, NEW t \in Txn, book[t] # None
  PROVE  /\ Level(t, "reference") = ReferenceLevel(claim.reference, book[t].reference)
         /\ Level(t, "amount") =
              IF claim.amount = None THEN "AMT_MISSING"
              ELSE AmountLevel(claim.amount, book[t].amount, policy)
         /\ Level(t, "timestamp") = TimeLevel(claim.timestamp, book[t].at)
         /\ Level(t, "sender_name") = NameLevel(claim.sender_name, book[t].sender_name)
  <1>1. ledger[t] = SeenBy(claim, book[t])
    BY DEF Compared
  <1>2. /\ ledger[t].amount = book[t].amount
        /\ ledger[t].level["reference"] = ReferenceLevel(claim.reference, book[t].reference)
        /\ ledger[t].level["timestamp"] = TimeLevel(claim.timestamp, book[t].at)
        /\ ledger[t].level["sender_name"] = NameLevel(claim.sender_name, book[t].sender_name)
    BY <1>1 DEF SeenBy, Printed, Field
  <1>3. /\ receipt.amount = claim.amount
        /\ \A f \in Printed : f \in receipt.read <=> claim[f] # None
    BY DEF Compared, AsReceipt
  <1>4. Level(t, "reference") = ReferenceLevel(claim.reference, book[t].reference)
    <2>1. "reference" \in Printed /\ "reference" # "amount"
      BY DEF Printed, Field
    <2>2. CASE claim.reference = None
      <3>1. ReferenceLevel(claim.reference, book[t].reference) = "REF_MISSING"
        BY <2>2 DEF ReferenceLevel
      <3>2. QED
        BY <1>3, <2>1, <2>2, <3>1 DEF Level, Missing
    <2>3. CASE claim.reference # None
      BY <1>2, <1>3, <2>1, <2>3 DEF Level
    <2>4. QED
      BY <2>2, <2>3
  <1>5. Level(t, "timestamp") = TimeLevel(claim.timestamp, book[t].at)
    BY <1>2, <1>3 DEF Level, TimeLevel, Missing, Printed, Field
  <1>6. Level(t, "sender_name") = NameLevel(claim.sender_name, book[t].sender_name)
    BY <1>2, <1>3 DEF Level, NameLevel, Missing, Printed, Field
  <1>7. Level(t, "amount") =
              IF claim.amount = None THEN "AMT_MISSING"
              ELSE AmountLevel(claim.amount, book[t].amount, policy)
    BY <1>2, <1>3 DEF Level
  <1>8. QED
    BY <1>4, <1>5, <1>6, <1>7

\* What a rung adds to either side of the aggregate under the shipped weights.
LEMMA ShippedWorth ==
  ASSUME TypeOK, ShippedWeights, NEW t \in Txn, NEW f \in Field
  PROVE  LET w == IF f \in {"reference", "amount"} THEN 5
                  ELSE IF f = "timestamp" THEN 4 ELSE 3
             rung == Ladder[f][Level(t, f)]
         IN /\ Weight(t, f) = w * (IF rung.agreement = "MISSING" THEN 50 ELSE 100)
            /\ Points(t, f) = IF rung.agreement = "MISSING" THEN 0 ELSE w * rung.score
  <1>1. /\ policy.penalty = 50
        /\ policy.weight = [reference |-> 5, amount |-> 5, timestamp |-> 4, sender_name |-> 3]
    BY DEF TypeOK, ShippedWeights
  <1>2. policy.weight[f] = IF f \in {"reference", "amount"} THEN 5
                           ELSE IF f = "timestamp" THEN 4 ELSE 3
    BY <1>1 DEF Field
  <1>3. QED
    BY <1>1, <1>2 DEF Weight, Points, Outcome

\* The aggregate is the quotient of the sums, rounded.
LEMMA ShippedScore ==
  ASSUME TypeOK, ShippedWeights, NEW t \in Txn
  PROVE  Score(t) \in Nat /\ Scores(Score(t), Sum(points(t)), Sum(weights(t)))
  <1> DEFINE num == Sum(points(t))
             den == Sum(weights(t))
  <1>1. \A f \in Field : Points(t, f) \in Nat /\ Weight(t, f) \in Nat
    BY PointsWithinWeight
  <1>2. Weight(t, "reference") > 0
    BY ShippedWorth DEF Field
  <1>3. num \in Nat /\ den \in Nat /\ den > 0
    BY <1>1, <1>2 DEF Sum, points, weights, Field
  <1>4. Score(t) = IF den <= 0 THEN 0 ELSE Rounded(num * One, den)
    BY DEF Score, points, weights, Points
  <1> HIDE DEF num, den
  <1>5. Score(t) = Rounded(num * One, den) /\ num * One \in Nat
    BY <1>3, <1>4 DEF One
  <1>6. Scores(Score(t), num, den) /\ Score(t) \in Nat
    BY <1>3, <1>5, RoundedIs DEF Scores
  <1>7. QED
    BY <1>6 DEF num, den

\* Each field of the claim is what a full reading of the picture has, or is not
\* there.
FromPicture ==
    claim # None =>
      \E c \in FullReadings(picture) : \A f \in Field : claim[f] \in {None, c[f]}

\* A genuine receipt at the moment of comparison, for a payment of the feed.
Genuine(t) ==
    /\ Compared /\ FromPicture /\ ShippedWeights /\ GenuineReceipts
    /\ picture \in Pictures /\ picture.of = t /\ t \in Txn /\ book[t] # None

\* What was read of a genuine receipt resembles its payment.
LEMMA ReadingResembles ==
  ASSUME NEW t \in Txn, Genuine(t)
  PROVE  /\ Resembles(claim, book[t])
         /\ claim.reference # None =>
              \A u \in Txn : (book[u] # None /\ book[u].reference = claim.reference)
                               => book[t].reference = claim.reference
  <1>1. claim # None /\ t # None
    BY EngineAssumption, ClaimIsNotNone DEF Genuine, Compared
  <1>2. PICK c \in FullReadings(picture) : \A f \in Field : claim[f] \in {None, c[f]}
    BY <1>1 DEF Genuine, FromPicture
  <1>3. /\ claim.reference \in {None, c.reference} /\ claim.amount \in {None, c.amount}
        /\ claim.timestamp \in {None, c.timestamp}
        /\ claim.sender_name \in {None, c.sender_name}
    BY <1>2 DEF Field
  <1>4. /\ Resembles(c, book[t])
        /\ c.reference # None =>
             \A u \in Txn : (book[u] # None /\ book[u].reference = c.reference)
                              => book[t].reference = c.reference
    BY <1>1, <1>2 DEF Genuine, Compared, GenuineReceipts
  <1>5. TimeLevel(None, book[t].at) = "TS_MISSING"
    BY DEF TimeLevel
  <1>6. QED
    BY <1>3, <1>4, <1>5 DEF Resembles

\* The reference: the payment has the id, or it has the tail and no row has more
\* than a glyph's likeness.
LEMMA ReferenceLead ==
  ASSUME NEW t \in Txn, NEW u \in Txn, Genuine(t), book[u] # None
  PROVE  LET w == Weight(t, "reference")
             p == Points(t, "reference")
             q == Points(u, "reference")
         IN /\ Weight(u, "reference") = w
            /\ \/ w = 250 /\ q = 0 /\ p = 0
               \/ w = 500 /\ q <= 500 /\ q <= p + 75
            /\ q > 450 =>
                 claim.reference # None /\ book[t].reference = claim.reference
            /\ Level(u, "reference") = "REF_EXACT" => Level(t, "reference") = "REF_EXACT"
  <1> DEFINE lt == Level(t, "reference")
             lu == Level(u, "reference")
  <1>1. /\ lt = ReferenceLevel(claim.reference, book[t].reference)
        /\ lu = ReferenceLevel(claim.reference, book[u].reference)
    BY LevelsAre DEF Genuine
  <1>2. TypeOK /\ ShippedWeights /\ "reference" \in Field
    BY DEF Genuine, Compared, Field
  <1> HIDE DEF lt, lu
  <1>3. /\ Weight(t, "reference") = 5 * (IF Ladder["reference"][lt].agreement = "MISSING" THEN 50 ELSE 100)
        /\ Points(t, "reference") =
             IF Ladder["reference"][lt].agreement = "MISSING" THEN 0 ELSE 5 * Ladder["reference"][lt].score
        /\ Weight(u, "reference") = 5 * (IF Ladder["reference"][lu].agreement = "MISSING" THEN 50 ELSE 100)
        /\ Points(u, "reference") =
             IF Ladder["reference"][lu].agreement = "MISSING" THEN 0 ELSE 5 * Ladder["reference"][lu].score
    BY <1>2, ShippedWorth DEF lt, lu
  <1>4. CASE claim.reference = None
    <2>1. lt = "REF_MISSING" /\ lu = "REF_MISSING"
      BY <1>1, <1>4 DEF ReferenceLevel
    <2>2. QED
      BY <1>3, <2>1 DEF lt, lu, Ladder, Rung
  <1>5. CASE claim.reference # None
    <2>1. lt \in {"REF_EXACT", "REF_SUFFIX"}
      BY <1>1, <1>5, ReadingResembles DEF Resembles
    <2>2. lu = "REF_EXACT" => book[t].reference = claim.reference /\ lt = "REF_EXACT"
      <3>1. lu = "REF_EXACT" => book[u].reference = claim.reference
        BY <1>1, <1>5 DEF ReferenceLevel
      <3>2. book[t].reference = claim.reference => lt = "REF_EXACT"
        BY <1>1, <1>5 DEF ReferenceLevel
      <3>3. QED
        BY <1>5, <3>1, <3>2, ReadingResembles
    <2>3. lu \in {"REF_EXACT", "REF_CONFUSABLE", "REF_SUFFIX", "REF_PARTIAL", "REF_ELSE"}
      BY <1>1, <1>5 DEF ReferenceLevel
    <2>4. /\ Weight(t, "reference") = 500 /\ Weight(u, "reference") = 500
          /\ Points(t, "reference") = IF lt = "REF_EXACT" THEN 500 ELSE 375
      BY <1>3, <2>1, <2>3 DEF Ladder, Rung
    <2>5. /\ lu = "REF_EXACT" => Points(u, "reference") = 500
          /\ lu # "REF_EXACT" => Points(u, "reference") \in 0..450
      BY <1>3, <2>3 DEF Ladder, Rung
    <2>6. QED
      BY <1>5, <2>2, <2>4, <2>5 DEF lt, lu
  <1>6. QED
    BY <1>4, <1>5

LEMMA AmountLead ==
  ASSUME NEW t \in Txn, NEW u \in Txn, Genuine(t), book[u] # None
  PROVE  LET w == Weight(t, "amount")
             p == Points(t, "amount")
             q == Points(u, "amount")
         IN /\ Weight(u, "amount") = w
            /\ \/ w = 250 /\ q = 0 /\ p = 0
               \/ w = 500 /\ q <= p /\ p = 500
            /\ w = 250 <=> claim.amount = None
            /\ claim.amount # None => book[t].amount = claim.amount
  <1> DEFINE lt == Level(t, "amount")
             lu == Level(u, "amount")
  <1>1. /\ lt = IF claim.amount = None THEN "AMT_MISSING"
                ELSE AmountLevel(claim.amount, book[t].amount, policy)
        /\ lu = IF claim.amount = None THEN "AMT_MISSING"
                ELSE AmountLevel(claim.amount, book[u].amount, policy)
    BY LevelsAre DEF Genuine
  <1>2. TypeOK /\ ShippedWeights /\ "amount" \in Field
    BY DEF Genuine, Compared, Field
  <1> HIDE DEF lt, lu
  <1>3. /\ Weight(t, "amount") = 5 * (IF Ladder["amount"][lt].agreement = "MISSING" THEN 50 ELSE 100)
        /\ Points(t, "amount") =
             IF Ladder["amount"][lt].agreement = "MISSING" THEN 0 ELSE 5 * Ladder["amount"][lt].score
        /\ Weight(u, "amount") = 5 * (IF Ladder["amount"][lu].agreement = "MISSING" THEN 50 ELSE 100)
        /\ Points(u, "amount") =
             IF Ladder["amount"][lu].agreement = "MISSING" THEN 0 ELSE 5 * Ladder["amount"][lu].score
    BY <1>2, ShippedWorth DEF lt, lu
  <1>4. CASE claim.amount = None
    BY <1>1, <1>3, <1>4 DEF Ladder, Rung
  <1>5. CASE claim.amount # None
    <2>1. book[t].amount = claim.amount
      BY <1>5, ReadingResembles DEF Resembles
    <2>2. lt = "AMT_EXACT"
      <3>1. claim.amount \in Nat
        BY <1>5 DEF Genuine, Compared, Claim
      <3>2. WithinTolerance(claim.amount, claim.amount, policy)
        BY <1>2, <3>1, PolicyType DEF WithinTolerance
      <3>3. QED
        BY <1>1, <1>5, <2>1, <3>2 DEF AmountLevel
    <2>3. lu \in {"AMT_EXACT", "AMT_TOLERANCE", "AMT_SCALED", "AMT_ELSE"}
      BY <1>1, <1>5 DEF AmountLevel
    <2>4. Weight(t, "amount") = 500 /\ Points(t, "amount") = 500
      BY <1>3, <2>2 DEF Ladder, Rung
    <2>5. Weight(u, "amount") = 500 /\ Points(u, "amount") \in 0..500
      BY <1>3, <2>3 DEF Ladder, Rung
    <2>6. QED
      BY <1>5, <2>1, <2>4, <2>5
  <1>6. QED
    BY <1>4, <1>5

\* The time: a claim that is precise puts its payment on one of the two agreeing
\* rungs; one that is not puts no row above its payment's.
LEMMA TimeLead ==
  ASSUME NEW t \in Txn, NEW u \in Txn, Genuine(t), book[u] # None
  PROVE  LET w == Weight(t, "timestamp")
             p == Points(t, "timestamp")
             q == Points(u, "timestamp")
         IN /\ Weight(u, "timestamp") = w
            /\ \/ w = 200 /\ q = 0 /\ p = 0
               \/ w = 400 /\ q <= 400 /\ q <= p + 60
  <1> DEFINE lt == Level(t, "timestamp")
             lu == Level(u, "timestamp")
  <1>1. /\ lt = TimeLevel(claim.timestamp, book[t].at)
        /\ lu = TimeLevel(claim.timestamp, book[u].at)
    BY LevelsAre DEF Genuine
  <1>2. TypeOK /\ ShippedWeights /\ "timestamp" \in Field
    BY DEF Genuine, Compared, Field
  <1> HIDE DEF lt, lu
  <1>3. /\ Weight(t, "timestamp") = 4 * (IF Ladder["timestamp"][lt].agreement = "MISSING" THEN 50 ELSE 100)
        /\ Points(t, "timestamp") =
             IF Ladder["timestamp"][lt].agreement = "MISSING" THEN 0
             ELSE 4 * Ladder["timestamp"][lt].score
        /\ Weight(u, "timestamp") = 4 * (IF Ladder["timestamp"][lu].agreement = "MISSING" THEN 50 ELSE 100)
        /\ Points(u, "timestamp") =
             IF Ladder["timestamp"][lu].agreement = "MISSING" THEN 0
             ELSE 4 * Ladder["timestamp"][lu].score
    BY <1>2, ShippedWorth DEF lt, lu
  <1>4. CASE claim.timestamp = None
    <2>1. lt = "TS_MISSING" /\ lu = "TS_MISSING"
      BY <1>1, <1>4 DEF TimeLevel
    <2>2. QED
      BY <1>3, <2>1 DEF Ladder, Rung
  <1>5. CASE claim.timestamp # None
    <2>1. /\ lt = TimestampLevel(claim.timestamp, book[t].at)
          /\ lu = TimestampLevel(claim.timestamp, book[u].at)
      BY <1>1, <1>5 DEF TimeLevel
    <2>2. lt \in {"TS_TIGHT", "TS_CLOSE", "TS_DATE_ONLY"}
      <3>1. lt \in {"TS_MISSING", "TS_TIGHT", "TS_CLOSE", "TS_DATE_ONLY"}
        BY <1>1, ReadingResembles DEF Resembles
      <3>2. lt # "TS_MISSING"
        BY <2>1 DEF TimestampLevel
      <3>3. QED
        BY <3>1, <3>2
    <2>3. lu \in {"TS_TIGHT", "TS_CLOSE", "TS_DATE_ONLY", "TS_LOOSE", "TS_HOUR_ART", "TS_ELSE"}
      BY <2>1 DEF TimestampLevel
    <2>4. CASE IsPrecise(claim.timestamp)
      <3>1. lt \in {"TS_TIGHT", "TS_CLOSE"}
        <4>1. lt # "TS_DATE_ONLY"
          BY <2>1, <2>4 DEF TimestampLevel
        <4>2. QED
          BY <2>2, <4>1
      <3>2. Weight(t, "timestamp") = 400 /\ Points(t, "timestamp") \in {340, 400}
        BY <1>3, <3>1 DEF Ladder, Rung
      <3>3. Weight(u, "timestamp") = 400 /\ Points(u, "timestamp") \in 0..400
        BY <1>3, <2>3 DEF Ladder, Rung
      <3>4. QED
        BY <3>2, <3>3
    <2>5. CASE ~IsPrecise(claim.timestamp)
      <3>1. lt = "TS_DATE_ONLY"
        <4>1. lt \notin {"TS_TIGHT", "TS_CLOSE"}
          BY <2>1, <2>5 DEF TimestampLevel
        <4>2. QED
          BY <2>2, <4>1
      <3>2. lu \in {"TS_DATE_ONLY", "TS_LOOSE", "TS_HOUR_ART", "TS_ELSE"}
        <4>1. lu \notin {"TS_TIGHT", "TS_CLOSE"}
          BY <2>1, <2>5 DEF TimestampLevel
        <4>2. QED
          BY <2>3, <4>1
      <3>3. Weight(t, "timestamp") = 400 /\ Points(t, "timestamp") = 240
        BY <1>3, <3>1 DEF Ladder, Rung
      <3>4. Weight(u, "timestamp") = 400 /\ Points(u, "timestamp") \in 0..240
        BY <1>3, <3>2 DEF Ladder, Rung
      <3>5. QED
        BY <3>3, <3>4
    <2>6. QED
      BY <2>4, <2>5
  <1>6. QED
    BY <1>4, <1>5

\* The name: exactly the payment's, or not read; another row may have none.
LEMMA NameLead ==
  ASSUME NEW t \in Txn, NEW u \in Txn, Genuine(t), book[u] # None
  PROVE  LET w == Weight(t, "sender_name")
             v == Weight(u, "sender_name")
             p == Points(t, "sender_name")
             q == Points(u, "sender_name")
         IN \/ w = 150 /\ v = 150 /\ q = 0 /\ p = 0
            \/ w = 300 /\ v = 150 /\ q = 0 /\ p = 300
            \/ w = 300 /\ v = 300 /\ q <= 300 /\ p = 300
  <1> DEFINE lt == Level(t, "sender_name")
             lu == Level(u, "sender_name")
  <1>1. /\ lt = NameLevel(claim.sender_name, book[t].sender_name)
        /\ lu = NameLevel(claim.sender_name, book[u].sender_name)
    BY LevelsAre DEF Genuine
  <1>2. TypeOK /\ ShippedWeights /\ "sender_name" \in Field
    BY DEF Genuine, Compared, Field
  <1>3. lu \in DOMAIN Ladder["sender_name"]
    BY <1>2, LevelType
  <1> HIDE DEF lt, lu
  <1>4. /\ Weight(t, "sender_name") = 3 * (IF Ladder["sender_name"][lt].agreement = "MISSING" THEN 50 ELSE 100)
        /\ Points(t, "sender_name") =
             IF Ladder["sender_name"][lt].agreement = "MISSING" THEN 0
             ELSE 3 * Ladder["sender_name"][lt].score
        /\ Weight(u, "sender_name") = 3 * (IF Ladder["sender_name"][lu].agreement = "MISSING" THEN 50 ELSE 100)
        /\ Points(u, "sender_name") =
             IF Ladder["sender_name"][lu].agreement = "MISSING" THEN 0
             ELSE 3 * Ladder["sender_name"][lu].score
    BY <1>2, ShippedWorth DEF lt, lu
  <1>5. CASE claim.sender_name = None
    <2>1. lt = "NAME_MISSING" /\ lu = "NAME_MISSING"
      BY <1>1, <1>5 DEF NameLevel
    <2>2. QED
      BY <1>4, <2>1 DEF Ladder, Rung
  <1>6. CASE claim.sender_name # None
    <2>1. lt = "NAME_EXACT"
      BY <1>1, <1>6, ReadingResembles DEF Resembles
    <2>2. Weight(t, "sender_name") = 300 /\ Points(t, "sender_name") = 300
      BY <1>4, <2>1 DEF Ladder, Rung
    <2>3. /\ lu = "NAME_MISSING" =>
               Weight(u, "sender_name") = 150 /\ Points(u, "sender_name") = 0
          /\ lu # "NAME_MISSING" =>
               Weight(u, "sender_name") = 300 /\ Points(u, "sender_name") \in 0..300
      BY <1>3, <1>4 DEF Ladder, Rung
    <2>4. QED
      BY <2>2, <2>3
  <1>7. QED
    BY <1>5, <1>6

\* The other candidate's lead over the payment is less than the margin, and it
\* is acceptable without the amount only if the payment's id was read.
LEMMA GenuineLead ==
  ASSUME NEW t \in Txn, NEW u \in Txn, Genuine(t), book[u] # None,
         Score(u) >= 820000
  PROVE  /\ Score(u) - Score(t) < 100000
         /\ claim.amount = None => claim.reference # None /\ book[t].reference = claim.reference
  <1>1. TypeOK /\ ShippedWeights
    BY DEF Genuine, Compared
  <1>2. /\ weights(t) \in [Field -> Nat] /\ points(t) \in [Field -> Nat]
        /\ weights(u) \in [Field -> Nat] /\ points(u) \in [Field -> Nat]
        /\ \A f \in Field :
             /\ weights(t)[f] = Weight(t, f) /\ points(t)[f] = Points(t, f)
             /\ weights(u)[f] = Weight(u, f) /\ points(u)[f] = Points(u, f)
    BY <1>1, PointsWithinWeight DEF weights, points
  <1>3. /\ Score(t) \in Nat /\ Scores(Score(t), Sum(points(t)), Sum(weights(t)))
        /\ Score(u) \in Nat /\ Scores(Score(u), Sum(points(u)), Sum(weights(u)))
    BY <1>1, ShippedScore
  <1>4. LeadBounded(weights(t), points(t), weights(u), points(u))
    <2>1. "reference" \in Field /\ "amount" \in Field /\ "timestamp" \in Field
          /\ "sender_name" \in Field
      BY DEF Field
    <2>2. Points(u, "amount") <= 500
      BY <1>2, <2>1, AmountLead
    <2>3. QED
      BY <1>2, <2>1, <2>2, ReferenceLead, AmountLead, TimeLead, NameLead DEF LeadBounded
  <1>5. /\ Score(u) - Score(t) < 100000
        /\ weights(t)["amount"] = 250 => points(u)["reference"] > 450
    BY <1>2, <1>3, <1>4, LeadIsSmall
  <1>6. QED
    BY <1>2, <1>5, AmountLead, ReferenceLead DEF Field

\* Its own payment is among the candidates.
LEMMA PaymentIsScored ==
  ASSUME NEW t \in Txn, NEW u \in Txn, Genuine(t), book[u] # None, Score(u) >= 820000,
         Search!Retrieved(claim, book, feed), Truncated => IdPointsAt(t)
  PROVE  t \in Candidates
  <1>1. /\ claim \in Claim /\ book \in Books /\ feed \in Seq(Txn) /\ book[t] # None
        /\ policy.maxCandidates \in Nat /\ 1 <= policy.maxCandidates
    BY EngineAssumption DEF Genuine, Compared, TypeOK, Constructible, Policy
  <1>2. CASE Truncated
    <2>1. /\ claim.reference # None /\ book[t].reference = claim.reference
          /\ \A v \in Txn : book[v] # None /\ book[v].reference = claim.reference => v = t
      BY <1>2 DEF IdPointsAt
    <2>2. 1 \in DOMAIN feed /\ feed[1] = t
      BY <1>1, <2>1, PrintedIdComesFirst
    <2>3. QED
      BY <1>1, <2>2 DEF Candidates
  <1>3. CASE ~Truncated
    <2>1. \E g \in Search!Group : Search!FoundBy(g, claim, book[t])
      <3>1. CASE claim.amount # None
        <4>1. book[t].amount = claim.amount
          BY <3>1, AmountLead
        <4>2. Search!FoundBy(5, claim, book[t])
          BY <3>1, <4>1 DEF Search!FoundBy
        <4>3. QED
          BY <4>2 DEF Search!Group
      <3>2. CASE claim.amount = None
        <4>1. Search!FoundBy(1, claim, book[t])
          BY <3>2, GenuineLead, FirstKey
        <4>2. QED
          BY <4>1 DEF Search!Group
      <3>3. QED
        BY <3>1, <3>2
    <2>2. t \in Search!Retrievable(claim, book)
      BY <1>1, <2>1 DEF Search!Retrievable
    <2>3. PICK i \in DOMAIN feed : feed[i] = t
      <3>1. t \in {feed[k] : k \in DOMAIN feed}
        BY <2>2 DEF Search!Retrieved
      <3>2. QED
        BY <3>1
    <2>4. i <= policy.maxCandidates
      <3>1. Len(feed) \in Nat /\ DOMAIN feed = 1..Len(feed)
        BY <1>1
      <3>2. Len(feed) <= policy.maxCandidates
        BY <1>1, <1>3, <3>1 DEF Truncated
      <3>3. QED
        BY <1>1, <2>3, <3>1, <3>2
    <2>5. QED
      BY <2>3, <2>4 DEF Candidates
  <1>4. QED
    BY <1>2, <1>3

\* What is retrieved is in the feed.
LEMMA CandidatesAreRows ==
  ASSUME Search!Retrieved(claim, book, feed), NEW u \in Candidates
  PROVE  book[u] # None
  <1>1. u \in {feed[i] : i \in DOMAIN feed}
    BY DEF Candidates
  <1>2. QED
    BY <1>1 DEF Search!Retrieved, Search!Retrievable

\* No other candidate stands alone beside the payment of a genuine receipt.
LEMMA RivalNeverStandsAlone ==
  ASSUME NEW t \in Txn, NEW u \in Candidates, Genuine(t), Score(u) >= policy.accept,
         StandsAlone(u), Search!Retrieved(claim, book, feed), Truncated => IdPointsAt(t)
  PROVE  u = t
  <1> SUFFICES ASSUME u # t
               PROVE  FALSE
    OBVIOUS
  <1>1. /\ policy.accept \in Nat /\ policy.accept >= 820000
        /\ policy.margin \in Nat /\ policy.margin >= 100000
    BY PolicyType DEF Genuine, Compared, TypeOK, ShippedWeights
  <1>2. u \in Txn /\ book[u] # None
    BY CandidatesAreRows, CandidatesType DEF Genuine, Compared
  <1>3. Score(t) \in Nat /\ Score(u) \in Nat
    BY <1>2, ScoreType DEF Genuine, Compared
  <1>4. Score(u) >= 820000
    BY <1>1, <1>3
  <1>5. t \in Candidates
    BY <1>2, <1>4, PaymentIsScored
  <1>6. CASE Score(u) - Score(t) >= policy.margin
    <2>1. Score(u) - Score(t) < 100000
      BY <1>2, <1>4, GenuineLead
    <2>2. QED
      BY <1>1, <1>3, <1>6, <2>1
  <1>7. CASE {v \in Candidates : Level(v, "reference") = "REF_EXACT"} = {u}
    <2>1. Level(u, "reference") = "REF_EXACT"
      BY <1>7
    <2>2. Level(t, "reference") = "REF_EXACT"
      BY <1>2, <2>1, ReferenceLead
    <2>3. QED
      BY <1>5, <1>7, <2>2
  <1>8. QED
    BY <1>5, <1>6, <1>7 DEF StandsAlone

-----------------------------------------------------------------------------
(***************************************************************************)
(* The invariant behind it.                                                *)
(***************************************************************************)
\* What is being compared, and what an answer is about, is the claim next to the
\* rows of the feed, in the order in which they were retrieved.
RowsCompared ==
    (phase = "retrieved" \/ answer # None) =>
        /\ ledger = [t \in Txn |-> SeenBy(claim, book[t])]
        /\ Search!Retrieved(claim, book, feed)

\* What made an answer a verification still does: its inputs stand until the
\* next submission, whatever is approved in between.
VerdictStands ==
    (answer # None /\ answer.status = "VERIFIED") =>
        /\ answer.txn \in Candidates
        /\ Score(answer.txn) >= policy.accept
        /\ StandsAlone(answer.txn)

GenuineInv == PipelineInv /\ FromPicture /\ RowsCompared /\ VerdictStands

\* What the verdict rests on is not the history.
LEMMA ComparisonStands ==
  ASSUME UNCHANGED <<policy, receipt, ledger, feed>>
  PROVE  /\ Candidates' = Candidates
         /\ \A t \in Candidates : Score(t)' = Score(t) /\ StandsAlone(t)' = StandsAlone(t)
  <1>1. Candidates' = Candidates
    BY DEF Candidates
  <1>2. ASSUME NEW t
        PROVE  /\ \A f : Level(t, f)' = Level(t, f)
               /\ Score(t)' = Score(t)
    <2>1. \A f : Level(t, f)' = Level(t, f)
      BY DEF Level
    <2>2. \A f : Outcome(t, f)' = Outcome(t, f) /\ Weight(t, f)' = Weight(t, f)
      BY <2>1 DEF Outcome, Weight
    <2>3. Score(t)' = Score(t)
      BY <2>2 DEF Score
    <2>4. QED
      BY <2>1, <2>3
  <1>3. ASSUME NEW t \in Candidates
        PROVE  StandsAlone(t)' = StandsAlone(t)
    <2>1. \A u \in Candidates : Score(u)' = Score(u) /\ Level(u, "reference")' = Level(u, "reference")
      BY <1>2
    <2>2. Score(t)' = Score(t)
      BY <1>2
    <2>3. QED
      BY <1>1, <2>1, <2>2 DEF StandsAlone
  <1>4. QED
    BY <1>1, <1>2, <1>3

LEMMA GenuineStart == PipelineInit => GenuineInv
  BY PipelineStart DEF PipelineInit, GenuineInv, FromPicture, RowsCompared, VerdictStands

\* A field of what was read is the field of a full reading, or nothing.
LEMMA CloudReadsPicture ==
  ASSUME NEW p \in Pictures, NEW manner \in Manner, NEW words, NEW receiver, NEW f \in Field
  PROVE  CloudClaim(TextsRead(p, manner), words, receiver)[f]
           \in {None, CloudClaim(p.shows, {}, p.receiver_name)[f]}
  <1> DEFINE text == TextsRead(p, manner)[f]
  <1>1. text # None => /\ p.shows[f] # None /\ text.value = p.shows[f].value
                       /\ text.parses => text = p.shows[f] /\ p.shows[f].parses
    BY TextIs
  <1>2. /\ Verbatim(text) \in {None, Verbatim(p.shows[f])}
        /\ Parsed(text) \in {None, Parsed(p.shows[f])}
    <2> HIDE DEF text
    <2> QED
      BY <1>1 DEF Verbatim, Parsed
  <1>3. CloudInstant(None) = None
    BY DEF CloudInstant
  <1>4. CASE f = "reference"
    BY <1>2, <1>4 DEF CloudClaim
  <1>5. CASE f = "amount"
    BY <1>2, <1>5 DEF CloudClaim
  <1>6. CASE f = "timestamp"
    BY <1>2, <1>3, <1>6 DEF CloudClaim
  <1>7. CASE f = "sender_name"
    BY <1>2, <1>7 DEF CloudClaim
  <1>8. QED
    BY <1>4, <1>5, <1>6, <1>7 DEF Field

LEMMA FromPictureStep ==
  ASSUME PipelineInv, FromPicture, [PipelineNext]_pipelineVars
  PROVE  FromPicture'
  <1>1. picture' = picture /\ picture \in Pictures
    BY DEF PipelineInv, PipelineTypeOK, PipelineNext, pipelineVars, deployment, Submit, ReaderStep,
           ReaderOnly, Answers, Fails, TimesOut, Refuses, Breaks, ReadsFixture, Retrieve, Answered,
           Use, UsedElsewhere
  <1>2. CASE claim' = claim
    BY <1>1, <1>2 DEF FromPicture, FullReadings
  <1>3. CASE claim' = None
    BY <1>3 DEF FromPicture
  <1>4. ASSUME NEW manner \in Manner, NEW words, NEW receiver,
               Answers(TextsRead(picture, manner), words, receiver)
        PROVE  FromPicture'
    <2>1. claim' = CloudClaim(TextsRead(picture, manner), words, receiver)
      BY <1>4 DEF Answers
    <2>2. \A f \in Field : claim'[f] \in {None, CloudClaim(picture.shows, {}, picture.receiver_name)[f]}
      BY <1>1, <2>1, CloudReadsPicture
    <2>3. QED
      BY <1>1, <2>2 DEF FromPicture, FullReadings
  <1>5. CASE claim' \in Nothing
    <2>1. \A f \in Field : claim'[f] = None
      BY <1>5 DEF Nothing, Empty, Field
    <2>2. QED
      BY <1>1, <2>1 DEF FromPicture, FullReadings
  <1>6. CASE claim' = FixtureClaim(picture.shows, picture.receiver_name)
    BY <1>1, <1>6 DEF FromPicture, FullReadings
  <1>7. CASE ReaderStep
    <2>1. \A kind : Fails(kind) => claim' \in Nothing
      BY DEF Fails, Nothing
    <2>2. Refuses => claim' \in Nothing
      BY DEF Refuses, Unread, Nothing
    <2>3. Breaks => claim' = None
      BY DEF Breaks, EndUnanswered
    <2>4. ReadsFixture => claim' \in {None, FixtureClaim(picture.shows, picture.receiver_name)}
      BY DEF ReadsFixture, EndUnanswered
    <2>5. QED
      BY <1>3, <1>4, <1>5, <1>6, <1>7, <2>1, <2>2, <2>3, <2>4 DEF ReaderStep, TimesOut
  <1>8. Submit => claim' = None
    BY DEF Submit, EndUnanswered
  <1>9. Retrieve \/ Answered \/ Use \/ (\E t \in Txn, o \in Order \ {ThisOrder} : UsedElsewhere(t, o))
          \/ UNCHANGED pipelineVars => claim' = claim
    BY DEF Retrieve, Answered, Use, UsedElsewhere, pipelineVars
  <1>10. QED
    BY <1>2, <1>3, <1>7, <1>8, <1>9 DEF PipelineNext

LEMMA RowsAndVerdictStep ==
  ASSUME PipelineInv, RowsCompared, VerdictStands, [PipelineNext]_pipelineVars
  PROVE  RowsCompared' /\ VerdictStands'
  <1>1. CASE Retrieve
    <2>1. /\ ledger' = [t \in Txn |-> SeenBy(claim, book[t])] /\ claim' = claim /\ book' = book
          /\ Search!Retrieved(claim, book, feed') /\ answer' = answer /\ phase = "read"
      BY <1>1 DEF Retrieve, deployment
    <2>2. RowsCompared'
      BY <2>1 DEF RowsCompared
    <2>3. answer' = None
      BY <2>1 DEF PipelineInv, PipelineTypeOK
    <2>4. QED
      BY <2>2, <2>3 DEF VerdictStands
  <1>2. CASE Answered
    <2>1. /\ phase = "retrieved" /\ answer' = Decide
          /\ UNCHANGED <<policy, expected, receipt, ledger, feed, claim, book>>
      BY <1>2 DEF Answered, Check, inputs
    <2>2. RowsCompared'
      BY <2>1 DEF RowsCompared
    <2>3. VerdictStands'
      <3>1. PICK a : a = Decide
        OBVIOUS
      <3>2. TypeOK
        BY DEF PipelineInv, PipelineTypeOK
      <3>3. a.status = "VERIFIED" =>
              a.txn \in Candidates /\ Score(a.txn) >= policy.accept /\ StandsAlone(a.txn)
        BY <3>1, <3>2, DecideIsSafe DEF SafeToRelease
      <3>4. answer' = a /\ policy' = policy
        BY <2>1, <3>1
      <3>5. a.status = "VERIFIED" =>
              a.txn \in Candidates' /\ Score(a.txn)' >= policy.accept /\ StandsAlone(a.txn)'
        BY <2>1, <3>3, ComparisonStands
      <3>6. QED
        BY <3>4, <3>5 DEF VerdictStands
    <2>4. QED
      BY <2>2, <2>3
  <1>3. CASE UNCHANGED <<policy, receipt, ledger, feed, book, claim, answer, phase>>
    <2>1. RowsCompared'
      BY <1>3 DEF RowsCompared
    <2>2. VerdictStands'
      <3>1. PICK a : a = answer
        OBVIOUS
      <3>2. (a # None /\ a.status = "VERIFIED") =>
              a.txn \in Candidates /\ Score(a.txn) >= policy.accept /\ StandsAlone(a.txn)
        BY <3>1 DEF VerdictStands
      <3>3. answer' = a /\ policy' = policy
        BY <1>3, <3>1
      <3>4. (a # None /\ a.status = "VERIFIED") =>
              a.txn \in Candidates' /\ Score(a.txn)' >= policy.accept /\ StandsAlone(a.txn)'
        BY <1>3, <3>2, ComparisonStands
      <3>5. QED
        BY <3>3, <3>4 DEF VerdictStands
    <2>3. QED
      BY <2>1, <2>2
  <1>4. CASE phase' # "retrieved" /\ answer' = None
    BY <1>4 DEF RowsCompared, VerdictStands
  <1>5. Submit => phase' # "retrieved" /\ answer' = None
    BY DEF Submit, EndUnanswered
  <1>6. ReaderStep => phase' # "retrieved" /\ answer' = None
    <2>1. ReaderStep => phase = "reading" /\ phase' # "retrieved" /\ answer' = answer
      BY DEF ReaderStep, ReaderOnly, EndUnanswered, Answers, Fails, TimesOut, Refuses, Breaks,
             ReadsFixture
    <2>2. phase = "reading" => answer = None
      BY DEF PipelineInv, PipelineTypeOK
    <2>3. QED
      BY <2>1, <2>2
  <1>7. Use \/ (\E t \in Txn, o \in Order \ {ThisOrder} : UsedElsewhere(t, o))
          \/ UNCHANGED pipelineVars =>
            UNCHANGED <<policy, receipt, ledger, feed, book, claim, answer, phase>>
    BY DEF Use, UsedElsewhere, pipelineVars, vars, deployment, engineInputs
  <1>8. QED
    BY <1>1, <1>2, <1>3, <1>4, <1>5, <1>6, <1>7 DEF PipelineNext

LEMMA GenuineStep ==
  ASSUME GenuineInv, [PipelineNext]_pipelineVars
  PROVE  GenuineInv'
  BY PipelineStep, FromPictureStep, RowsAndVerdictStep DEF GenuineInv

\* GenuineReceiptNamesItsPayment, of any feed, any reading and any number of
\* rivals: under policies that weigh the fields as the shipped one does and are
\* at least as demanding, a receipt that says of its payment what the feed says
\* is never taken for another payment, whatever else the feed holds.
THEOREM GenuineReceiptsNameTheirPayment ==
  ASSUME ShippedWeights, GenuineReceipts
  PROVE  PipelineSpec => []GenuineReceiptNamesItsPayment
  <1>1. GenuineInv => GenuineReceiptNamesItsPayment
    <2> SUFFICES ASSUME GenuineInv, answer # None, answer.status = "VERIFIED",
                        picture.of # None, book[picture.of] # None,
                        Truncated => IdPointsAt(picture.of)
                 PROVE  answer.txn = picture.of
      BY DEF GenuineReceiptNamesItsPayment
    <2>1. /\ TypeOK /\ book \in Books /\ picture \in Pictures /\ claim \in Claim
          /\ receipt = AsReceipt(claim)
      BY DEF GenuineInv, PipelineInv, PipelineTypeOK
    <2>2. picture.of \in Txn
      BY <2>1, PipelineAssumption DEF Picture
    <2>3. ledger = [t \in Txn |-> SeenBy(claim, book[t])] /\ Search!Retrieved(claim, book, feed)
      BY DEF GenuineInv, RowsCompared
    <2>4. Genuine(picture.of)
      BY <2>1, <2>2, <2>3 DEF Genuine, Compared, GenuineInv
    <2>5. /\ answer.txn \in Candidates /\ Score(answer.txn) >= policy.accept
          /\ StandsAlone(answer.txn)
      BY DEF GenuineInv, VerdictStands
    <2>6. QED
      BY <2>2, <2>3, <2>4, <2>5, RivalNeverStandsAlone
  <1>2. QED
    BY <1>1, GenuineStart, GenuineStep, PTL DEF PipelineSpec

-----------------------------------------------------------------------------
(***************************************************************************)
(* The search is a function of the claim and the feed.                     *)
(***************************************************************************)
\* Within the transactions found, what the cap keeps first is a strict linear
\* order: the id breaks every tie.
LEMMA BeforeIsLinear ==
  ASSUME NEW c \in Claim, NEW b \in Books
  PROVE  LET found == Search!Retrievable(c, b)
         IN /\ \A t \in found : ~Search!Before(c, b, t, t)
            /\ \A t, u, v \in found : Search!Before(c, b, t, u) /\ Search!Before(c, b, u, v)
                                        => Search!Before(c, b, t, v)
            /\ \A t, u \in found : t # u => Search!Before(c, b, t, u) \/ Search!Before(c, b, u, t)
  <1> DEFINE found == Search!Retrievable(c, b)
             group(x) == Search!GroupOf(c, b[x])
             near(x) == Search!Apart(b[x].at, Search!Centre(c))
  <1>1. ASSUME NEW t \in found
        PROVE  t \in Nat /\ group(t) \in Nat /\ near(t) \in Nat
    <2>1. t \in Txn /\ b[t] # None
      BY DEF Search!Retrievable
    <2>2. group(t) \in Search!Group
      <3>1. PICK h \in Search!Group : Search!FoundBy(h, c, b[t])
        BY DEF Search!Retrievable
      <3>2. QED
        BY <3>1, GroupIsLeast
    <2>3. near(t) \in Nat
      <3>1. b[t].at \in Int /\ Search!Centre(c) \in Int
        BY <2>1, PipelineAssumption DEF Row, Claim, ClaimedInstant, Search!Centre
      <3>2. QED
        BY <3>1 DEF Search!Apart
    <2>4. QED
      BY <2>1, <2>2, <2>3, EngineAssumption DEF Search!Group
  <1>2. \A t, u : Search!Before(c, b, t, u) <=>
          \/ group(t) < group(u)
          \/ group(t) = group(u) /\ near(t) < near(u)
          \/ group(t) = group(u) /\ near(t) = near(u) /\ t < u
    BY DEF Search!Before
  <1> HIDE DEF found, group, near
  <1>3. \A t \in found : ~Search!Before(c, b, t, t)
    BY <1>1, <1>2
  <1>4. \A t, u, v \in found : Search!Before(c, b, t, u) /\ Search!Before(c, b, u, v)
                                 => Search!Before(c, b, t, v)
    BY <1>1, <1>2
  <1>5. \A t, u \in found : t # u => Search!Before(c, b, t, u) \/ Search!Before(c, b, u, t)
    BY <1>1, <1>2
  <1>6. QED
    BY <1>3, <1>4, <1>5 DEF found

\* Is s the transactions of S, each once, in the order the cap keeps them?
Ordered(c, b, S, s) ==
    /\ s \in Seq(Txn)
    /\ {s[i] : i \in DOMAIN s} = S
    /\ \A i, j \in DOMAIN s : i < j => Search!Before(c, b, s[i], s[j])

\* Every set of transactions found has such a sequence.
LEMMA OrderedExists ==
  ASSUME NEW c \in Claim, NEW b \in Books, NEW S \in SUBSET Search!Retrievable(c, b)
  PROVE  \E s : Ordered(c, b, S, s)
  <1> DEFINE found == Search!Retrievable(c, b)
             Bad == {T \in SUBSET found : ~\E s : Ordered(c, b, T, s)}
  <1>1. IsFiniteSet(found) /\ found \subseteq Txn
    BY PipelineAssumption, FS_Subset DEF Search!Retrievable
  <1>2. SUFFICES ASSUME Bad # {}
                 PROVE  FALSE
    OBVIOUS
  <1>3. PICK T \in Bad : \A U \in Bad : <<U, T>> \notin StrictSubsetOrdering(found)
    <2>1. IsWellFoundedOn(StrictSubsetOrdering(found), SUBSET found)
      <3>1. FiniteSubsetsOf(found) = SUBSET found
        BY <1>1, FS_FiniteSubsetsOfFinite
      <3>2. QED
        BY <3>1, FS_StrictSubsetOrderingWellFounded
    <2>2. Bad \subseteq SUBSET found
      OBVIOUS
    <2> HIDE DEF Bad, found
    <2>3. QED
      BY <1>2, <2>1, <2>2, WFMin
  <1>4. T # {}
    <2>1. Ordered(c, b, {}, << >>)
      BY DEF Ordered
    <2>2. QED
      BY <2>1
  <1>5. PICK m \in T : \A x \in T : ~Search!Before(c, b, m, x)
    <2> DEFINE R == {xy \in T \X T : Search!Before(c, b, xy[2], xy[1])}
    <2>1. IsFiniteSet(T) /\ T \subseteq found
      BY <1>1, FS_Subset
    <2>2. \A x \in T : <<x, x>> \notin R
      BY <2>1, BeforeIsLinear
    <2>3. \A x, y, z \in T : <<x, y>> \in R /\ <<y, z>> \in R => <<x, z>> \in R
      BY <2>1, BeforeIsLinear
    <2>4. PICK m \in T : \A x \in T : <<x, m>> \notin R
      <3> HIDE DEF R
      <3> QED
        BY <1>4, <2>1, <2>2, <2>3, TopExists
    <2>5. QED
      BY <2>4
  <1>6. \A x \in T \ {m} : Search!Before(c, b, x, m)
    BY <1>5, BeforeIsLinear
  <1>7. PICK s : Ordered(c, b, T \ {m}, s)
    <2>1. <<T \ {m}, T>> \in StrictSubsetOrdering(found)
      BY DEF StrictSubsetOrdering
    <2>2. T \ {m} \notin Bad
      BY <1>3, <2>1
    <2>3. QED
      BY <2>2
  <1>8. Ordered(c, b, T, Append(s, m))
    <2> DEFINE r == Append(s, m)
    <2>1. /\ s \in Seq(Txn) /\ m \in Txn
          /\ r \in Seq(Txn) /\ Len(r) = Len(s) + 1 /\ Len(s) \in Nat
          /\ DOMAIN s = 1..Len(s) /\ DOMAIN r = 1..(Len(s) + 1)
          /\ r[Len(s) + 1] = m /\ \A i \in 1..Len(s) : r[i] = s[i]
      BY <1>1, <1>7 DEF Ordered
    <2> HIDE DEF r
    <2>2. \A i \in DOMAIN s : s[i] \in T \ {m}
      BY <1>7 DEF Ordered
    <2>3. {r[i] : i \in DOMAIN r} = T
      <3>1. \A i \in DOMAIN r : r[i] \in T
        <4>1. \A i \in DOMAIN r : i \in DOMAIN s \/ i = Len(s) + 1
          BY <2>1
        <4>2. QED
          BY <2>1, <2>2, <4>1
      <3>2. ASSUME NEW x \in T
            PROVE  \E i \in DOMAIN r : r[i] = x
        <4>1. CASE x = m
          BY <2>1, <4>1
        <4>2. CASE x # m
          <5>1. x \in {s[i] : i \in DOMAIN s}
            BY <1>7, <4>2 DEF Ordered
          <5>2. QED
            BY <2>1, <5>1
        <4>3. QED
          BY <4>1, <4>2
      <3>3. QED
        BY <3>1, <3>2
    <2>4. ASSUME NEW i \in DOMAIN r, NEW j \in DOMAIN r, i < j
          PROVE  Search!Before(c, b, r[i], r[j])
      <3>1. i \in DOMAIN s /\ r[i] = s[i]
        BY <2>1, <2>4
      <3>2. CASE j \in DOMAIN s
        BY <1>7, <2>1, <2>4, <3>1, <3>2 DEF Ordered
      <3>3. CASE j = Len(s) + 1
        BY <1>6, <2>1, <2>2, <3>1, <3>3
      <3>4. QED
        BY <2>1, <3>2, <3>3
    <2>5. QED
      BY <2>1, <2>3, <2>4 DEF Ordered, r
  <1>9. QED
    BY <1>8

\* And only one.
LEMMA OrderedUnique ==
  ASSUME NEW c \in Claim, NEW b \in Books, NEW S \in SUBSET Search!Retrievable(c, b),
         NEW s, NEW r, Ordered(c, b, S, s), Ordered(c, b, S, r)
  PROVE  s = r
  <1>1. /\ s \in Seq(Txn) /\ Len(s) \in Nat /\ DOMAIN s = 1..Len(s)
        /\ r \in Seq(Txn) /\ Len(r) \in Nat /\ DOMAIN r = 1..Len(r)
    BY DEF Ordered
  <1>2. /\ \A i \in DOMAIN s : s[i] \in S /\ \E j \in DOMAIN r : r[j] = s[i]
        /\ \A i \in DOMAIN r : r[i] \in S /\ \E j \in DOMAIN s : s[j] = r[i]
    <2>1. {s[i] : i \in DOMAIN s} = S /\ {r[i] : i \in DOMAIN r} = S
      BY DEF Ordered
    <2>2. QED
      BY <2>1
  <1>3. /\ \A i, j \in DOMAIN s : i < j => Search!Before(c, b, s[i], s[j])
        /\ \A i, j \in DOMAIN r : i < j => Search!Before(c, b, r[i], r[j])
    BY DEF Ordered
  <1>4. /\ \A x \in S : ~Search!Before(c, b, x, x)
        /\ \A x, y \in S : ~(Search!Before(c, b, x, y) /\ Search!Before(c, b, y, x))
    BY BeforeIsLinear
  <1> DEFINE D == {i \in Nat : i \in DOMAIN s /\ i \in DOMAIN r /\ s[i] # r[i]}
  <1>5. D = {}
    <2>1. SUFFICES ASSUME D # {}
                   PROVE  FALSE
      OBVIOUS
    <2>2. PICK k \in D : \A i \in D : ~(i < k)
      <3>1. PICK k \in D : \A i \in D : <<i, k>> \notin OpToRel(<, Nat)
        <4> HIDE DEF D
        <4>1. D \subseteq Nat
          BY DEF D
        <4>2. QED
          BY <2>1, <4>1, NatLessThanWellFounded, WFMin
      <3>2. \A i \in D : i < k => <<i, k>> \in OpToRel(<, Nat)
        BY DEF OpToRel
      <3>3. QED
        BY <3>1, <3>2
    <2>3. k \in DOMAIN s /\ k \in DOMAIN r /\ s[k] # r[k] /\ k \in Nat
      BY <2>2
    <2>4. \A i \in 1..(k - 1) : i \in DOMAIN s /\ i \in DOMAIN r /\ s[i] = r[i]
      <3>1. \A i \in 1..(k - 1) : i \in DOMAIN s /\ i \in DOMAIN r /\ i \in Nat /\ i < k
        BY <1>1, <2>3
      <3>2. QED
        BY <2>2, <3>1
    <2>5. PICK j \in DOMAIN r : r[j] = s[k]
      BY <1>2, <2>3
    <2>6. PICK l \in DOMAIN s : s[l] = r[k]
      BY <1>2, <2>3
    <2>7. j > k
      <3>1. CASE j < k
        <4>1. j \in 1..(k - 1) /\ s[j] = s[k] /\ j \in DOMAIN s
          BY <1>1, <2>3, <2>4, <2>5, <3>1
        <4>2. Search!Before(c, b, s[j], s[k])
          BY <1>3, <2>3, <3>1, <4>1
        <4>3. QED
          BY <1>2, <1>4, <2>3, <4>1, <4>2
      <3>2. j # k
        BY <2>3, <2>5
      <3>3. QED
        BY <1>1, <2>3, <2>5, <3>1, <3>2
    <2>8. l > k
      <3>1. CASE l < k
        <4>1. l \in 1..(k - 1) /\ r[l] = r[k] /\ l \in DOMAIN r
          BY <1>1, <2>3, <2>4, <2>6, <3>1
        <4>2. Search!Before(c, b, r[l], r[k])
          BY <1>3, <2>3, <3>1, <4>1
        <4>3. QED
          BY <1>2, <1>4, <2>3, <4>1, <4>2
      <3>2. l # k
        BY <2>3, <2>6
      <3>3. QED
        BY <1>1, <2>3, <2>6, <3>1, <3>2
    <2>9. Search!Before(c, b, s[k], r[k]) /\ Search!Before(c, b, r[k], s[k])
      BY <1>3, <2>3, <2>5, <2>6, <2>7, <2>8
    <2>10. QED
      BY <1>2, <1>4, <2>3, <2>9
  <1>6. \A i \in Nat : i \in DOMAIN s /\ i \in DOMAIN r => s[i] = r[i]
    BY <1>5
  <1>7. ~(Len(s) < Len(r))
    <2> SUFFICES ASSUME Len(s) < Len(r)
                 PROVE  FALSE
      OBVIOUS
    <2>1. Len(r) \in DOMAIN r
      BY <1>1
    <2>2. PICK j \in DOMAIN s : s[j] = r[Len(r)]
      BY <1>2, <2>1
    <2>3. j \in DOMAIN r /\ j < Len(r) /\ r[j] = r[Len(r)]
      BY <1>1, <1>6, <2>2
    <2>4. QED
      BY <1>2, <1>3, <1>4, <2>1, <2>3
  <1>8. ~(Len(r) < Len(s))
    <2> SUFFICES ASSUME Len(r) < Len(s)
                 PROVE  FALSE
      OBVIOUS
    <2>1. Len(s) \in DOMAIN s
      BY <1>1
    <2>2. PICK j \in DOMAIN r : r[j] = s[Len(s)]
      BY <1>2, <2>1
    <2>3. j \in DOMAIN s /\ j < Len(s) /\ s[j] = s[Len(s)]
      BY <1>1, <1>6, <2>2
    <2>4. QED
      BY <1>2, <1>3, <1>4, <2>1, <2>3
  <1>9. Len(s) = Len(r)
    <2>1. Len(s) \in Nat /\ Len(r) \in Nat
      BY <1>1
    <2>2. QED
      BY <1>7, <1>8, <2>1
  <1>10. \A i \in DOMAIN s : s[i] = r[i]
    <2>1. DOMAIN s = DOMAIN r
      BY <1>1, <1>9
    <2>2. QED
      BY <1>1, <1>6, <2>1
  <1>11. QED
    BY <1>1, <1>9, <1>10

\* It is no longer than there are transactions.
LEMMA OrderedIsAFeed ==
  ASSUME NEW c \in Claim, NEW b \in Books, NEW S \in SUBSET Search!Retrievable(c, b),
         NEW s, Ordered(c, b, S, s)
  PROVE  s \in Feeds
  <1>1. s \in Seq(Txn) /\ Len(s) \in Nat /\ DOMAIN s = 1..Len(s)
    BY DEF Ordered
  <1>2. S \subseteq Txn /\ IsFiniteSet(S) /\ IsFiniteSet(Txn)
    BY PipelineAssumption, FS_Subset DEF Search!Retrievable
  <1>3. s \in Bijection(1..Len(s), S)
    <2>1. s \in Surjection(1..Len(s), S)
      BY <1>1 DEF Ordered, Surjection
    <2>2. ASSUME NEW i \in 1..Len(s), NEW j \in 1..Len(s), s[i] = s[j]
          PROVE  i = j
      <3>1. s[i] \in Search!Retrievable(c, b)
        BY <1>1 DEF Ordered
      <3>2. ~Search!Before(c, b, s[i], s[j])
        BY <2>2, <3>1, BeforeIsLinear
      <3>3. ~Search!Before(c, b, s[j], s[i])
        BY <2>2, <3>1, BeforeIsLinear
      <3>4. ~(i < j) /\ ~(j < i)
        BY <1>1, <3>2, <3>3 DEF Ordered
      <3>5. QED
        BY <3>4
    <2>3. QED
      BY <2>1, <2>2 DEF Bijection, Injection, Surjection, IsInjective
  <1>4. Cardinality(S) = Len(s)
    BY <1>1, <1>3, FS_CountingElements DEF ExistsBijection
  <1>5. Len(s) <= Cardinality(Txn) /\ Cardinality(Txn) \in Nat
    BY <1>2, <1>4, FS_Subset, FS_CardinalityType
  <1>6. Len(s) \in 0..Cardinality(Txn) /\ s \in [1..Len(s) -> Txn]
    BY <1>1, <1>5
  <1>7. QED
    BY <1>6, PipelineAssumption

\* Whatever was read and whatever the feed holds, the search has one outcome and
\* only one: the clocks and the group of a key order the transactions, and the
\* ids break what is left, so that no order of the rows in the database can
\* change which the cap lets through (retrieval.py, order_key).  Retrieve, whose
\* guard asks for such a feed, is never in the way of an answer.
THEOREM RetrievalIsAFunction ==
  ASSUME NEW c \in Claim, NEW b \in Books
  PROVE  \E s \in Feeds : /\ Search!Retrieved(c, b, s)
                          /\ \A r \in Feeds : Search!Retrieved(c, b, r) => r = s
  <1> DEFINE found == Search!Retrievable(c, b)
  <1>1. \A s \in Feeds : Search!Retrieved(c, b, s) <=> Ordered(c, b, found, s)
    BY EngineAssumption DEF Search!Retrieved, Ordered
  <1>2. PICK s : Ordered(c, b, found, s)
    BY OrderedExists
  <1>3. s \in Feeds
    BY <1>2, OrderedIsAFeed
  <1>4. ASSUME NEW r \in Feeds, Search!Retrieved(c, b, r)
        PROVE  r = s
    BY <1>1, <1>2, <1>4, OrderedUnique
  <1>5. QED
    BY <1>1, <1>2, <1>3, <1>4
=============================================================================
