------------------------------- MODULE Pipeline -------------------------------
(***************************************************************************)
(* From a screenshot to a verdict: extraction/ and its caller in           *)
(* api/verification_service.py read a picture into a claim, core/          *)
(* retrieval.py finds transactions, DecisionEngine decides, the result     *)
(* screen shows it.  The reader is a cloud model that reads, mangles or    *)
(* omits each field, refuses, fails or stays silent; without a key it is   *)
(* the manifest of the demo fixtures.                                      *)
(*                                                                         *)
(* A printed text is a value and whether the parsers of extraction/        *)
(* normalize.py make something of it.  Of a text that is misread as        *)
(* another valid one the model knows only what it knows of a picture that  *)
(* prints the other one.                                                   *)
(***************************************************************************)
EXTENDS DecisionEngine, ClaimedTime, FiniteSets

CONSTANTS
    Modes,          \* how the deployment may be configured
    Pictures,       \* pictures someone may submit: do they open, are they demo
                    \* fixtures, what do they print in each field, and for which
                    \* transaction were they issued
    Books,          \* what the merchant's feed may hold
    NameRung,       \* the rung of the name ladder two names reach
    NameKeys,       \* the phonetic keys of each name's rarest tokens
    LongTails,      \* reference tails of six characters and more
    Anchor,         \* the instant the service decides at
    TimeWindow      \* policy.time_window_s

Search == INSTANCE Retrieval

VARIABLES
    mode,           \* "cloud" or "offline"
    book,           \* the feed: a row for each transaction, None if not there
    picture,        \* the picture someone shows, again and again
    phase,          \* where the submission stands
    reply,          \* what the reader last came back with
    claim           \* what was made of it, None before that

pipelineVars == <<vars, mode, book, picture, phase, reply, claim>>
engineInputs == <<receipt, ledger, feed>>
deployment == <<policy, expected, mode, book, picture>>

-----------------------------------------------------------------------------
(***************************************************************************)
(* Values.                                                                 *)
(***************************************************************************)
Reference == [head : STRING, tail : STRING, glyphs : STRING]

\* Failures the adapter knows: they leave an empty, degraded result.
Failure == {"timeout", "unavailable", "malformed"}

Claim == [reference : Reference \cup {None}, amount : Nat \cup {None},
          timestamp : ClaimedInstant \cup {None}, sender_name : DOMAIN NameKeys \cup {None},
          receiver_name : DOMAIN NameKeys \cup {None},
          doubted : SUBSET Field, degraded : BOOLEAN]

\* What a picture shows of a field: a text, if the field was printed.
Imprint(values) == [value : values, parses : BOOLEAN] \cup {None}

\* How much of a time is printed: with seconds or with AM or PM, hours and
\* minutes, or the date alone.
Clock == [at : Int, shows : {"clock", "minutes", "date"}]

Picture == [opens : BOOLEAN, fixture : BOOLEAN, of : Txn \cup {None},
            receiver_name : DOMAIN NameKeys \cup {None},
            shows : [reference : Imprint(Reference), amount : Imprint(Nat),
                     timestamp : Imprint(Clock),
                     sender_name : Imprint(DOMAIN NameKeys)]]

\* A transaction of the feed; one the provider gave no id goes by its own.
Row == [amount : Nat, source : {"trusted", "partial", "screenshot"}, at : Int,
        reference : Reference, sender_name : DOMAIN NameKeys \cup {None},
        receiver_name : DOMAIN NameKeys \cup {None}]

SeenAmounts == {0} \cup UNION {{b[t].amount : t \in {u \in Txn : b[u] # None}} : b \in Books}
Rungs == {l \in [Printed -> UNION {DOMAIN Ladder[f] : f \in Printed}] :
            \A f \in Printed : l[f] \in DOMAIN Ladder[f]}

\* The engine is ready for whatever the search finds and however it compares.
ASSUME PipelineAssumption ==
    /\ Modes \subseteq {"cloud", "offline"}
    /\ Pictures \subseteq Picture
    /\ Books \subseteq [Txn -> Row \cup {None}]
    /\ NameRung \in [(DOMAIN NameKeys) \X (DOMAIN NameKeys) -> DOMAIN Ladder.sender_name]
    /\ None \notin Claim
    /\ Anchor \in Int /\ TimeWindow \in Nat
    /\ IsFiniteSet(Txn)
    /\ [amount : SeenAmounts, source : {"trusted", "partial", "screenshot"}, level : Rungs]
         \subseteq Entries
    /\ UNION {[1..n -> Txn] : n \in 0..Cardinality(Txn)} \subseteq Feeds

\* A claim nothing was read into; degraded says that the reader was down.
Empty(degraded) ==
    [reference |-> None, amount |-> None, timestamp |-> None, sender_name |-> None,
     receiver_name |-> None, doubted |-> {}, degraded |-> degraded]

Unread == Empty(FALSE)

-----------------------------------------------------------------------------
(***************************************************************************)
(* What the reader may make of a picture.  For each field it returns the   *)
(* text, or nothing, or the text so mangled that its parser refuses it;    *)
(* words is what the detector saw besides.                                 *)
(***************************************************************************)
Mangled(text) == [value |-> text.value, parses |-> FALSE]

Manner == [Field -> {"read", "mangled", "omitted"}]

TextsRead(p, manner) ==
    [f \in Field |->
       CASE p.shows[f] = None \/ manner[f] = "omitted" -> None
         [] p.shows[f] # None /\ manner[f] = "mangled" -> Mangled(p.shows[f])
         [] OTHER -> p.shows[f]]

\* A check that never ran is "unknown"; grounding can only confirm.
Grounded(f, words) == IF f \in words THEN "passed" ELSE "unknown"
FormatValid(text) == IF text.parses THEN "passed" ELSE "failed"

\* Mutant: a value the detector did not see is doubted, as before the bands
\* were given a middle state.
ConfidenceBandPessimist(text, grounded) ==
    IF text = None THEN "none"
    ELSE IF grounded # "passed" \/ FormatValid(text) = "failed" THEN "low" ELSE "high"

\* compute_confidence_band.
ConfidenceBand(text, grounded) ==
    IF text = None THEN "none"
    ELSE IF grounded = "failed" \/ FormatValid(text) = "failed" THEN "low" ELSE "high"

Parsed(text) == IF text = None \/ ~text.parses THEN None ELSE text.value
Verbatim(text) == IF text = None THEN None ELSE text.value

\* parse_timestamp: the formats with seconds, and those with AM or PM, are taken
\* to the second, the other clock times to the minute; a bare date is a whole day
\* whose date counts as inferred.
CloudInstant(clock) ==
    IF clock = None THEN None
    ELSE [at |-> clock.at, inferred |-> clock.shows = "date",
          granularity |-> CASE clock.shows = "clock" -> 1
                            [] clock.shows = "minutes" -> Minute
                            [] clock.shows = "date" -> Day]

\* OfflineStubExtractor: a minute, or a whole day whose date was printed.
FixtureInstant(clock) ==
    IF clock = None THEN None
    ELSE [at |-> clock.at, inferred |-> FALSE,
          granularity |-> IF clock.shows = "date" THEN Day ELSE Minute]

\* _normalise on the cloud reader's answer: amounts and times that do not parse
\* are dropped, references and names are kept as they were read.  The receiver's
\* name is only searched with.
CloudClaim(texts, words, receiver) ==
    [reference |-> Verbatim(texts["reference"]), amount |-> Parsed(texts["amount"]),
     timestamp |-> CloudInstant(Parsed(texts["timestamp"])),
     sender_name |-> Verbatim(texts["sender_name"]), receiver_name |-> receiver,
     doubted |-> {f \in Field : ConfidenceBand(texts[f], Grounded(f, words)) = "low"},
     degraded |-> FALSE]

\* The fixture's fields by way of RawClaim, which drops the time; _extract_claim
\* puts it back from a second look at the manifest.
FixtureClaim(texts, receiver) ==
    [reference |-> Verbatim(texts["reference"]), amount |-> Verbatim(texts["amount"]),
     timestamp |-> FixtureInstant(Parsed(texts["timestamp"])),
     sender_name |-> Verbatim(texts["sender_name"]), receiver_name |-> receiver,
     doubted |-> {}, degraded |-> FALSE]

-----------------------------------------------------------------------------
(***************************************************************************)
(* A claim next to a row.                                                  *)
(***************************************************************************)
\* The reference ladder; every tail is long enough to count as evidence.
ReferenceLevel(a, b) ==
    CASE a = None -> "REF_MISSING"
      [] a # None /\ a = b -> "REF_EXACT"
      [] OTHER -> IF Search!SameBarGlyphs(a, b) THEN "REF_CONFUSABLE"
                  ELSE IF ~Search!SameTail(a, b) THEN "REF_ELSE"
                  ELSE IF Search!NoHead \in {a.head, b.head} THEN "REF_SUFFIX" ELSE "REF_PARTIAL"

NameLevel(a, b) ==
    IF a = None \/ b = None THEN "NAME_MISSING" ELSE NameRung[<<a, b>>]

TimeLevel(c, at) == IF c = None THEN "TS_MISSING" ELSE TimestampLevel(c, at)

\* What the engine sees of a row; a transaction that is not in the feed is
\* never looked at.
SeenBy(c, row) ==
    IF row = None
    THEN [amount |-> 0, source |-> "trusted", level |-> [f \in Printed |-> Missing[f]]]
    ELSE [amount |-> row.amount, source |-> row.source,
          level |-> [f \in Printed |->
                       CASE f = "reference" -> ReferenceLevel(c.reference, row.reference)
                         [] f = "timestamp" -> TimeLevel(c.timestamp, row.at)
                         [] f = "sender_name" -> NameLevel(c.sender_name, row.sender_name)]]

\* The claim as the engine reads it.  The observations of tamper.py go into its
\* notes and never into decide(observations=...), so none of them counts.
AsReceipt(c) ==
    [amount |-> c.amount, doubted |-> c.doubted, tamper |-> 0,
     read |-> {f \in Printed : c[f] # None}]

-----------------------------------------------------------------------------
(***************************************************************************)
(* Behaviour.                                                              *)
(***************************************************************************)
NothingSeen == [t \in Txn |-> SeenBy(Unread, None)]

PipelineInit ==
    /\ policy \in {p \in Policies : Constructible(p)}
    /\ expected \in Totals
    /\ mode \in Modes
    /\ book \in Books
    /\ receipt = AsReceipt(Unread) /\ ledger = NothingSeen /\ feed = <<>>
    /\ spent = {} /\ holder = None /\ answer = None
    /\ picture \in Pictures /\ phase = "idle" /\ reply = "none" /\ claim = None

\* A request that ends without a verdict: 422, or 500 where nothing catches.
EndUnanswered == phase' = "idle" /\ claim' = None

\* The upload is decoded and resized (prepare); what will not open, or is out
\* of all proportion, is refused.  Offline, only the fixtures are read.
Submit ==
    /\ phase = "idle"
    /\ reply' = "none" /\ answer' = None
    /\ receipt' = AsReceipt(Unread) /\ ledger' = NothingSeen /\ feed' = <<>>
    /\ IF picture.opens /\ (mode = "offline" => picture.fixture)
       THEN phase' = "reading" /\ claim' = None
       ELSE EndUnanswered
    /\ UNCHANGED <<deployment, spent, holder>>

\* What a reader's answer leaves alone.
ReaderOnly == UNCHANGED <<deployment, engineInputs, spent, holder, answer>>

\* The model answers in time, with or without the detector's words.
Answers(texts, words, receiver) ==
    /\ phase = "reading" /\ mode = "cloud"
    /\ reply' = "texts"
    /\ claim' = CloudClaim(texts, words, receiver)
    /\ phase' = "read"
    /\ ReaderOnly

\* Mutant: an empty result is passed on as if it had been read.
FailsSilently(kind) ==
    /\ phase = "reading" /\ mode = "cloud"
    /\ reply' = kind
    /\ claim' = Unread
    /\ phase' = "read"
    /\ ReaderOnly

\* _extract_with_fallback: any failure but a refusal leaves an empty claim with
\* a degraded note.
Fails(kind) ==
    /\ phase = "reading" /\ mode = "cloud"
    /\ reply' = kind
    /\ claim' = Empty(TRUE)
    /\ phase' = "read"
    /\ ReaderOnly

\* Mutant: the provider's own limit is inherited, and the call hangs.
NeverTimesOut == FALSE /\ Fails("timeout")

\* CALL_TIMEOUT_S.
TimesOut == Fails("timeout")

\* Mutant: a refusal returns no result at all.
RefusesWithNothing ==
    /\ phase = "reading" /\ mode = "cloud"
    /\ reply' = "refused"
    /\ claim' = None
    /\ phase' = "read"
    /\ ReaderOnly

\* DataInspectionFailed: the claim is empty, and not marked degraded.
Refuses ==
    /\ phase = "reading" /\ mode = "cloud"
    /\ reply' = "refused"
    /\ claim' = Unread
    /\ phase' = "read"
    /\ ReaderOnly

\* kv_result is null, or not all strings: an error nobody catches.
Breaks ==
    /\ phase = "reading" /\ mode = "cloud"
    /\ reply' = "broken"
    /\ EndUnanswered
    /\ ReaderOnly

\* The manifest's entry; a printed time in no known format is a ValueError.
ReadsFixture ==
    /\ phase = "reading" /\ mode = "offline"
    /\ reply' = "fixture"
    /\ LET time == picture.shows["timestamp"]
       IN IF time # None /\ ~time.parses THEN EndUnanswered
          ELSE phase' = "read" /\ claim' = FixtureClaim(picture.shows, picture.receiver_name)
    /\ ReaderOnly

\* The ledger is loaded and searched, and every row compared.
Retrieve ==
    /\ phase = "read"
    /\ receipt' = AsReceipt(claim)
    /\ ledger' = [t \in Txn |-> SeenBy(claim, book[t])]
    /\ \E s \in Feeds : Search!Retrieved(claim, book, s) /\ feed' = s
    /\ phase' = "retrieved"
    /\ UNCHANGED <<deployment, spent, holder, answer, reply, claim>>

Answered ==
    /\ phase = "retrieved"
    /\ Check
    /\ phase' = "idle"
    /\ UNCHANGED <<mode, book, picture, reply, claim>>

\* The merchant uses the payment; the answer stays on the screen.
Use ==
    /\ answer # None /\ answer.status = "VERIFIED"
    /\ Free(answer.txn, ThisOrder)
    /\ spent' = spent \cup {<<answer.txn, ThisOrder>>}
    /\ holder' = IF holder = None THEN ThisOrder ELSE holder
    /\ UNCHANGED <<deployment, engineInputs, answer, phase, reply, claim>>

\* Another order's check, of another picture, is approved meanwhile.
UsedElsewhere(t, o) ==
    /\ Free(t, o)
    /\ spent' = spent \cup {<<t, o>>}
    /\ UNCHANGED <<deployment, engineInputs, holder, answer, phase, reply, claim>>

ReaderStep ==
    \/ \E manner \in Manner, words \in {{}, Field}, receiver \in {picture.receiver_name, None} :
         Answers(TextsRead(picture, manner), words, receiver)
    \/ \E kind \in Failure \ {"timeout"} : Fails(kind)
    \/ TimesOut \/ Refuses \/ Breaks \/ ReadsFixture

PipelineNext ==
    \/ Submit \/ ReaderStep \/ Retrieve \/ Answered \/ Use
    \/ \E t \in Txn, o \in Order \ {ThisOrder} : UsedElsewhere(t, o)

PipelineSpec == PipelineInit /\ [][PipelineNext]_pipelineVars

\* A retrieved submission is answered, whatever the verdict.
IsAnswered == phase = "retrieved" /\ phase' = "idle"

\* The request runs to its end and the call has a deadline; that the model
\* answers at all is nowhere promised.
FairPipelineSpec ==
    /\ PipelineSpec
    /\ WF_pipelineVars(TimesOut)
    /\ WF_pipelineVars(ReadsFixture)
    /\ WF_pipelineVars(Retrieve)
    /\ WF_phase(IsAnswered)

-----------------------------------------------------------------------------
(***************************************************************************)
(* Properties.                                                             *)
(***************************************************************************)
\* Every variable has its type; a submission that has been read has a claim,
\* and the engine is asked about that claim.
PipelineTypeOK ==
    /\ TypeOK
    /\ mode \in Modes /\ picture \in Pictures
    /\ book \in Books
    /\ phase \in {"idle", "reading", "read", "retrieved"}
    /\ reply \in {"none", "texts", "refused", "broken", "fixture"} \cup Failure
    /\ claim \in Claim \cup {None}
    /\ phase \in {"read", "retrieved"} => claim # None
    /\ answer # None => phase = "idle" /\ claim # None
    /\ (phase = "retrieved" \/ answer # None) => receipt = AsReceipt(claim)

\* What the merchant is shown: ResultScreen looks at the degraded note before
\* it looks at the status.
Screen ==
    IF answer = None \/ answer.status = "RAISED" THEN "none"
    ELSE IF claim.degraded THEN "unreadable" ELSE answer.status

\* No path leads from a failed or refused reading to VERIFIED, and the response
\* to the submission, which alone has the degraded note, is shown as unreadable
\* exactly when the reader was down.  That is the part of phase3-receipt.md's
\* invariants 1 and 3 the code keeps: what it answers instead of VERIFIED is
\* FailedReadingIsReviewed's business.
FailedReadingReleasesNothing ==
    answer # None =>
      /\ reply \in Failure <=> Screen = "unreadable"
      /\ reply \in Failure \cup {"refused"} => answer.status # "VERIFIED"

\* dashscope_ocr.py 136-140, schema.py 96-114: a field is doubted exactly when
\* its printed text fails a check that ran, and a doubted amount or time is one
\* the claim does not carry, so the engine never scores a number it doubts.
DoubtIsAFailedCheck ==
    (claim # None /\ reply = "texts") =>
      /\ claim.doubted \subseteq {f \in Field : picture.shows[f] # None}
      /\ \A f \in {"amount", "timestamp"} :
           (f \in claim.doubted) => claim[f] = None
      /\ \A f \in Field : (f \notin claim.doubted /\ claim[f] # None) =>
                              picture.shows[f] # None /\ picture.shows[f].parses

\* The payment the receipt was issued for, and no other, carries the
\* transaction id that was read.
IdPointsAt(t) ==
    /\ claim.reference # None
    /\ {u \in Txn : book[u] # None /\ book[u].reference = claim.reference} = {t}

\* A genuine receipt, however little of it was read, releases goods only on the
\* payment it was issued for, once that payment is in the feed: another payment
\* of the same amount, hour or customer is never taken for it.  Retrieval may
\* have cut the feed short, if the id was read (retrieval.py 11-13: the exact id
\* is found first).
GenuineReceiptNamesItsPayment ==
    LET true == picture.of
    IN (/\ answer # None /\ answer.status = "VERIFIED"
        /\ true # None /\ book[true] # None
        /\ Truncated => IdPointsAt(true)) => answer.txn = true

\* verification_service.py and CALL_TIMEOUT_S: every submission ends.
SubmissionsEnd == phase # "idle" ~> phase = "idle"

\* docs/phases/phase3-receipt.md 746-757 and invariant 1 at 764: whichever way a
\* reading fails, by a timeout, an unavailable reader, a malformed answer or a
\* refusal, the submission is answered NEEDS_REVIEW.  The code does not keep it:
\* the empty claim is decided like any other.
FailedReadingIsReviewed ==
    (answer # None /\ reply \in Failure \cup {"refused"}) => answer.status = "NEEDS_REVIEW"

-----------------------------------------------------------------------------
(***************************************************************************)
(* Under what GenuineReceiptNamesItsPayment holds of any feed.             *)
(***************************************************************************)
\* What a reader that misses nothing makes of a picture.
FullReadings(p) == {CloudClaim(p.shows, {}, p.receiver_name),
                    FixtureClaim(p.shows, p.receiver_name)}

\* A receipt printed for the payment of this row: its id, perhaps without the
\* head, its amount, its time and its sender.
Resembles(c, row) ==
    /\ c.reference # None =>
         ReferenceLevel(c.reference, row.reference) \in {"REF_EXACT", "REF_SUFFIX"}
    /\ c.amount \in {None, row.amount}
    /\ TimeLevel(c.timestamp, row.at) \in
         {"TS_MISSING", "TS_TIGHT", "TS_CLOSE", "TS_DATE_ONLY"}
    /\ c.sender_name # None => NameLevel(c.sender_name, row.sender_name) = "NAME_EXACT"

\* A receipt says of its payment what the feed says; and if any payment of the
\* feed carries the printed id in full, its own does.
GenuineReceipts ==
    \A p \in Pictures, b \in Books : (p.of # None /\ b[p.of] # None) =>
        \A c \in FullReadings(p) :
            /\ Resembles(c, b[p.of])
            /\ c.reference # None =>
                 \A u \in Txn : (b[u] # None /\ b[u].reference = c.reference)
                                  => b[p.of].reference = c.reference

\* Every policy weighs the fields, and treats a missing one, as the shipped one
\* does, and is at least as demanding (policy.py).
ShippedWeights ==
    \A p \in Policies :
        /\ p.weight = [reference |-> 5, amount |-> 5, timestamp |-> 4, sender_name |-> 3]
        /\ p.penalty = 50
        /\ p.accept >= 820000 /\ p.margin >= 100000
=============================================================================
