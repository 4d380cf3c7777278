# ProofPay in TLA+

ProofPay checks a merchant's payment screenshots: an upload is read into a
claim, the claim is ranked against the merchant's transactions, a rule table
gives one of five verdicts (VERIFIED, NEEDS_REVIEW, SUSPICIOUS, UNMATCHED,
DUPLICATE), and a separate approval spends the transaction behind a VERIFIED
verdict. This directory holds the TLA+ modules for that program, the TLC
configurations that check them on small instances, and the proofs TLAPS checks
for every instance.

Paths below are relative to `src/`; `api/`, `db/`, `core/`, `storage/` and
`adapters/` stand for `src/backend/proofpay/...`.

## Inventory

| Component | State it keeps | Operations | Talks to | What makes it correct |
|---|---|---|---|---|
| Persisted verification service (`api/verification_service.py`, `api/v1/verifications.py`) | none of its own; one job per event loop, one approval per pool thread | submit, approve, stored reads | repositories, blob store, engine, extraction | money is spent once and only on a verified attempt; a key replays one attempt; rows and objects agree; no verdict accuses without an approval |
| Repositories (`db/repositories/`) | - | find_by_hash, get_for_key, list_active_for_engine, list_accepted_for_engine, activate_for_attempt | database | what the engine is handed is the committed history |
| Schema and sessions (`db/models/`, `db/session.py`) | payment_proofs, verification_attempts, transaction_allocations, idempotency_records, ... | insert under unique indexes, commit, rollback, wait for the write lock | - | partial unique indexes keep allocations one to one |
| Blob store (`storage/local.py`, `storage/uploads.py`) | one object per picture | put (atomic replace), delete | - | every row's object exists; objects nobody names are accounted for |
| Demo path (`adapters/proof_store.py`, `api/v1/idempotency.py`, `api/v1/demo.py`, `_submit_demo`) | accepted and pending proofs, responses by key, all in memory and unsynchronised | record_pending, approve, reset, find_existing, store_response | engine | first acceptance of a picture wins; reset forgets everything |
| Decision engine and rules (`core/decide/`) | - (pure) | decide, first matching rule, confidence, named transaction | retrieval, comparisons | no policy verifies a doubtful match |
| Duplicate detection (`core/duplicates.py`, `core/proofs.py`) | - (pure) | check_candidate, check_proof, indexes | - | same order is exempt, the choice among contested records is deterministic |
| Retrieval and ranking (`core/retrieval.py`) | - (pure) | index, candidates, rank | - | a rival is not lost, ties are visible |
| Comparisons (`core/compare/`) | - (pure) | one ladder per field | - | ladders are total and ordered; integer amounts |
| Extraction (`extraction/`) | - | prepare, extract by the cloud reader or the fixture manifest, normalise | network provider | every submission ends; a failed reading goes to review and never releases goods; doubt rests on a check that failed |
| Normalisation and value types (`core/normalize.py`, `timex.py`, `phonetics.py`, `money.py`, `models.py`) | - (pure) | claimed instants, confusable references, phonetic keys | - | what is imprecise never counts as exact |
| Merchant client (`frontend/src/App.tsx`, the screens) | screen, run counter, chosen order, screenshot, lists, used payments, calls in flight | submit, replay, retry, dismiss, approve, start over, open a list | the routes above | the verdict on the wall answers the last question; a payment is released once |
| Sign-in (`frontend/src/api/client.ts`, `api/v1/auth.py`) | the stored token, the shared promise | ensureToken, forgetToken, request with one retry | sign-in route | no call is stranded or acted on twice |
| Explanation and result mapping (`core/explain.py`, `core/reasons.py`, `api/verification_mapper.py`, stored reads) | - (pure) | reasons, summary, marks, action, response, storing and reading back | engine, database | the summary tells what was found; a stored verdict that releases the goods reads the same |
| Stub routes, wiring, demo clock, seed and tools | - | stateless | - | not modelled (fixed data, offline scripts) |

### Where it is hard

* Submit is an `async def` that calls synchronous code: one event loop runs one
  submit at a time. Approve is a plain `def`: pool threads run approvals beside
  the submit and beside each other. The shipped command starts one process;
  the database constraints and `docs/system-design.md` anticipate several.
* A submit spans five database transactions and a blob store that has none:
  key lookup, scope, picture lookup, then the object, then extraction, then the
  write transaction. Everything looked up before can be stale by then.
* Approvals check and insert in two statements; unique indexes decide at commit.
* Any statement, the commit, the put and the delete can fail, and the process
  can die between any two of them.
* The cloud reader may read, mangle or omit each field, refuse, fail or say
  nothing; the engine is asked about whatever is left, also about an empty claim.
* In the browser every call is answered later, in any order or not at all, while
  the merchant resets, retries, navigates and submits again. A token refused to
  one call is forgotten for all of them.

PROJECT.json lists each hazard with its line and the properties that watch it.

## Modules

### `PaymentLedger` - what the service promises about money

One variable, the set of `<<transaction, order>>` pairs spent, and one action,
`Spend`, enabled only for an unspent transaction and an unpaid order. This is
what the two partial unique indexes of `transaction_allocations` say; nothing in
the code base releases or deletes an allocation, so a spend is never undone.

### `AtomicVerification` - what the service promises of its two calls

The rows of the four tables and two actions. `Submit` judges an upload and
records answer, picture and key in one step, on a key that was not bound;
`Approve` spends the payment of a VERIFIED answer. Look-ups, flushes, locks, the
blob store, failures and crashes are gone: a submit that fails is a step that is
not taken. What is left of the distance between reading and writing is in
`Answered`: the verdict on a picture never seen before rests on the allocations
of the moment it is recorded; the verdict on one the service has a row for (whose
transaction takes the write lock only when it writes the attempt) may rest on
older ones, and the accepted pictures (R025) on newer allocations than the
payments (R020), because they are read by two statements. `VerificationService`
implements it (`ImplementsAtomic`), with one server process.

### `VerificationService` - submit and approve over SQLite and the blob store

| Variable | In the code |
|---|---|
| `proofs`, `attempts`, `allocations`, `bindings` | committed rows of payment_proofs, verification_attempts, ACTIVE transaction_allocations, idempotency_records |
| `blobs` | objects under `proofs/<merchant>/...` |
| `writer` | the connection that holds SQLite's write lock across steps |
| `job[p]` | locals of `_submit_persisted` on the event loop of process p: the request, `attempt_id`, `existing_proof is not None`, `proof_created`, what was read, the verdict |
| `approval[a]` | the attempt `activate_for_attempt` read on pool thread a, its allocation added to the session and not flushed |
| `approvals`, `leaked`, `crashes` | history for properties, and the crash bound |

One merchant; tenancy is a filter on every query. A step of the submit is a
stretch of code between two points where another actor's effect can be seen:

| Action | Code |
|---|---|
| `Receive` | `_submit_verification` hands the request over |
| `LookupKey` | replay, 409, or go on (`verification_service.py` 456-479) |
| `Refuse` | the 403, 404, 413, 415 and 422 before anything is stored |
| `LookupProof`, `PutBlob`, `PutFails` | find_by_hash, `LocalStorage.put`, 503 |
| `Extract`, `ExtractFails` | `_extract_claim` and its clean-up |
| `Begin`, `Revoked` | `session.begin()`, the second reads, the 404 inside |
| `InsertProof`, `InsertProofConflicts` | the flush of payment_proofs |
| `ReadAllocations`, `Decide` | the two history reads and `decide()` |
| `Commit` | flush of the attempt, idempotency record, commit |
| `Abort`, `Undo` | any exception in the transaction; the outer `except` |
| `ApproveQuietly`, `ReadForApproval`, `CommitApproval`, `ApprovalConflicts`, `ApprovalTimesOut` | `approve_verification` with `activate_for_attempt` |
| `Crash` | the process dies; SQLite rolls back, files stay |

What is abstracted. A picture is a name (its `stored_sha256`). A *reading* is
what extraction, retrieval and scoring make of an upload for the order: the best
candidate or none, whether the ranking can tell it from the runner-up, and the
verdict of the rules after R025. The rules that depend on what other requests
did - R010, R020, R025 - and `_matched_txn_id` are modelled. Claim and evidence
rows live and die with their attempt and have no state of their own. The
response body is a function of the attempt. Statements between two flushes under
the lock are one step, because no other actor can see them.

PostgreSQL is not modelled: its commits can fail after they are durable and its
readers do not share one write lock.

### `MCVerificationService`

Names small instances: which readings an upload may have, which process runs the
pool threads, which picture an upload becomes, and the symmetry. Orders,
transactions, keys and uploads are interchangeable (the specification only
compares them for equality); attempt ids are not, because the accepted history
picks the least one.

### `ProofStore` - the demo path

The same two routes without a database: `_submit_demo`, `approve` and
`POST /demo/reset` over module-level dictionaries.

| Variable | In the code |
|---|---|
| `responses` | `_responses` of `api/v1/idempotency.py`, by key |
| `accepted`, `pending` | `_accepted`, `_pending` of `adapters/proof_store.py` |
| `clears` | which incarnation of the merchant's inner dictionary is in `_accepted`: `clear()` drops it, a thread that fetched it still holds it |
| `blobs` | objects in the blob store |
| `job` | locals of `_submit_demo` on the event loop |
| `approving[a]` | the proof pool thread a has popped, and the inner dictionary it has fetched |
| `resetting` | how far the reset has come |
| `issued`, `approved` | history for fresh ids and for the properties |

The dictionaries have no lock. Each single touch of one is atomic under the
interpreter's lock; two touches are two steps. So `Submit` (lookup, put,
extraction, which no other thread can see inside), `Decide`, `RecordPending` and
`Answer` are separate, an approval is `PopPending`, `CheckHistory`,
`WriteHistory`, and a reset is `ClearResponses`, `ClearAccepted`,
`ClearPending`. A reading is what retrieval and scoring would answer without any
accepted proof; R025's place behind R010 and R020 and before the rest is in
`Decide`. `MCProofStore` names the requests and readings: the scripted orders of
`api/engine_demo.py` in small beside a picture two orders may both verify with
(`DemoRequests`, `DemoReading`), or one request for each order and any reading
(`OnePerOrder`, `AnyReading`).

### `Amounts` and `DecisionEngine` - `decide()`

`Amounts` is the integer arithmetic of `core/compare/amount.py` and
`amount_match.py`: the relation of ledger and order, material inflation and
overpayment, the scaled-by-ten test, the amount ladder.

`DecisionEngine` is `decide()` as a function of its inputs, and those inputs as
state that other people change:

| Variable | In the code |
|---|---|
| `policy` | the `DecisionPolicy`; `Constructible` is `__post_init__` |
| `expected` | the order's total, absent for an ad-hoc payment |
| `receipt` | the `PaymentClaim`: its amount, which other fields are readable, which are doubted, how many tamper observations |
| `ledger` | the transactions: amount, source, and the rung each other field is on when it is compared with the receipt |
| `feed` | the transactions in the order retrieval finds them |
| `spent`, `holder` | the active allocations; the order the picture was accepted for |
| `answer` | the decision on the present state, once it was asked for |

`Candidates`, `Score`, `Best`, `Dominant`, `Indistinguishable`, `When`,
`StatusOf`, `FirstMatch`, `MatchedTxn` and `Raises` follow `retrieve`,
`aggregate_score`, `CandidateRanking`, `is_dominant`, `Context`, `RULES`,
`first_match`, `_matched_txn_id` and `_enforce_invariants` one by one. A rule's
name is its number, so that the first match is the least. The actions are the
things that happen around a decision: `Check` asks, `Approve` spends the verified
payment, `ApproveOther` spends one for another order or accepts the picture
there, `Crop` sends the receipt again without one of its fields.

What is abstracted. Which rung of the reference, timestamp and name ladders a
pair of strings or instants falls on is given, and so is what retrieval finds, up
to its cap (`Pipeline` computes both); the amount's rung is computed. Scores are exact millionths, rounded
where the code rounds; the code subtracts floats, so a margin that equals
`tau_margin` exactly can fall on either side there. Weights are the policy's
times five, percentages are whole percents. Risk and reasons are in
`Explanation`; confidence is left out.

`MCDecisionEngine`, which extends `Explanation`, names rows for what a receipt makes of them (a perfect match,
a near rival, a tenth of the amount, a screenshot, ...), receipts, and policies:
the default, a lenient one with room for one candidate and a heavier penalty for
missing fields, and one the constructor refuses.

### `Explanation` - what the merchant is told

`Explanation` extends `DecisionEngine` and has no state of its own: its operators
are functions of the engine's inputs and answer.

| Operator | In the code |
|---|---|
| `RuleReasons`, `AmountReasons`, `ReasonsFor`, `LeadReason` | the reasons of `RULES`, `AmountEvidence.reason_codes`, `_reasons_for` and the first of what it returns |
| `Decision` | the record `decide()` returns |
| `VerifiedSummary` ... `ReviewSummary`, `Summary` | `_summary`, branch by branch |
| `Action`, `Mark`, `FieldRow` | `_action_for`, `_MARK_BY_AGREEMENT`, the rows |
| `Response` | `verification_result_from_decision` |
| `Stored`, `StoredDecision`, `Reread` | the columns `_submit_persisted` writes, `_stored_decision`, and `GET /verifications/{id}` |

A sentence is a tuple of what it says and the amounts, fields or orders it names.
Headlines, labels, dates, confidence and the neutral notes other than the earlier
order are left out, and so are the place of a row in the list and the text of
its two sides.

### `ClaimedTime`, `Retrieval` and `Pipeline` - from a picture to a verdict

`ClaimedTime` is `core/timex.py` and `core/compare/timestamp.py`: a claimed
instant is a start, a granularity and whether its date is inferred; the gap to a
transaction's instant is measured from the interval; a clock a whole number of
hours off is told from one that is merely wrong. A cut-point of the decay curve
is given as its *reach*, the widest gap still above it, because the curve falls.

`Retrieval` is `retrieve()`: seven blocking keys from the exact id to the
phonetic names of sender and receiver (`FoundBy`), the amounts a misread digit or a lost zero would make
(`AmountProbes`), and the order in which the cap keeps what they find (`Before`:
narrowest key, then nearest in time, then least id). `Retrieved` says which
sequence that is instead of computing it.

`Pipeline` extends `DecisionEngine` with what happens before `decide()`:

| Variable | In the code |
|---|---|
| `mode` | `effective_receipt_extractor`: the cloud reader, or the fixture manifest |
| `book` | the merchant's transactions |
| `picture` | the upload: does it open, is it a fixture, what does it print, for which payment was it issued |
| `phase` | where `_submit_persisted` stands |
| `reply` | what the reader came back with |
| `claim` | the `PaymentClaim`, None before |

| Action | Code |
|---|---|
| `Submit` | `prepare()` and its 422, the offline reader's refusal of strangers |
| `Answers` | `DashScopeOcrExtractor.extract` and `_normalise`: any field read, mangled or omitted, with or without the detector's words |
| `Fails`, `TimesOut` | `_handle_error`, `CALL_TIMEOUT_S`, the empty degraded claim of `_extract_with_fallback` |
| `Refuses` | `ExtractionRefused` and its empty claim |
| `Breaks` | a `kv_result` that is null or not strings: an exception nobody catches |
| `ReadsFixture` | `OfflineStubExtractor`, and the second look at the manifest |
| `Retrieve` | the ledger is loaded, searched and compared (`SeenBy`) |
| `Answered` | the engine's `Check` |
| `Use`, `UsedElsewhere` | approvals of this order and of others |

A printed text is a value and whether its parser accepts it; a reference is a
head, a tail and glyphs. Which rung two names reach is given (`NameRung`). A
transaction that the provider gave no id goes by its own, as `LedgerTxn.reference_id`
does. The receiver's name, which is only searched with, is kept or omitted. A text
that is misread as another valid one is not among the manners of reading: what
follows from it is what follows from a picture that prints the other text, and
the properties that speak of the picture do not speak of it. `Screen` is what the
merchant sees of the response to the submission itself: the degraded note is
looked at before the status.

### `MerchantClient` - the browser

The state of `App.tsx` and `UploadScreen.tsx`, one variable per `useState` or
`useRef`, the calls in flight (`checks`, `listings`, `orderLoads`), and what the
backend has stored. An action is a handler from its first line to its last:
`Choose`, `Take`, `Clear`, `Submit`, `PlayDemo`, `OpenFromHistory`, `Retry`,
`Dismiss`, `Approve` (`onUse`, then `onDismiss`), `StartOver`, `OpenList`; or the
continuation of a settled call: `CheckArrives`, `HistoryArrives`, `HistoryFails`,
`OrdersArrive`. The backend (`Decide`, `Fetch`, `List`, `Fail`) answers in any
order, or loses the answer after it stored the verdict. Approvals and resets are
sent and forgotten, so their fate is not part of this module. `Unreadable` is the
screen for a degraded response, which only the submission's own answer can be:
a stored verification comes back without the note. `Approvable` is the
enabledness of the approve buttons of all verdict screens. `asked` and `released`
are history: the last question not abandoned, and how often a payment was
approved as VERIFIED since the last reset.

### `SignIn` - the token

`ensureToken`, `forgetToken` and `request` for any number of calls: a stored
token, the shared promise (`tokenRequest`), sign-ins in flight, one retry after
a 401. The backend recognises the tokens of its own build; `Restart` may replace
the build. As the code has it, the promise a settled sign-in clears is whichever
is shared by then. The bearer tokens of `api/v1/auth.py` are constants, so a
restart of the same build refuses nothing.

How the modules fit: `VerificationService` takes from the engine that a VERIFIED
reading names one distinguishable candidate (`ServiceAssumption`), and
`DecisionEngineProofs` proves that of every policy. `Pipeline` extends
`DecisionEngine` and `ClaimedTime` and instantiates `Retrieval`: its `Answered` is
the engine's own `Check`, on a receipt, a ledger and a feed that `Retrieve` has
filled in, and `PipelineAssumption` says that the engine's inputs include
whatever that can be. `MerchantClient` stands before the service and takes from
it only that a submission which arrives is stored under a fresh id.

### `VerificationServiceProofs`, `SubmitProofs`, `ProofStoreProofs`, `DecisionEngineProofs`, `ExplanationProofs`, `PipelineProofs`, `MerchantClientProofs`, `SignInProofs`

Theorems about the module each is named for, with their proofs. `SubmitProofs` is
the second part of `VerificationServiceProofs`: the submits.

## Runs

| Run | Instance | Shows |
|---|---|---|
| `one_process` | 1 process, 1 approver, 2 orders, 2 pictures, 1 transaction, 3 keys, 3 attempts, all readings, 1 crash | `TypeOK`; every row has its object; every object has a row, a running submit, or a named excuse; a key replays the attempt of its own request; no attempt without a key; `ImplementsAtomic`: submit and approve are each one step, which also leaves no allocation without a VERIFIED attempt |
| `money_one_process` | 1 process, 2 approvers, 2 orders, 2 transactions, 2 pictures, 3 attempts, readings that verify or cannot tell two payments apart | `ImplementsLedger`; a DUPLICATE has another order's approval behind it, of the very payment it matched (R020) or of the very picture (R025); the first verdict on a picture is never overtaken by an approval |
| `lock_liveness` | 2 processes, 1 approver, all readings, 1 crash, fair submits | the write lock is always given back |
| `double_approval` | 1 process, 2 pool threads | **violated**: the second approval answers 500 |
| `demo_store` | 2 fair approvers, 3 orders, a scripted and a contested picture, 2 keys, 3 ids, 1 reset | `TypeOK`; REUSED has an approved proof behind it; an acceptance is displaced by no approval that looks after it; an answer stands until a reset; an approval that popped its proof makes the picture accepted unless a reset intervenes; no order of checks, approvals and resets changes the verdict of an order no other can disturb |
| `demo_overwrite` | 2 approvers, 2 orders on one picture, any reading | **violated**: the second of two acceptances overwrites the first |
| `engine_verdicts` | 2 transactions on every pair of the named rows, 5 receipts, 3 policies, 2 totals, 2 orders, reference and amount croppable | `TypeOK`; VERIFIED is safe to release; the post-condition never raises; twins are never named; other orders can only accuse; hiding a field never raises a score; the summary tells what was found; VERIFIED and UNMATCHED read the same from the database |
| `crop_verifies` | 2 rivals, default policy | **violated**: hiding an agreeing name verifies |
| `client` | 2 orders, 1 screenshot, 1 earlier check and 2 new ones, 4 runs, a verdict of each kind of screen | `TypeOK`; the verdict on the wall answers the last question; the checking screen always ends; one release per payment; a verdict is left for where it was asked |
| `sign_in` | 3 calls, 1 restart, storage that works or not, a stale token or none | `TypeOK`; only two builds can turn a call away; one act per call; a burst shares one sign-in; no call awaits nothing; every call settles |
| `pipeline` | 3 transactions, 5 pictures, 28 feeds, both readers, every manner of reading, caps of 25 and 1 | `PipelineTypeOK`; no failed or refused reading verifies, and the response of a reader that was down is shown as unreadable; doubt rests on a failed check; a receipt that verifies verifies its own payment, where it is genuine; the instance meets the hypotheses of the theorem that says so of every one (`InstanceIsGenuine`); every submission ends |
| `failed_reading` | as `pipeline` | **violated**: a reading that failed or was refused is answered UNMATCHED or DUPLICATE, not NEEDS_REVIEW |

The violated ones check statements of the repository's own documents and
comments, which PROJECT.json quotes. `double_approval` needs only two pool threads
of one process. `crop_verifies` shows that the bound the tests keep on one
candidate's score (`engine_verdicts` confirms it) does not bound the margin
between two. `demo_overwrite` is the look-up and the assignment of
`record_accepted` on two pool threads, against "first writer wins"
(`adapters/proof_store.py:138`); what is left of that promise is
`SettledAcceptanceStands`, which `demo_store` checks.

`failed_reading` is the first invariant of `docs/phases/phase3-receipt.md` (764)
with its table (746-757), which want NEEDS_REVIEW for every kind of failure. The
code answers each of them, a timeout, an unavailable reader, a malformed answer
and a refusal, with an empty claim and decides it like any other: UNMATCHED, or
DUPLICATE if the row ranked first is allocated to another order. Two parts of
the document's invariants remain, and `FailedReadingReleasesNothing` states them:
nothing of the kind is VERIFIED, and the first response to a submission whose
reader was down (not the response to a refusal) carries the note that the screen
looks at before the verdict. The note is not stored, so neither the history nor a
later GET has it (`engine_inputs.py` 92-104): there the same submission shows as
a verdict about the customer.

### What the models show beyond the runs

Statements that fail and that no run keeps, each found with these modules:

* With two processes the picture and idempotency properties of `one_process`
  fail: the loser of the unique index deletes the object of the winner's committed
  row (`verification_service.py` 702), and a key bound by another process between
  lookup and write is rewritten (694), so a key can replay another request's
  attempt and an attempt can be left without a key.
* A payment verified and approved for two orders leaves the second attempt
  VERIFIED without an allocation; `docs/system-design.md:336` and
  `docs/data-model.md:686` say it becomes DUPLICATE.
* `GenuineReceiptNamesItsPayment` needs what `GenuineReceipts` says of the names,
  and TLC breaks it where one of them is left out. If the sender's name is made of
  common tokens only, a rival row without a sender's name, with a confusable id
  and an equally tight time, is VERIFIED by R090 instead of the payment. If the
  payment's row carries no sender's name and its time is only close, a rival with
  the same amount, the exact name, a tight time and a confusable id scores .971
  against .865 and is VERIFIED, although the id printed is exactly the payment's.
* A demo reset that runs while a thread holds a popped proof does not forget it.
* R020 does not ask for a credible candidate, and the policy's constructor does
  not enforce `tau_reject <= tau_ambiguous`. It also allows `tau_accept = 0`,
  under which an empty claim verifies: `FailureIsShownAsFailure` assumes it away.
* A verdict left by a nav cell keeps the chosen order for the next story
  (`App.tsx` 393), which `onDismiss` clears for the reason its comment gives (297).
  An older list answer can replace a newer one (194), a list that fails after
  "start over" tells its error on the clean screen (178), the picker's choice
  stays while the orders go back to unknown (180), the upload screen keeps its
  screenshot through "start over" (336), and an approval can be overtaken by the
  reset sent after it (344).
* "Try again" mints a fresh idempotency key (`client.ts:304`), so a submission
  whose answer was lost becomes a second attempt; `OnePaymentOneRelease` holds all
  the same.
* A `kv_result` that is null, or holds something else than text, is an
  `AttributeError` and a 500, against the second invariant of
  `docs/phases/phase3-receipt.md` (765). An answer without `ocr_result` is an
  empty result that is not marked degraded, and can be UNMATCHED (758).
* `parse_timestamp` marks every bare date as inferred and, in the formats with AM
  or PM (`normalize.py` 69, 76), takes a clock without seconds for one to the
  second, where the fixture reader says minute.
* A stored verdict is explained again from its first reason
  (`verification_service.py` 376, 610). `StoredVerdictReadsTheSame` says that this
  keeps VERIFIED and UNMATCHED whole; it does not keep the sentences of the rest. A
  reused screenshot whose best candidate contradicts the receipt is read back as
  "this transaction was already used for another order", with that action,
  which `explain.py` 541-546 means to keep apart; a SUSPICIOUS loses its amounts,
  an ambiguous review with a contradiction is read back as the contradiction, and
  a review with two grounds keeps one. A response replayed by its key is the
  stored JSON and has none of this.
* Neither the notes of a claim nor the granularity of its time are stored: read
  back, a degraded reading has lost its note, and a receipt that shows only a day
  shows a midnight (`engine_inputs.py` 79-86, against `explain.py` 263-275).
* Were R040 to fire, an inflation too small for R030 would be the sentence of its
  summary, not the tampering; and of a partly trusted row that was also read
  badly the summary tells the first only.
* The observations of `tamper.py` never reach `decide(observations=...)`, so R040
  never fires in the service.

### Bounds

Three attempts are the fewest that let one payment be verified for one
order, approved, and re-checked for another while a third submit is under way;
readings that verify and readings that two payments fit alike are those a
DUPLICATE can name a payment for and those it cannot;
two orders, pictures and transactions are the fewest that tell "this one" from
"another one"; a second crash adds only a repetition of the first, because a
crash leaves nothing behind but objects, and one of those already is a state the
invariants must allow.

In the demo, two orders on one picture and two threads are the fewest that can
race for an acceptance. Five requests keep `demo_store` small: two for a picture
the script gives to one order, and three for one that two orders can verify with,
of which the first asks twice, so that an acceptance can be settled, raced for and
asked about again. A second reset starts from the same empty dictionaries
as the first. In the engine, two candidates are the fewest with a rival, a tie
and a margin; a third is one more rival that either is or is not within the
margin. The rows, receipts and policies make each rule of the table fire at least
once. `MaxZeros` bounds the zeros the scaled test can append; no instance needs
more than one.

In the client, `MaxRuns` bounds the run counter: four let a check be put, be
overtaken by a second, be retried, and be abandoned. One listing in flight is
enough, because no property of the run depends on the order of two. In the
sign-in, three calls are the fewest with a burst and a late third; a second
restart only adds builds that refuse.

In the pipeline, the three transactions are the payment, one of six rows
that share some of its fields (a look-alike id, the same amount, hour and
customer, a tenfold amount, no provider id, an old one, a stranger) and one with
the same tail two hours later; each may be missing. The cap of one is the
smallest the constructor allows, where every rival found before the payment
pushes it out. Time runs from the pinned instant the service decides at
(`Anchor`). Rules 10, 20, 30, 50, 60, 67, 72, 75 and 90 and the default fire
in this instance.

### Deadlock and fairness

Deadlock is checked in the runs of `VerificationService`, `ProofStore` and
`Pipeline`, where somebody can always send a request. A receipt that has been
asked and cropped and whose payments are spent has nothing left to happen to it,
a session ends at the bound on runs, and the calls of a session end when all have
settled, so the runs of `DecisionEngine`, `MerchantClient` and `SignIn` allow it.

`FairSpec` of `VerificationService` asks weak fairness of each process's submit
steps: the event loop runs a handler it has started until it returns. It asks
nothing of arrivals, approvals, failures and crashes. The step that waits for the
lock is disabled while another process holds it, so weak fairness does not promise
it the lock; `LockIsReleased` does not need it to. In `ProofStore`, weak fairness
of each thread's `ApproveStep` says that a pool thread runs an approval it has
begun; starting one, submitting and resetting are nobody's duty. In
`MerchantClient` and `SignIn`, a browser settles every fetch, with an answer or an
error, and runs the continuation that awaits it; the merchant need do nothing, and
nothing says that the fetch succeeds. In `Pipeline` the deadline of the call
(`TimesOut`) and the steps the server runs by itself are fair; that the model
answers is not assumed.

## Proofs

`VerificationServiceProofs`, for any number of processes, threads, orders,
pictures, transactions, keys, readings and crashes, from `ServiceAssumption`
(each pool thread belongs to a process, each upload becomes one picture, attempt
ids are numbers, a VERIFIED reading names one distinguishable candidate - the
engine's own post-condition - and the absent value is none of the present ones).

* `TypeCorrect`: `Spec => []TypeOK`. `TypeOK` is inductive as it stands because
  it includes `Filled`: which fields a submit has set by the stage it has
  reached, without which `Commit` could not be shown to write a well-formed row.
* `AllocationsAreBacked`: `Spec => []AllocationBacked`, no allocation without a
  VERIFIED attempt for its order and payment. Not inductive alone: an
  approval inserts what it read earlier. `MoneyInv` adds `ApprovalRests` - an
  approval in progress holds a committed VERIFIED attempt - which survives
  because no action changes or removes an attempt (`AttemptsGrow`).
* `ServiceImplementsLedger`: `Spec => ImplementsLedger`. Only `CommitApproval`
  touches the allocations (`OnlyApprovalsAllocate`), and under its two guards
  its effect is `Ledger!Spend`.
* `MoneyIsOneToOne`: `Spec => []Ledger!OneToOne`, proved of the ledger and carried
  over by the refinement.

`SubmitProofs`, from the same assumption.

* `NoBlobGoesMissing` and the action properties `AccusationsAreGrounded` and
  `FirstVerdictsAreFresh`, for any number of processes. At the step that commits a
  DUPLICATE, what it found is told apart by the rule that fired: R020 saw the
  matched payment allocated, and an allocation was approved (`PaidIsApproved`);
  otherwise R025 saw an attempt on the same picture accepted, and an accepted
  attempt was approved (`ReusedIsApproved`); no other rule answers DUPLICATE
  (`DuplicateIsTakenOrReused`). `SubmitInv` adds to
  `MoneyInv` what the lock and the look-ups are worth later on: a submit that
  writes holds the lock (`LockHeld`); its flags say what it did (`FlagsTrue`);
  an attempt id names one attempt, and a submit's id no other's
  (`AttemptIdsUnique`, `IdsInFlight`), without which the attempt behind an
  accepted picture could be another; an allocation was approved
  (`AllocationsApproved`); what a submit found in the history is still there
  (`FindingsTrue`); and what it found free while it held the lock is still free
  (`FreeUnderLock`), because nobody else can commit.
* `ProofsHaveBlobs`, `KeysBindTheirRequests`, `AttemptsAreBound` and `BindingsStay`
  assume `OneProcess`, the shipped deployment; TLC refutes each with two.
  `OneProcessInv` says that the early look-ups still hold: a key found unbound is
  unbound (`KeysInFlight`), a picture found or not found is still so and has its
  object (`PicturesInFlight`). One event loop runs one submit at a time, and
  approvals, which run beside it, touch neither.
* `CallsAreAtomic`: `Spec => ImplementsAtomic`, with `OneProcess`. The rows of the
  tables are the abstract ones as they are; every step but `Commit` and
  `CommitApproval` leaves them alone, and those two are one `Submit` and one
  `Approve`. `AtomicInv` adds to `SubmitInv` and `OneProcessInv` that a submit
  works on one of the readings there are (`ReadingsGiven`) and what its verdict
  rests on (`AnswersStand`): the history it found is part of the present one,
  since allocations only grow, and for a new picture it is all of it, since the
  flush of the picture took the write lock before the history was read.

`ProofStoreProofs`, for any number of threads, orders, pictures, keys and resets,
from `StoreAssumption` (requests and readings are well formed, ids are numbers,
the absent value is no job and no approval).

* `StoreTypeCorrect`: `Spec => []TypeOK`, inductive as it stands.
* `ReuseIsApproved`: `Spec => []ReuseRestsOnApproval`. A REUSED answer was
  decided long before it is stored, and on an accepted proof a reset may have
  dropped since. `EvidenceInv` follows the evidence back: what a thread has
  popped is approved (`HeldApproved`), so what it writes is (`AcceptedApproved`),
  so what a submit has decided on is (`JobRests`), so the answer rests on it.

* `AnsweredKeysStand`: the running submit's key has no answer yet
  (`KeyUnanswered`), so no answer is overwritten; any number of threads.
* `SettledAcceptancesStand`, for any number of threads. That the first acceptance
  stands outright is false (`demo_overwrite`), because the look-up and the write of
  `record_accepted` have no lock. What is proved is how far it is true: once no
  thread that looked before the acceptance is still to write, a thread that looks
  finds the picture and does not write (`EntersIfAbsent`), so the acceptance is
  displaced only by a reset. Of all threads only one moves in a step
  (`OneThreadMoves`).
* `ScriptsAreKept`, for any requests and readings: an order is answered what its
  reading comes to if it is `Undisturbed`, that is if its picture can verify no
  other order, or if a rule above R025 decides. Every order of the shipped script
  is one or the other, which is the reason the code gives (`adapters/proof_store.py`)
  why the demo cannot accuse its own orders. Every proof in any dictionary or hand
  comes from an order its picture can verify (`CanVerify`, `HistoryVerified`), so for
  such an order R025 never has the last word (`JobAnswersReading`).

`DecisionEngineProofs`, for any transactions, rows, receipts, feeds and policies,
from `EngineAssumption` (each input is of its type; transaction ids are numbers,
because they break ties).

* `EngineTypeCorrect`, `VerifiedMeansSafe`, `PostConditionNeverFails`,
  `TwinsAreNeverNamed`: the first four invariants of `engine_verdicts`, proved
  together as `EngineInv`: `TypeOK` needs `VerifiedIsSafe`, because an approval
  spends the transaction the answer names, which must be one.
* The argument. Any finite, non-empty ranking has a first (`TopExists`, by
  well-founded descent over the sets of candidates, since ties are broken by id),
  so `Best` is who it says (`BestIsFirst`); the rule that fires is the least that
  matches (`FirstMatchIs`), so when R080 or R090 fires every rule before it did
  not (`Verifying`), which is each part of `SafeToRelease` in turn. That the
  ambiguity rule is among them for an acceptable winner is what the constructor's
  `tau_ambiguous <= tau_accept` is for (`AcceptableIsEnough`). Twins score alike,
  so a ranking with twins on top is indistinguishable, and if one of them were
  dominant the other would carry the same exact id (`Distinguishable`).
* `HistoryCanOnlyAccuse`: `HistoryOnlyAccuses`, step by step. Thirteen of the fifteen
  rules do not read the history (`SameRules`); when the first match moves, it
  moves to R020 or R025, which an entry of this order's own never makes true.
* `CroppingOnlyLowers`: `CroppingNeverRaisesScore`. The aggregate is the weighted
  points over the weights; a missing field has no points and the penalty's share of
  its weight. Taking a field away lowers the quotient if its rung is worth at least
  the share that goes (`RemovalLowers`, `SumMonotone`), and the rounding is monotone
  (`RoundedMonotone`).
* `AggregateIsAFraction`: an aggregate lies between 0 and 1, from the same facts.

`ExplanationProofs`, from the same assumption and that no reason is the absent one.

* `SummariesTellTheFindings` and `StoredVerdictsReadTheSame`, for any ledger,
  receipt, history and policy the constructor accepts. The invariant is
  `AnswerIsCurrent`: an answer that stands is the decision on the present inputs.
  What remains is the rule table once more: with which reasons each rule can be
  the first that matches (`ReasonsAre`), and so which sentences a review has
  (`ReviewKinds`) and which of them its first reason alone would choose
  (`LeadTellsOverpayment`, `SameRows`).

`PipelineProofs`, for any pictures, feeds, names, policies and readers, from
`PipelineAssumption` (what the constants are, and that the engine's entries and
feeds include whatever a claim can be compared with) and the assumptions of the
modules it extends.

* `PipelineTypeCorrect` and `DoubtNeedsAFailedCheck`, together as `PipelineInv`. The
  work is in `SeenType` (every claim and row compare to one of the engine's
  entries, on rungs that exist) and `CloudField` (what a field of the claim says of
  its text).
* `FailureIsShownAsFailure`: under `LowestBar`, that no policy accepts a score of
  0. A claim with nothing in it is MISSING on every ladder, so every candidate
  scores 0 (`NothingScoresNothing`) and no rule that verifies fires;
  `ClaimTellsReply` carries the reason for the emptiness to the answer. That the
  answer is NEEDS_REVIEW instead is false (`failed_reading`).
* `VerdictIsSafeWhenGiven`: the engine's `DecideIsSafe` at the step `Answered`.
  `VerifiedIsSafe` itself is not an invariant here, because another order's
  approval may spend the payment afterwards.
* `PrintedIdIsNeverCut`: a payment found by the first key comes before any found
  by another (`GroupIsLeast`, `PrintedIdComesFirst`), so the least cap keeps it.
* `ImpreciseTimeNeverAgrees`: of the timestamp ladder, for every curve.
* `GenuineReceiptsNameTheirPayment`: `PipelineSpec => []GenuineReceiptNamesItsPayment`,
  from `ShippedWeights` (every policy has the weights and the penalty of
  `core/decide/policy.py` and bars at least as high) and `GenuineReceipts` (a
  receipt resembles its payment's row: the id but perhaps for its head, the amount,
  the time within the close rung or to the day, and the name, whatever a reader
  may leave out; and if any row carries the printed id in full, the payment's
  does). `InstanceIsGenuine` in `MCPipeline` shows that the instance of the run
  meets both. Nothing is assumed of the rivals, their number, or what the reader
  loses or mangles. The argument is arithmetic on the four ladders. A
  rival can be ahead of the payment only in time and in the id, by at most
  75 and 60 points (`ReferenceLead`, `AmountLead`, `TimeLead`, `NameLead`,
  `GenuineLead`); an aggregate that is accepted has at most one field missing and so
  at least 1450 to divide them by, which keeps the lead under the margin
  (`LeadIsSmall`); so a rival on top is either within the margin,
  and then not dominant unless it alone carries the printed id, or below the bar
  (`RivalNeverStandsAlone`). That the payment is among those scored at all is
  `PaymentIsScored`, from what the property asks when the search was cut off.
  `GenuineInv` adds to `PipelineInv` that the claim is a reading of the picture
  (`FromPicture`), that the rows are its comparisons with the feed
  (`RowsCompared`) and that the verdict that was given stands (`VerdictStands`).
* `RetrievalIsAFunction`: `Retrieved` says which sequence the search returns, and
  there is exactly one. What the cap keeps first is a strict linear order of the
  rows found (`BeforeIsLinear`), a finite set has one enumeration in a linear
  order (`OrderedExists`, `OrderedUnique`, by well-founded descent over its
  subsets and by the least position where two differ), and that
  enumeration is one of the engine's feeds (`OrderedIsAFeed`).

`MerchantClientProofs`, for any number of orders, screenshots, ids, runs and calls,
from `ClientAssumption`. `Inv` adds to the properties that runs are numbered
(`Numbered`), that the question on the wall is the one of the current run
(`Pending`), that a reply answers its own check (`RepliesAnswer`), which ids can be
clicked (`IdsAreStored`), that the flag for the way back agrees with the question
(`PlaceRemembered`) and that a released payment is in `used` (`Spent`). From it:
`TypeCorrect`, `LastAskAnswered`, `CheckingAwaited`, `ReleasedOnce` and, as an
action property, `LeavesForItsPlace`.

`SignInProofs`, for any number of calls and restarts, from `SignInAssumption`.
`TypeCorrect`, `RejectedByTwoBuilds`, `ActedOnce` and `NoneStranded` follow from
`Inv`: every sign-in belongs to an attempt of its call and every wait is for one in
flight (`WaitsAreInFlight`), no token is from a build still to come, and a retry
holds, or waits for, a token no older than the refusal behind it
(`RetriesAreNewer`) - a retry's sign-in is its own, because forgetting the token
forgets the promise too.

* `BurstsShare`: while no token was refused, the only sign-in that can be in flight
  is the shared one (`SharedIsTheSignIn`), and refusals are never taken back
  (`RefusalsGrow`).

`CheckingAwaited`, `BindingsStay` and `AllocationsAreBacked` are proved of properties
(`CheckingIsAwaited`, `KeysStayBound`, `AllocationBacked`) that no run keeps, since
the proofs cover every instance; the last also follows from `ImplementsAtomic`.

Only model-checked: `LockIsReleased`, `ApprovalLands`, `CheckingEnds`,
`CallsSettle` and `SubmissionsEnd`, because liveness under fairness is beyond the
prover.

## Plan

Done: `PaymentLedger`, `AtomicVerification`, `VerificationService`, `ProofStore`, `Amounts`,
`DecisionEngine`, `Explanation`, `ClaimedTime`, `Retrieval`, `Pipeline`,
`MerchantClient` and `SignIn`, with a proof module for each that has behaviour or
decides. Every safety property the passing runs check is a theorem.

Left:

1. `NameComparison`: the token alignment and the rungs of `core/compare/name.py`, so
   that `NameRung` is computed as the other ladders are.
2. A refinement of `ProofStore` to one table of accepted pictures, in which
   approvals that look before either has written may replace each other.

## Not modelled

* Confidence, headlines, labels, the text rendering and the neutral notes of
  `core/explain.py`: wording of a finished decision.
* `core/phonetics.py`, the character work of `core/normalize.py` and the metrics of
  `core/compare/name.py`: string arithmetic. Their results are parameters
  (`NameKeys`, `NameRung`, `LongTails`) or parts of a reference.
* `orders.py`, `transactions.py`, `reviews.py`, `dashboard.py`, the claim and
  transaction views of the stored reads: stateless conversions and fixed data.
* `main.py`, `config.py` beyond the choice of the reader, middleware: wiring.
* Seed, manifest and threshold tools, migrations beyond the constraints they
  create: offline scripts without behaviour over time.
* PostgreSQL, several merchants (tenancy is a filter on every query), contested
  histories and order-less proofs (nothing the repositories return contains them).
* Rendering, filters and the mock fixtures of the frontend.
