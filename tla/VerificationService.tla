------------------------ MODULE VerificationService ------------------------
(***************************************************************************)
(* The persisted verification path of the backend: POST /verifications     *)
(* (_submit_persisted in api/verification_service.py) and                  *)
(* POST /verifications/{id}/approve (api/v1/verifications.py with          *)
(* activate_for_attempt in db/repositories/allocations.py), over the       *)
(* relational database and the proof blob store they share.                *)
(*                                                                         *)
(* The submit handler is an `async def` that calls synchronous code, so    *)
(* the event loop of one server process runs one submit at a time; approve *)
(* is a plain `def`, so FastAPI runs it on a pool thread beside the submit *)
(* and beside other approvals.  A Process is one such event loop, an       *)
(* Approver one such pool thread, Host[a] the process it belongs to.       *)
(*                                                                         *)
(* The database is the default one, SQLite: statements outside a write     *)
(* transaction read the last committed rows, the first flush of a          *)
(* transaction takes the database's only write lock, and the lock is held  *)
(* until commit or rollback.  A process that holds the lock is the member  *)
(* of `writer`; an approval flushes and commits in one call, so it never   *)
(* holds the lock between two of its steps.                                *)
(***************************************************************************)
EXTENDS Naturals

CONSTANTS
    Process,        \* server processes: one event loop each
    Approver,       \* pool threads running approve_verification
    Host,           \* the process of each approver
    Order,          \* the merchant's orders
    Content,        \* uploaded byte strings
    Image,          \* sanitised pictures, named by stored_sha256
    StoredAs,       \* the picture validate_image makes of an upload
    Txn,            \* the merchant's transactions, none of them REVERSED
    Key,            \* client-supplied idempotency keys
    AttemptId,      \* attempt ids; their order is the order of the UUIDs
    Readings,       \* what extraction and scoring can make of an upload
    MaxCrashes,     \* bound on process crashes
    None            \* the absent value

VARIABLES
    proofs,         \* pictures with a payment_proofs row
    blobs,          \* pictures present in the blob store
    attempts,       \* committed verification_attempts rows
    allocations,    \* ACTIVE transaction_allocations rows
    bindings,       \* COMPLETED idempotency_records rows
    writer,         \* the process holding the database write lock, if any
    job,            \* the submit each process is running
    approval,       \* the approval each pool thread is running
    approvals,      \* history: approvals answered, and how
    leaked,         \* history: pictures whose clean-up was cut short
    crashes         \* number of crashes so far

vars == <<proofs, blobs, attempts, allocations, bindings, writer, job,
          approval, approvals, leaked, crashes>>
database == <<proofs, attempts, allocations, bindings>>
approving == <<approval, approvals>>
history == <<leaked, crashes>>

-----------------------------------------------------------------------------
Status == {"VERIFIED", "NEEDS_REVIEW", "SUSPICIOUS", "UNMATCHED", "DUPLICATE"}

(***************************************************************************)
(* A reading stands for an extracted claim scored against the ledger for   *)
(* the order: the best candidate, whether the ranking could tell it from   *)
(* the runner-up, and the verdict of the rules below R025, the last rule   *)
(* that looks at what other submissions did.  The engine refuses to build  *)
(* a VERIFIED decision that names no transaction.                          *)
(***************************************************************************)
Reading == [best : Txn \cup {None},
            distinct : BOOLEAN,
            verdict : Status \ {"DUPLICATE"}]

Request == [order : Order, content : Content, key : Key]

Attempt == [id : AttemptId, order : Order, image : Image,
            status : Status, txn : Txn \cup {None}]

\* What an approval can hold: an attempt that names a transaction.
Paying == [id : AttemptId, order : Order, image : Image,
           status : Status, txn : Txn]

Allocation == [txn : Txn, order : Order, attempt : AttemptId]

Binding == [key : Key, order : Order, content : Content, attempt : AttemptId]

ASSUME ServiceAssumption ==
    /\ Host \in [Approver -> Process]
    /\ StoredAs \in [Content -> Image]
    /\ AttemptId \subseteq Nat
    /\ MaxCrashes \in Nat
    /\ Readings \subseteq Reading
    /\ \A r \in Readings : r.verdict = "VERIFIED" => r.best # None /\ r.distinct
    /\ None \notin Txn /\ None \notin AttemptId /\ None \notin Status
    /\ None \notin Request /\ None \notin Reading /\ None \notin Attempt

\* Where a submit stands: the name of the step it takes next.
Stage == {"idle", "key", "scope", "store", "extract", "begin", "insert",
          "read", "decide", "commit", "undo"}

Job == [stage : Stage,
        req : Request \cup {None},
        id : AttemptId \cup {None},
        known : BOOLEAN,        \* existing_proof is not None
        created : BOOLEAN,      \* proof_created
        reading : Reading \cup {None},
        taken : BOOLEAN,        \* the best candidate pays another order
        status : Status \cup {None},
        txn : Txn \cup {None}]

NoJob == [stage |-> "idle", req |-> None, id |-> None, known |-> FALSE,
          created |-> FALSE, reading |-> None, taken |-> FALSE,
          status |-> None, txn |-> None]

\* The fields a step reads have been set by the steps before it.
Filled(j) ==
    /\ j.stage # "idle" => j.req # None
    /\ j.stage \in {"begin", "insert", "read", "decide", "commit"}
         => j.id # None /\ j.reading # None
    /\ j.stage = "commit" => j.status # None

ImageOf(p) == StoredAs[job[p].req.content]

\* The submit has an object in the store that it may have to take back.
HasPut(p) ==
    /\ ~job[p].known
    /\ job[p].stage \in {"extract", "begin", "insert", "read", "decide", "commit", "undo"}

JobsOK ==
    /\ job \in [Process -> Job]
    /\ \A p \in Process : Filled(job[p])

TypeOK ==
    /\ proofs \subseteq Image
    /\ blobs \subseteq Image
    /\ attempts \subseteq Attempt
    /\ allocations \subseteq Allocation
    /\ bindings \subseteq Binding
    /\ writer \subseteq Process
    /\ JobsOK
    /\ approval \in [Approver -> Paying \cup {None}]
    /\ approvals \subseteq AttemptId \X {204, 500}
    /\ leaked \subseteq Image
    /\ crashes \in 0..MaxCrashes

Init ==
    /\ proofs = {} /\ blobs = {} /\ attempts = {} /\ allocations = {}
    /\ bindings = {} /\ writer = {}
    /\ job = [p \in Process |-> NoJob]
    /\ approval = [a \in Approver |-> None]
    /\ approvals = {} /\ leaked = {} /\ crashes = 0

-----------------------------------------------------------------------------
(***************************************************************************)
(* Submit, before the write transaction.                                   *)
(***************************************************************************)
Become(p, j) == job' = [job EXCEPT ![p] = j]
Finish(p) == Become(p, NoJob)

\* A request reaches an idle event loop.
Receive(p) ==
    /\ job[p].stage = "idle"
    /\ \E r \in Request : Become(p, [job[p] EXCEPT !.stage = "key", !.req = r])
    /\ UNCHANGED <<database, blobs, writer, approving, history>>

\* Mutant: a record whose fingerprint differs is taken for no record.
LookupKeyMissesConflict(p) ==
    /\ job[p].stage = "key"
    /\ IF \E b \in bindings : /\ b.key = job[p].req.key
                              /\ b.order = job[p].req.order
                              /\ b.content = job[p].req.content
          THEN Finish(p)
          ELSE Become(p, [job[p] EXCEPT !.stage = "scope"])
    /\ UNCHANGED <<database, blobs, writer, approving, history>>

\* get_for_key: a bound key ends the request, as a replay of the stored
\* response when the fingerprint (order and bytes) is the same and as a 409
\* otherwise; neither changes any state.
LookupKey(p) ==
    /\ job[p].stage = "key"
    /\ IF \E b \in bindings : b.key = job[p].req.key
          THEN Finish(p)
          ELSE Become(p, [job[p] EXCEPT !.stage = "scope"])
    /\ UNCHANGED <<database, blobs, writer, approving, history>>

\* No active membership (403), no such order (404), an order assigned to
\* another verifier (403), or an upload that is not an acceptable image.
Refuse(p) ==
    /\ job[p].stage = "scope"
    /\ Finish(p)
    /\ UNCHANGED <<database, blobs, writer, approving, history>>

\* find_by_hash outside the write transaction decides whether to store.
LookupProof(p) ==
    /\ job[p].stage = "scope"
    /\ LET known == ImageOf(p) \in proofs IN
         Become(p, [job[p] EXCEPT !.known = known,
                                  !.stage = IF known THEN "extract" ELSE "store"])
    /\ UNCHANGED <<database, blobs, writer, approving, history>>

\* LocalStorage.put replaces the object atomically ...
PutBlob(p) ==
    /\ job[p].stage = "store"
    /\ blobs' = blobs \cup {ImageOf(p)}
    /\ Become(p, [job[p] EXCEPT !.stage = "extract"])
    /\ UNCHANGED <<database, writer, approving, history>>

\* ... or raises StorageError and leaves the store alone: 503.
PutFails(p) ==
    /\ job[p].stage = "store"
    /\ Finish(p)
    /\ UNCHANGED <<database, blobs, writer, approving, history>>

KeepBlob == UNCHANGED <<blobs, leaked>>

\* The submit ends without taking back what it put.
LeaveBlob(p) ==
    /\ UNCHANGED blobs
    /\ leaked' = IF HasPut(p) THEN leaked \cup {ImageOf(p)} ELSE leaked

\* The delete of a clean-up path, whose StorageError is swallowed.
DeleteBlob(p) ==
    \/ blobs' = blobs \ {ImageOf(p)} /\ UNCHANGED leaked
    \/ LeaveBlob(p)

FreshId == AttemptId \ ({r.id : r \in attempts} \cup {job[p].id : p \in Process})

\* _extract_claim succeeds.  uuid4 gives the attempt an id nobody else has;
\* AttemptId bounds how many there are.
Extract(p) ==
    /\ job[p].stage = "extract"
    /\ \E i \in FreshId, r \in Readings :
         Become(p, [job[p] EXCEPT !.stage = "begin", !.id = i, !.reading = r])
    /\ UNCHANGED <<database, blobs, writer, approving, history>>

\* Mutant: the object goes whether or not a row names it.
ExtractFailsDeletes(p) ==
    /\ job[p].stage = "extract"
    /\ DeleteBlob(p)
    /\ Finish(p)
    /\ UNCHANGED <<database, writer, approving, crashes>>

\* Mutant: no clean-up after a failed extraction.
ExtractFailsKeeps(p) ==
    /\ job[p].stage = "extract"
    /\ KeepBlob
    /\ Finish(p)
    /\ UNCHANGED <<database, writer, approving, crashes>>

\* _extract_claim raises: the object goes if the first lookup saw no row.
ExtractFails(p) ==
    /\ job[p].stage = "extract"
    /\ IF job[p].known THEN KeepBlob ELSE DeleteBlob(p)
    /\ Finish(p)
    /\ UNCHANGED <<database, writer, approving, crashes>>

-----------------------------------------------------------------------------
(***************************************************************************)
(* Submit, the write transaction.                                          *)
(***************************************************************************)
CanWrite(p) == writer \subseteq {p}

\* Mutant: a picture that already has a row skips the decision.
BeginSkipsDecision(p) ==
    /\ job[p].stage = "begin"
    /\ LET new == ImageOf(p) \notin proofs IN
         Become(p, [job[p] EXCEPT !.created = new,
                                  !.stage = IF new THEN "insert" ELSE "commit"])
    /\ UNCHANGED <<database, blobs, writer, approving, history>>

\* The second find_by_hash; proof_created is set before the row is flushed.
Begin(p) ==
    /\ job[p].stage = "begin"
    /\ LET new == ImageOf(p) \notin proofs IN
         Become(p, [job[p] EXCEPT !.created = new,
                                  !.stage = IF new THEN "insert" ELSE "read"])
    /\ UNCHANGED <<database, blobs, writer, approving, history>>

\* Membership or order gone since the first check: 404 with proof_created
\* still False, so an object stored by this request stays behind.
Revoked(p) ==
    /\ job[p].stage = "begin"
    /\ LeaveBlob(p)
    /\ Finish(p)
    /\ UNCHANGED <<database, writer, approving, crashes>>

\* Mutant: the row is added to the session and not flushed.
InsertProofUnflushed(p) ==
    /\ job[p].stage = "insert"
    /\ ImageOf(p) \notin proofs
    /\ Become(p, [job[p] EXCEPT !.stage = "read"])
    /\ UNCHANGED <<database, blobs, writer, approving, history>>

\* Flush of the payment_proofs row.  It takes the write lock; the row itself
\* is visible to others only from Commit on.
InsertProof(p) ==
    /\ job[p].stage = "insert"
    /\ CanWrite(p)
    /\ ImageOf(p) \notin proofs
    /\ writer' = {p}
    /\ Become(p, [job[p] EXCEPT !.stage = "read"])
    /\ UNCHANGED <<database, blobs, approving, history>>

\* The same flush against uq (merchant_id, sha256_hash): IntegrityError.
InsertProofConflicts(p) ==
    /\ job[p].stage = "insert"
    /\ CanWrite(p)
    /\ ImageOf(p) \in proofs
    /\ Become(p, [job[p] EXCEPT !.stage = "undo"])
    /\ UNCHANGED <<database, blobs, writer, approving, history>>

\* check_candidate: the transaction pays an order other than this one.
PaysAnother(t, o) == \E l \in allocations : l.txn = t /\ l.order # o

\* Mutant: a VERIFIED attempt counts as accepted before anyone approved it.
AcceptedUnapproved(i) ==
    {r \in attempts : r.image = i /\ r.status = "VERIFIED"}

\* list_accepted_for_engine: VERIFIED attempts on the picture that have an
\* ACTIVE allocation ...
Accepted(i) ==
    {r \in attempts : /\ r.image = i
                      /\ r.status = "VERIFIED"
                      /\ \E l \in allocations : l.attempt = r.id}

\* ... of which the one with the least id speaks for the picture, and
\* check_proof exempts the order it was accepted for.
Reused(i, o) ==
    \E r \in Accepted(i) : /\ \A s \in Accepted(i) : r.id <= s.id
                           /\ r.order # o

\* The first matching rule: R010 without candidates, R020 on an allocated
\* best candidate, R025 on a reused picture, the reading's verdict otherwise.
Verdict(r, taken, reused) ==
    CASE r.best = None -> "UNMATCHED"
      [] r.best # None /\ (taken \/ reused) -> "DUPLICATE"
      [] OTHER -> r.verdict

\* _matched_txn_id: no name for UNMATCHED, for candidates the ranking cannot
\* separate, or for R025, which never looked at the ranking.
Named(r, taken, reused) ==
    IF \/ Verdict(r, taken, reused) = "UNMATCHED"
       \/ ~r.distinct
       \/ reused /\ ~taken
    THEN None
    ELSE r.best

\* list_active_for_engine.
ReadAllocations(p) ==
    /\ job[p].stage = "read"
    /\ LET taken == PaysAnother(job[p].reading.best, job[p].req.order) IN
         Become(p, [job[p] EXCEPT !.stage = "decide", !.taken = taken])
    /\ UNCHANGED <<database, blobs, writer, approving, history>>

\* list_accepted_for_engine, a later statement, and then decide().
Decide(p) ==
    /\ job[p].stage = "decide"
    /\ LET reused == Reused(ImageOf(p), job[p].req.order)
           r == job[p].reading
           taken == job[p].taken
       IN Become(p, [job[p] EXCEPT !.stage = "commit",
                                   !.status = Verdict(r, taken, reused),
                                   !.txn = Named(r, taken, reused)])
    /\ UNCHANGED <<database, blobs, writer, approving, history>>

NewAttempt(p) ==
    [id |-> job[p].id, order |-> job[p].req.order, image |-> ImageOf(p),
     status |-> job[p].status, txn |-> job[p].txn]

\* Mutant: no idempotency record is added.
BindNothing(k, o, c, i) == bindings

\* The record a key is bound to: a new one carries this request, an existing
\* one keeps its fingerprint and has its attempt and response overwritten.
Bind(k, o, c, i) ==
    IF \E b \in bindings : b.key = k
    THEN {IF b.key = k THEN [b EXCEPT !.attempt = i] ELSE b : b \in bindings}
    ELSE bindings \cup {[key |-> k, order |-> o, content |-> c, attempt |-> i]}

\* The flush of the attempt (which takes the lock unless the proof's flush
\* did), the second get_for_key, the idempotency record, and the commit.
Commit(p) ==
    /\ job[p].stage = "commit"
    /\ CanWrite(p)
    /\ proofs' = proofs \cup {ImageOf(p)}
    /\ attempts' = attempts \cup {NewAttempt(p)}
    /\ bindings' = Bind(job[p].req.key, job[p].req.order, job[p].req.content, job[p].id)
    /\ writer' = {}
    /\ Finish(p)
    /\ UNCHANGED <<allocations, blobs, approving, history>>

\* Mutant: the connection goes back to the pool without a rollback.
AbortWithoutRollback(p) ==
    /\ job[p].stage \in {"insert", "read", "decide", "commit"}
    /\ Become(p, [job[p] EXCEPT !.stage = "undo"])
    /\ UNCHANGED <<database, blobs, writer, approving, history>>

\* Any exception in the transaction, the 30 s wait for the lock included:
\* the transaction rolls back and with it the lock goes.
Abort(p) ==
    /\ job[p].stage \in {"insert", "read", "decide", "commit"}
    /\ writer' = writer \ {p}
    /\ Become(p, [job[p] EXCEPT !.stage = "undo"])
    /\ UNCHANGED <<database, blobs, approving, history>>

\* The outer except clause.
Undo(p) ==
    /\ job[p].stage = "undo"
    /\ IF job[p].created THEN DeleteBlob(p) ELSE KeepBlob
    /\ Finish(p)
    /\ UNCHANGED <<database, writer, approving, crashes>>

-----------------------------------------------------------------------------
(***************************************************************************)
(* Approve.                                                                *)
(***************************************************************************)
Spent(t) == \E l \in allocations : l.txn = t
Paid(o)  == \E l \in allocations : l.order = o

\* Mutant: any attempt that names a transaction can spend it.
SpendableUnverified(r) == r.txn # None /\ ~Spent(r.txn)

Spendable(r) == r.status = "VERIFIED" /\ r.txn # None /\ ~Spent(r.txn)

\* activate_for_attempt finds nothing to spend, or the transaction already
\* spent: 204 and no write.  An unknown id does the same and leaves no trace.
ApproveQuietly(a) ==
    /\ approval[a] = None
    /\ \E r \in attempts : /\ ~Spendable(r)
                           /\ approvals' = approvals \cup {<<r.id, 204>>}
    /\ UNCHANGED <<database, blobs, writer, job, approval, history>>

\* activate_for_attempt reads a spendable attempt and adds an allocation to
\* its session; nothing is flushed yet.
ReadForApproval(a) ==
    /\ approval[a] = None
    /\ \E r \in attempts : /\ Spendable(r)
                           /\ approval' = [approval EXCEPT ![a] = r]
    /\ UNCHANGED <<database, blobs, writer, job, approvals, history>>

\* Mutant: no unique index on the order.
CommitApprovalTwicePaid(a) ==
    /\ approval[a] # None
    /\ writer = {}
    /\ ~Spent(approval[a].txn)
    /\ allocations' = allocations \cup
         {[txn |-> approval[a].txn, order |-> approval[a].order,
           attempt |-> approval[a].id]}
    /\ approvals' = approvals \cup {<<approval[a].id, 204>>}
    /\ approval' = [approval EXCEPT ![a] = None]
    /\ UNCHANGED <<proofs, attempts, bindings, blobs, writer, job, history>>

\* session.commit() when both partial unique indexes admit the row.
CommitApproval(a) ==
    /\ approval[a] # None
    /\ writer = {}
    /\ ~Spent(approval[a].txn)
    /\ ~Paid(approval[a].order)
    /\ allocations' = allocations \cup
         {[txn |-> approval[a].txn, order |-> approval[a].order,
           attempt |-> approval[a].id]}
    /\ approvals' = approvals \cup {<<approval[a].id, 204>>}
    /\ approval' = [approval EXCEPT ![a] = None]
    /\ UNCHANGED <<proofs, attempts, bindings, blobs, writer, job, history>>

\* session.commit() when one of them does not: IntegrityError, a 500.
ApprovalConflicts(a) ==
    /\ approval[a] # None
    /\ writer = {}
    /\ Spent(approval[a].txn) \/ Paid(approval[a].order)
    /\ approvals' = approvals \cup {<<approval[a].id, 500>>}
    /\ approval' = [approval EXCEPT ![a] = None]
    /\ UNCHANGED <<database, blobs, writer, job, history>>

\* session.commit() that waits 30 s for the lock in vain: OperationalError.
ApprovalTimesOut(a) ==
    /\ approval[a] # None
    /\ writer # {}
    /\ approval' = [approval EXCEPT ![a] = None]
    /\ UNCHANGED <<database, blobs, writer, job, approvals, history>>

-----------------------------------------------------------------------------
\* A server process dies.  Its submit and its approvals are gone, SQLite
\* rolls their transactions back, the blob store keeps what was put.
Crash(p) ==
    /\ crashes < MaxCrashes
    /\ crashes' = crashes + 1
    /\ writer' = writer \ {p}
    /\ Finish(p)
    /\ approval' = [a \in Approver |-> IF Host[a] = p THEN None ELSE approval[a]]
    /\ LeaveBlob(p)
    /\ UNCHANGED <<database, approvals>>

\* The steps of a submit other than its arrival.
SubmitStep(p) ==
    \/ LookupKey(p) \/ Refuse(p) \/ LookupProof(p)
    \/ PutBlob(p) \/ PutFails(p) \/ Extract(p) \/ ExtractFails(p)
    \/ Begin(p) \/ Revoked(p) \/ InsertProof(p) \/ InsertProofConflicts(p)
    \/ ReadAllocations(p) \/ Decide(p) \/ Commit(p) \/ Undo(p)

Next ==
    \/ \E p \in Process : Receive(p) \/ SubmitStep(p) \/ Abort(p) \/ Crash(p)
    \/ \E a \in Approver : \/ ApproveQuietly(a) \/ ReadForApproval(a)
                           \/ CommitApproval(a) \/ ApprovalConflicts(a)
                           \/ ApprovalTimesOut(a)

Spec == Init /\ [][Next]_vars

\* A submit that has begun keeps running.  Nothing forces a request to
\* arrive, a transaction to fail, a wait to time out or a process to die.
FairSpec == Spec /\ \A p \in Process : WF_vars(SubmitStep(p))

-----------------------------------------------------------------------------
(***************************************************************************)
(* Money.                                                                  *)
(***************************************************************************)
\* The allocations as the ledger sees them.
Spends == {<<l.txn, l.order>> : l \in allocations}

Ledger == INSTANCE PaymentLedger WITH spends <- Spends

\* The allocations behave as the payment ledger: one order per transaction,
\* one transaction per order, nothing given back, however submits, approvals
\* and crashes interleave (docs/data-model.md 10.3).
ImplementsLedger == Ledger!Spec

Atomic == INSTANCE AtomicVerification

\* In one server process submit and approve are each one step, whatever their
\* statements interleave with and wherever they fail: an answer, its picture
\* and its key appear together, on an unbound key, and the verdict on a new
\* picture rests on the allocations of that moment (docs/system-design.md 14,
\* docs/data-model.md 8.3 and 10.3).
ImplementsAtomic == Atomic!Spec

\* An allocation rests on a committed VERIFIED attempt for the same order and
\* the same transaction: no path spends a payment the engine did not verify
\* (activate_for_attempt works from a row it read in an earlier statement).
AllocationBacked ==
    \A l \in allocations : \E r \in attempts :
        /\ r.id = l.attempt
        /\ r.status = "VERIFIED"
        /\ r.txn = l.txn
        /\ r.order = l.order

\* A merchant approved this transaction for an order other than o ...
PaymentApproved(t, o) ==
    \E l \in allocations :
        l.txn = t /\ l.order # o /\ <<l.attempt, 204>> \in approvals

\* ... or a VERIFIED attempt on this very picture for another order.
PictureApproved(i, o) ==
    \E l \in allocations, s \in attempts :
        /\ s.id = l.attempt /\ l.order # o /\ <<s.id, 204>> \in approvals
        /\ s.status = "VERIFIED" /\ s.image = i

\* Looking at a receipt accuses nobody: when a DUPLICATE verdict is committed,
\* a merchant has approved for another order the very payment the receipt was
\* matched with, if R020 gave it, or the very picture, if R025 did - also where
\* an approval came between the two history reads and R025 fired alone.
NoAccusationWithoutApproval ==
    [][\A r \in attempts' \ attempts : r.status = "DUPLICATE" =>
         \E p \in Process :
            /\ job[p].id = r.id
            /\ IF job[p].taken THEN PaymentApproved(job[p].reading.best, r.order)
                               ELSE PictureApproved(r.image, r.order)]_vars

\* The first verdict on a picture is never stale.  Its transaction holds the
\* write lock from the flush of the proof row on, so no approval commits
\* between the allocation read and the verdict's own commit.
FirstVerdictIsFresh ==
    [][\A r \in attempts' \ attempts :
         r.status = "VERIFIED" /\ r.image \notin proofs
            => ~PaysAnother(r.txn, r.order)]_vars

-----------------------------------------------------------------------------
(***************************************************************************)
(* Pictures.                                                               *)
(***************************************************************************)
\* Every payment_proofs row has its object: the evidence behind a stored
\* verdict can be opened, whatever failed after the row was committed.
ProofHasBlob == proofs \subseteq blobs

\* Every object in the store is named by a row, belongs to a running submit,
\* or was left by a crash, a failed delete or a revoked membership: the
\* clean-up paths miss nothing else.
BlobsAccounted ==
    blobs \subseteq proofs \cup leaked \cup {ImageOf(p) : p \in {q \in Process : HasPut(q)}}

-----------------------------------------------------------------------------
(***************************************************************************)
(* Idempotency.                                                            *)
(***************************************************************************)
\* A key that has been bound replays the same attempt ever after: the record
\* is neither replaced nor pointed elsewhere (docs/system-design.md 14).
KeysStayBound == [][bindings \subseteq bindings']_vars

\* The attempt a key replays was made for the request whose fingerprint the
\* record carries (IdempotencyRecord's docstring).
KeyBindsItsRequest ==
    \A b \in bindings : \E r \in attempts :
        /\ r.id = b.attempt
        /\ r.order = b.order
        /\ r.image = StoredAs[b.content]

\* Every attempt is the attempt of some key, so retrying a request, after a
\* crash or beside the original, never leaves a second attempt behind
\* (docs/data-model.md 8.3).
EveryAttemptBound ==
    \A r \in attempts : \E b \in bindings : b.attempt = r.id

-----------------------------------------------------------------------------
(***************************************************************************)
(* The database lock.                                                      *)
(***************************************************************************)
\* A submit that took the write lock gives it back, by commit, rollback or
\* death; otherwise every later approval would time out.
LockIsReleased == \A p \in Process : p \in writer ~> p \notin writer

-----------------------------------------------------------------------------
(***************************************************************************)
(* A statement of the documentation that the code does not keep.           *)
(***************************************************************************)
\* activate_for_attempt "must not raise for any" of the cases with nothing to
\* spend, "a second approval of something already allocated" among them; the
\* route answers 204 to all of them.
ApprovalNeverRaises == \A i \in AttemptId : <<i, 500>> \notin approvals
=============================================================================
