--------------------- MODULE VerificationServiceProofs ---------------------
(***************************************************************************)
(* Proofs about VerificationService for every value of its constants: any  *)
(* number of server processes, pool threads, orders, pictures,             *)
(* transactions, keys and readings, and any bound on crashes.              *)
(***************************************************************************)
EXTENDS VerificationService, TLAPS

-----------------------------------------------------------------------------
(***************************************************************************)
(* Type correctness.                                                       *)
(***************************************************************************)
\* A process that moves on to a well-formed job leaves every job well formed.
LEMMA BecomeType ==
  ASSUME TypeOK, NEW p \in Process, NEW j \in Job, Filled(j), Become(p, j)
  PROVE  JobsOK'
  BY DEF TypeOK, JobsOK, Become, Filled

LEMMA FinishType ==
  ASSUME TypeOK, NEW p \in Process, Finish(p)
  PROVE  JobsOK'
  <1>1. NoJob \in Job
    BY DEF NoJob, Job, Stage
  <1>2. Filled(NoJob)
    BY DEF NoJob, Filled
  <1>3. QED
    BY <1>1, <1>2, BecomeType DEF Finish

\* The picture of a running submit is one of the pictures.
LEMMA ImageType ==
  ASSUME TypeOK, NEW p \in Process, job[p].stage # "idle"
  PROVE  ImageOf(p) \in Image
  BY ServiceAssumption DEF TypeOK, JobsOK, Filled, Job, Request, ImageOf

LEMMA InitTypeOK == Init => TypeOK
  BY ServiceAssumption DEF Init, TypeOK, JobsOK, Filled, NoJob, Job, Stage

\* A running job has a request, and from the extraction on an id and a
\* reading.
LEMMA JobFields ==
  ASSUME TypeOK, NEW p \in Process
  PROVE  /\ job[p] \in Job
         /\ Filled(job[p])
  BY DEF TypeOK, JobsOK

\* A step that only moves one submit on.
LEMMA MoveType ==
  ASSUME TypeOK, NEW p \in Process, NEW j \in Job, Filled(j), Become(p, j),
         UNCHANGED <<database, blobs, writer, approving, history>>
  PROVE  TypeOK'
  <1>1. JobsOK'
    BY BecomeType
  <1>2. QED
    BY <1>1 DEF TypeOK, database, approving, history

\* A step that ends a submit and touches at most the blob store.
LEMMA EndType ==
  ASSUME TypeOK, NEW p \in Process, Finish(p),
         blobs' \subseteq Image, leaked' \subseteq Image,
         UNCHANGED <<database, writer, approving, crashes>>
  PROVE  TypeOK'
  <1>1. JobsOK'
    BY FinishType
  <1>2. QED
    BY <1>1 DEF TypeOK, database, approving

\* The clean-up of a submit keeps the store and the leaked pictures pictures.
LEMMA CleanUpType ==
  ASSUME TypeOK, NEW p \in Process, job[p].stage # "idle",
         DeleteBlob(p) \/ LeaveBlob(p) \/ KeepBlob
  PROVE  blobs' \subseteq Image /\ leaked' \subseteq Image
  <1>1. ImageOf(p) \in Image
    BY ImageType
  <1>2. blobs \subseteq Image /\ leaked \subseteq Image
    BY DEF TypeOK
  <1>3. QED
    BY <1>1, <1>2 DEF DeleteBlob, LeaveBlob, KeepBlob

LEMMA BeforeTransactionType ==
  ASSUME TypeOK, NEW p \in Process,
         \/ Receive(p) \/ LookupKey(p) \/ Refuse(p) \/ LookupProof(p)
         \/ PutBlob(p) \/ PutFails(p) \/ Extract(p) \/ ExtractFails(p)
  PROVE  TypeOK'
  <1>1. CASE Receive(p)
    <2>1. PICK r \in Request : Become(p, [job[p] EXCEPT !.stage = "key", !.req = r])
      BY <1>1 DEF Receive
    <2> DEFINE j == [job[p] EXCEPT !.stage = "key", !.req = r]
    <2>2. j \in Job /\ Filled(j)
      BY JobFields, ServiceAssumption DEF Job, Stage, Filled
    <2>3. QED
      BY <1>1, <2>1, <2>2, MoveType DEF Receive
  <1>2. CASE LookupKey(p)
    <2> DEFINE j == [job[p] EXCEPT !.stage = "scope"]
    <2>1. j \in Job /\ Filled(j)
      BY <1>2, JobFields DEF LookupKey, Job, Stage, Filled
    <2>2. NoJob \in Job /\ Filled(NoJob)
      BY DEF NoJob, Job, Stage, Filled
    <2>3. QED
      BY <1>2, <2>1, <2>2, MoveType DEF LookupKey, Finish
  <1>3. CASE Refuse(p) \/ PutFails(p)
    BY <1>3, EndType DEF Refuse, PutFails, TypeOK, history
  <1>4. CASE LookupProof(p)
    <2>1. CASE ImageOf(p) \in proofs
      <3> DEFINE j == [job[p] EXCEPT !.known = TRUE, !.stage = "extract"]
      <3>1. j \in Job /\ Filled(j)
        BY <1>4, JobFields DEF LookupProof, Job, Stage, Filled
      <3>2. Become(p, j)
        BY <1>4, <2>1 DEF LookupProof, Become
      <3>3. QED
        BY <1>4, <3>1, <3>2, MoveType DEF LookupProof
    <2>2. CASE ImageOf(p) \notin proofs
      <3> DEFINE j == [job[p] EXCEPT !.known = FALSE, !.stage = "store"]
      <3>1. j \in Job /\ Filled(j)
        BY <1>4, JobFields DEF LookupProof, Job, Stage, Filled
      <3>2. (ImageOf(p) \in proofs) = FALSE
        BY <2>2
      <3>3. Become(p, j)
        BY <1>4, <3>2, Zenon DEF LookupProof
      <3>4. QED
        BY <1>4, <3>1, <3>3, MoveType DEF LookupProof
    <2>3. QED
      BY <2>1, <2>2
  <1>5. CASE PutBlob(p)
    <2> DEFINE j == [job[p] EXCEPT !.stage = "extract"]
    <2>1. j \in Job /\ Filled(j)
      BY <1>5, JobFields DEF PutBlob, Job, Stage, Filled
    <2>2. JobsOK'
      BY <1>5, <2>1, BecomeType DEF PutBlob
    <2>3. ImageOf(p) \in Image
      BY <1>5, ImageType DEF PutBlob
    <2>4. QED
      BY <1>5, <2>2, <2>3 DEF PutBlob, TypeOK, database, approving, history
  <1>6. CASE Extract(p)
    <2>1. PICK i \in FreshId, r \in Readings :
            Become(p, [job[p] EXCEPT !.stage = "begin", !.id = i, !.reading = r])
      BY <1>6 DEF Extract
    <2> DEFINE j == [job[p] EXCEPT !.stage = "begin", !.id = i, !.reading = r]
    <2>2. i \in AttemptId /\ i # None /\ r \in Reading /\ r # None
      BY ServiceAssumption DEF FreshId
    <2>3. j \in Job /\ Filled(j)
      BY <1>6, <2>2, JobFields DEF Extract, Job, Stage, Filled
    <2>4. QED
      BY <1>6, <2>1, <2>3, MoveType DEF Extract
  <1>7. CASE ExtractFails(p)
    <2>1. blobs' \subseteq Image /\ leaked' \subseteq Image
      BY <1>7, CleanUpType DEF ExtractFails
    <2>2. QED
      BY <1>7, <2>1, EndType DEF ExtractFails
  <1>8. QED
    BY <1>1, <1>2, <1>3, <1>4, <1>5, <1>6, <1>7

\* The decision gives a submit a status and a transaction or None.
LEMMA DecisionType ==
  ASSUME NEW r \in Reading, NEW taken \in BOOLEAN, NEW reused \in BOOLEAN
  PROVE  /\ Verdict(r, taken, reused) \in Status
         /\ Named(r, taken, reused) \in Txn \cup {None}
  <1>1. /\ r.best \in Txn \cup {None}
        /\ r.distinct \in BOOLEAN
        /\ r.verdict \in Status
    BY DEF Reading
  <1>2. {"UNMATCHED", "DUPLICATE"} \subseteq Status
    BY DEF Status
  <1>3. Verdict(r, taken, reused) \in Status
    BY <1>1, <1>2 DEF Verdict
  <1>4. Named(r, taken, reused) \in Txn \cup {None}
    BY <1>1 DEF Named
  <1>5. QED
    BY <1>3, <1>4

\* Binding a key to an attempt leaves bindings.
LEMMA BindType ==
  ASSUME bindings \subseteq Binding,
         NEW k \in Key, NEW o \in Order, NEW c \in Content, NEW i \in AttemptId
  PROVE  Bind(k, o, c, i) \subseteq Binding
  <1>1. \A b \in bindings : [b EXCEPT !.attempt = i] \in Binding
    BY DEF Binding
  <1>2. [key |-> k, order |-> o, content |-> c, attempt |-> i] \in Binding
    BY DEF Binding
  <1>3. QED
    BY <1>1, <1>2 DEF Bind

LEMMA TransactionType ==
  ASSUME TypeOK, NEW p \in Process,
         \/ Begin(p) \/ Revoked(p) \/ InsertProof(p) \/ InsertProofConflicts(p)
         \/ ReadAllocations(p) \/ Decide(p) \/ Commit(p) \/ Abort(p) \/ Undo(p)
  PROVE  TypeOK'
  <1>1. CASE Begin(p)
    <2>1. CASE ImageOf(p) \notin proofs
      <3> DEFINE j == [job[p] EXCEPT !.created = TRUE, !.stage = "insert"]
      <3>1. j \in Job /\ Filled(j)
        BY <1>1, JobFields DEF Begin, Job, Stage, Filled
      <3>2. (ImageOf(p) \notin proofs) = TRUE
        BY <2>1
      <3>3. Become(p, j)
        BY <1>1, <3>2, Zenon DEF Begin
      <3>4. QED
        BY <1>1, <3>1, <3>3, MoveType DEF Begin
    <2>2. CASE ImageOf(p) \in proofs
      <3> DEFINE j == [job[p] EXCEPT !.created = FALSE, !.stage = "read"]
      <3>1. j \in Job /\ Filled(j)
        BY <1>1, JobFields DEF Begin, Job, Stage, Filled
      <3>2. (ImageOf(p) \notin proofs) = FALSE
        BY <2>2
      <3>3. Become(p, j)
        BY <1>1, <3>2, Zenon DEF Begin
      <3>4. QED
        BY <1>1, <3>1, <3>3, MoveType DEF Begin
    <2>3. QED
      BY <2>1, <2>2
  <1>2. CASE Revoked(p)
    <2>1. blobs' \subseteq Image /\ leaked' \subseteq Image
      BY <1>2, CleanUpType DEF Revoked
    <2>2. QED
      BY <1>2, <2>1, EndType DEF Revoked
  <1>3. CASE InsertProof(p)
    <2> DEFINE j == [job[p] EXCEPT !.stage = "read"]
    <2>1. j \in Job /\ Filled(j)
      BY <1>3, JobFields DEF InsertProof, Job, Stage, Filled
    <2>2. JobsOK'
      BY <1>3, <2>1, BecomeType DEF InsertProof
    <2>3. QED
      BY <1>3, <2>2 DEF InsertProof, TypeOK, database, approving, history
  <1>4. CASE InsertProofConflicts(p)
    <2> DEFINE j == [job[p] EXCEPT !.stage = "undo"]
    <2>1. j \in Job /\ Filled(j)
      BY <1>4, JobFields DEF InsertProofConflicts, Job, Stage, Filled
    <2>2. QED
      BY <1>4, <2>1, MoveType DEF InsertProofConflicts
  <1>5. CASE ReadAllocations(p)
    <2> DEFINE taken == PaysAnother(job[p].reading.best, job[p].req.order)
               j == [job[p] EXCEPT !.stage = "decide", !.taken = taken]
    <2>1. taken \in BOOLEAN
      BY DEF PaysAnother
    <2>2. Become(p, j)
      BY <1>5 DEF ReadAllocations
    <2> HIDE DEF taken
    <2>3. j \in Job /\ Filled(j)
      BY <1>5, <2>1, JobFields DEF ReadAllocations, Job, Stage, Filled
    <2>4. QED
      BY <1>5, <2>2, <2>3, MoveType DEF ReadAllocations
  <1>6. CASE Decide(p)
    <2> DEFINE reused == Reused(ImageOf(p), job[p].req.order)
               r == job[p].reading
               taken == job[p].taken
               status == Verdict(r, taken, reused)
               txn == Named(r, taken, reused)
               j == [job[p] EXCEPT !.stage = "commit", !.status = status, !.txn = txn]
    <2>1. Become(p, j)
      BY <1>6, Zenon DEF Decide
    <2>2. r \in Reading /\ taken \in BOOLEAN
      BY <1>6, JobFields DEF Decide, Job, Filled
    <2>3. reused \in BOOLEAN
      BY DEF Reused
    <2> HIDE DEF reused, r, taken
    <2>4. status \in Status /\ txn \in Txn \cup {None}
      BY <2>2, <2>3, DecisionType
    <2>5. status # None
      BY <2>4, ServiceAssumption
    <2> HIDE DEF status, txn
    <2>6. j \in Job /\ Filled(j)
      BY <1>6, <2>4, <2>5, JobFields DEF Decide, Job, Stage, Filled
    <2>7. QED
      BY <1>6, <2>1, <2>6, MoveType DEF Decide
  <1>7. CASE Commit(p)
    <2>1. JobsOK'
      BY <1>7, FinishType DEF Commit
    <2>2. ImageOf(p) \in Image
      BY <1>7, ImageType DEF Commit
    <2>3. NewAttempt(p) \in Attempt
      BY <1>7, <2>2, JobFields DEF Commit, Job, Filled, NewAttempt, Attempt, Request
    <2>4. job[p].req \in Request /\ job[p].id \in AttemptId
      BY <1>7, JobFields DEF Commit, Job, Filled
    <2>5. bindings' \subseteq Binding
      BY <1>7, <2>4, BindType DEF Commit, TypeOK, Request
    <2>6. QED
      BY <1>7, <2>1, <2>2, <2>3, <2>5 DEF Commit, TypeOK, approving, history
  <1>8. CASE Abort(p)
    <2> DEFINE j == [job[p] EXCEPT !.stage = "undo"]
    <2>1. j \in Job /\ Filled(j)
      BY <1>8, JobFields DEF Abort, Job, Stage, Filled
    <2>2. JobsOK'
      BY <1>8, <2>1, BecomeType DEF Abort
    <2>3. QED
      BY <1>8, <2>2 DEF Abort, TypeOK, database, approving, history
  <1>9. CASE Undo(p)
    <2>1. blobs' \subseteq Image /\ leaked' \subseteq Image
      BY <1>9, CleanUpType DEF Undo
    <2>2. QED
      BY <1>9, <2>1, EndType DEF Undo
  <1>10. QED
    BY <1>1, <1>2, <1>3, <1>4, <1>5, <1>6, <1>7, <1>8, <1>9

LEMMA ApprovalType ==
  ASSUME TypeOK, NEW a \in Approver,
         \/ ApproveQuietly(a) \/ ReadForApproval(a) \/ CommitApproval(a)
         \/ ApprovalConflicts(a) \/ ApprovalTimesOut(a)
  PROVE  TypeOK'
  <1>1. JobsOK'
    BY DEF TypeOK, JobsOK, ApproveQuietly, ReadForApproval, CommitApproval,
           ApprovalConflicts, ApprovalTimesOut
  <1>2. approval[a] # None => approval[a] \in Paying
    BY DEF TypeOK
  <1>3. CASE ApproveQuietly(a)
    BY <1>1, <1>3 DEF ApproveQuietly, TypeOK, Attempt, database, history
  <1>4. CASE ReadForApproval(a)
    <2>1. PICK r \in attempts : /\ Spendable(r)
                                /\ approval' = [approval EXCEPT ![a] = r]
      BY <1>4 DEF ReadForApproval
    <2>2. r \in Paying
      BY <2>1 DEF TypeOK, Spendable, Attempt, Paying
    <2>3. QED
      BY <1>1, <1>4, <2>1, <2>2 DEF ReadForApproval, TypeOK, database, history
  <1>5. CASE CommitApproval(a)
    <2>1. /\ approval[a].id \in AttemptId
          /\ approval[a].order \in Order
          /\ approval[a].txn \in Txn
      BY <1>2, <1>5 DEF CommitApproval, Paying
    <2>2. QED
      BY <1>1, <1>5, <2>1 DEF CommitApproval, TypeOK, Allocation, history
  <1>6. CASE ApprovalConflicts(a)
    BY <1>1, <1>2, <1>6 DEF ApprovalConflicts, TypeOK, Paying, database, history
  <1>7. CASE ApprovalTimesOut(a)
    BY <1>1, <1>7 DEF ApprovalTimesOut, TypeOK, database, history
  <1>8. QED
    BY <1>3, <1>4, <1>5, <1>6, <1>7

LEMMA CrashType ==
  ASSUME TypeOK, NEW p \in Process, Crash(p)
  PROVE  TypeOK'
  <1>1. JobsOK'
    BY FinishType DEF Crash
  <1>2. blobs' \subseteq Image /\ leaked' \subseteq Image
    <2>1. CASE HasPut(p)
      BY <2>1, CleanUpType DEF Crash, HasPut
    <2>2. CASE ~HasPut(p)
      BY <2>2 DEF Crash, LeaveBlob, TypeOK
    <2>3. QED
      BY <2>1, <2>2
  <1>3. crashes' \in 0..MaxCrashes
    BY ServiceAssumption DEF Crash, TypeOK
  <1>4. QED
    BY <1>1, <1>2, <1>3 DEF Crash, TypeOK, database

LEMMA NextTypeOK == TypeOK /\ [Next]_vars => TypeOK'
  <1> SUFFICES ASSUME TypeOK, [Next]_vars PROVE TypeOK'
    OBVIOUS
  <1>1. ASSUME NEW p \in Process,
               Receive(p) \/ SubmitStep(p) \/ Abort(p) \/ Crash(p)
        PROVE  TypeOK'
    BY <1>1, BeforeTransactionType, TransactionType, CrashType DEF SubmitStep
  <1>2. ASSUME NEW a \in Approver,
               \/ ApproveQuietly(a) \/ ReadForApproval(a) \/ CommitApproval(a)
               \/ ApprovalConflicts(a) \/ ApprovalTimesOut(a)
        PROVE  TypeOK'
    BY <1>2, ApprovalType
  <1>3. CASE UNCHANGED vars
    BY <1>3 DEF vars, TypeOK, JobsOK
  <1>4. QED
    BY <1>1, <1>2, <1>3 DEF Next

\* Every reachable state of the service is well typed: a step of a submit
\* reads only what an earlier step has set, an approval holds an attempt that
\* names a transaction, and no step makes a row the schema does not admit.
THEOREM TypeCorrect == Spec => []TypeOK
  <1>1. Init => TypeOK
    BY InitTypeOK
  <1>2. TypeOK /\ [Next]_vars => TypeOK'
    BY NextTypeOK
  <1>3. QED
    BY <1>1, <1>2, PTL DEF Spec

-----------------------------------------------------------------------------
(***************************************************************************)
(* Money.                                                                  *)
(***************************************************************************)
\* An approval that is about to allocate holds a committed VERIFIED attempt:
\* rows of verification_attempts are never changed or deleted.
ApprovalRests ==
    \A a \in Approver : approval[a] # None =>
        approval[a] \in attempts /\ approval[a].status = "VERIFIED"

MoneyInv == TypeOK /\ ApprovalRests /\ AllocationBacked

\* No action removes or changes an attempt.
LEMMA AttemptsGrow == [Next]_vars => attempts \subseteq attempts'
  BY DEF Next, SubmitStep, vars, database,
         Receive, LookupKey, Refuse, LookupProof, PutBlob, PutFails, Extract,
         ExtractFails, Begin, Revoked, InsertProof, InsertProofConflicts,
         ReadAllocations, Decide, Commit, Abort, Undo, Crash,
         ApproveQuietly, ReadForApproval, CommitApproval, ApprovalConflicts,
         ApprovalTimesOut

\* Only the commit of an approval touches the allocations.
LEMMA OnlyApprovalsAllocate ==
  [Next]_vars => \/ allocations' = allocations
                 \/ \E a \in Approver : CommitApproval(a)
  BY DEF Next, SubmitStep, vars, database,
         Receive, LookupKey, Refuse, LookupProof, PutBlob, PutFails, Extract,
         ExtractFails, Begin, Revoked, InsertProof, InsertProofConflicts,
         ReadAllocations, Decide, Commit, Abort, Undo, Crash,
         ApproveQuietly, ReadForApproval, ApprovalConflicts, ApprovalTimesOut

\* An approval changes only by picking a spendable attempt or by ending.
LEMMA ApprovalPicks ==
  ASSUME TypeOK, [Next]_vars, NEW a \in Approver
  PROVE  \/ approval'[a] \in {approval[a], None}
         \/ approval'[a] \in attempts /\ Spendable(approval'[a])
  BY DEF Next, SubmitStep, vars, approving, TypeOK,
         Receive, LookupKey, Refuse, LookupProof, PutBlob, PutFails, Extract,
         ExtractFails, Begin, Revoked, InsertProof, InsertProofConflicts,
         ReadAllocations, Decide, Commit, Abort, Undo, Crash,
         ApproveQuietly, ReadForApproval, CommitApproval, ApprovalConflicts,
         ApprovalTimesOut

LEMMA NextMoneyInv == MoneyInv /\ [Next]_vars => MoneyInv'
  <1> SUFFICES ASSUME MoneyInv, [Next]_vars PROVE MoneyInv'
    OBVIOUS
  <1>1. TypeOK'
    BY NextTypeOK DEF MoneyInv
  <1>2. attempts \subseteq attempts'
    BY AttemptsGrow
  <1>3. ApprovalRests'
    <2> SUFFICES ASSUME NEW a \in Approver, approval'[a] # None
                 PROVE  approval'[a] \in attempts' /\ approval'[a].status = "VERIFIED"
      BY DEF ApprovalRests
    <2>1. CASE approval'[a] = approval[a]
      BY <2>1, <1>2 DEF MoneyInv, ApprovalRests
    <2>2. CASE approval'[a] \in attempts /\ Spendable(approval'[a])
      BY <2>2, <1>2 DEF Spendable
    <2>3. QED
      BY <2>1, <2>2, ApprovalPicks DEF MoneyInv
  <1>4. AllocationBacked'
    <2>1. CASE allocations' = allocations
      BY <2>1, <1>2 DEF MoneyInv, AllocationBacked
    <2>2. ASSUME NEW a \in Approver, CommitApproval(a) PROVE AllocationBacked'
      <3>1. approval[a] \in attempts /\ approval[a].status = "VERIFIED"
        BY <2>2 DEF CommitApproval, MoneyInv, ApprovalRests
      <3>2. allocations' = allocations \cup
              {[txn |-> approval[a].txn, order |-> approval[a].order,
                attempt |-> approval[a].id]}
        BY <2>2 DEF CommitApproval
      <3>3. QED
        BY <3>1, <3>2, <1>2 DEF MoneyInv, AllocationBacked
    <2>3. QED
      BY <2>1, <2>2, OnlyApprovalsAllocate
  <1>5. QED
    BY <1>1, <1>3, <1>4 DEF MoneyInv

\* Whatever the number of processes, threads, submits, approvals and crashes,
\* a payment is allocated only to the order, and through the transaction, of a
\* committed VERIFIED attempt.
THEOREM AllocationsAreBacked == Spec => []AllocationBacked
  <1>1. Init => MoneyInv
    BY InitTypeOK DEF Init, MoneyInv, ApprovalRests, AllocationBacked
  <1>2. MoneyInv /\ [Next]_vars => MoneyInv'
    BY NextMoneyInv
  <1>3. MoneyInv => AllocationBacked
    BY DEF MoneyInv
  <1>4. QED
    BY <1>1, <1>2, <1>3, PTL DEF Spec

\* The service implements PaymentLedger: its only step on the allocations is
\* a Spend of a transaction and an order that nothing has paid with or for.
THEOREM ServiceImplementsLedger == Spec => ImplementsLedger
  <1>1. Init => Ledger!Init
    BY DEF Init, Ledger!Init, Spends
  <1>2. TypeOK /\ [Next]_vars => [Ledger!Next]_Spends
    <2> SUFFICES ASSUME TypeOK, [Next]_vars
                 PROVE  [Ledger!Next]_Spends
      OBVIOUS
    <2>1. CASE allocations' = allocations
      BY <2>1 DEF Spends
    <2>2. ASSUME NEW a \in Approver, CommitApproval(a) PROVE Ledger!Next
      <3> DEFINE t == approval[a].txn
                 o == approval[a].order
                 l0 == [txn |-> t, order |-> o, attempt |-> approval[a].id]
      <3>1. t \in Txn /\ o \in Order
        BY <2>2 DEF CommitApproval, TypeOK, Paying
      <3>2. Ledger!Unspent(t) /\ Ledger!Unpaid(o)
        BY <2>2 DEF CommitApproval, Spent, Paid, Spends, Ledger!Unspent, Ledger!Unpaid
      <3>3. allocations' = allocations \cup {l0}
        BY <2>2 DEF CommitApproval
      <3>4. l0.txn = t /\ l0.order = o
        OBVIOUS
      <3> HIDE DEF l0, t, o
      <3>5. Spends' = Spends \cup {<<t, o>>}
        BY <3>3, <3>4 DEF Spends
      <3>6. Ledger!Spend(t, o)
        BY <3>2, <3>5 DEF Ledger!Spend
      <3>7. QED
        BY <3>1, <3>6 DEF Ledger!Next
    <2>3. QED
      BY <2>1, <2>2, OnlyApprovalsAllocate
  <1>3. QED
    BY <1>1, <1>2, TypeCorrect, PTL DEF Spec, ImplementsLedger, Ledger!Spec

\* No payment is spent on two orders and no order is paid by two payments,
\* through any number of racing approvals: what the two partial unique indexes
\* of transaction_allocations are for, and so of the service.
THEOREM MoneyIsOneToOne == Spec => []Ledger!OneToOne
  <1>1. Ledger!Init => Ledger!OneToOne
    BY DEF Ledger!Init, Ledger!OneToOne
  <1>2. ASSUME Ledger!OneToOne, [Ledger!Next]_Spends
        PROVE  Ledger!OneToOne'
    <2>1. CASE UNCHANGED Spends
      BY <1>2, <2>1 DEF Ledger!OneToOne
    <2>2. ASSUME NEW t \in Txn, NEW o \in Order, Ledger!Spend(t, o)
          PROVE  Ledger!OneToOne'
      <3>1. /\ \A s \in Spends : s[1] # t
            /\ \A s \in Spends : s[2] # o
            /\ Spends' = Spends \cup {<<t, o>>}
        BY <2>2 DEF Ledger!Spend, Ledger!Unspent, Ledger!Unpaid
      <3>2. QED
        BY <1>2, <3>1 DEF Ledger!OneToOne
    <2>3. QED
      BY <1>2, <2>1, <2>2 DEF Ledger!Next
  <1>3. QED
    BY <1>1, <1>2, ServiceImplementsLedger, PTL DEF ImplementsLedger, Ledger!Spec
=============================================================================
