---------------------------- MODULE SubmitProofs ----------------------------
(***************************************************************************)
(* Proofs about the submits of VerificationService: the accusations and    *)
(* the first verdicts they commit, the pictures they put and take back,    *)
(* and the keys they bind.  VerificationServiceProofs has the types and    *)
(* the money.                                                              *)
(***************************************************************************)
EXTENDS VerificationServiceProofs

-----------------------------------------------------------------------------
(***************************************************************************)
(* What one step does to one job.                                          *)
(***************************************************************************)
\* The ways a submit moves on without ending.
MovesOn(p) ==
    \/ /\ job[p].stage = "idle"
       /\ \E r \in Request : job'[p] = [job[p] EXCEPT !.stage = "key", !.req = r]
    \/ /\ job[p].stage = "key"
       /\ job'[p] = [job[p] EXCEPT !.stage = "scope"]
       /\ \A b \in bindings : b.key # job[p].req.key
    \/ /\ job[p].stage = "scope"
       /\ job'[p] = [job[p] EXCEPT !.known = TRUE, !.stage = "extract"]
       /\ ImageOf(p) \in proofs
    \/ /\ job[p].stage = "scope"
       /\ job'[p] = [job[p] EXCEPT !.known = FALSE, !.stage = "store"]
       /\ ImageOf(p) \notin proofs
    \/ /\ job[p].stage = "store"
       /\ job'[p] = [job[p] EXCEPT !.stage = "extract"]
       /\ ImageOf(p) \in blobs'
    \/ /\ job[p].stage = "extract"
       /\ \E i \in FreshId, r \in Readings :
            job'[p] = [job[p] EXCEPT !.stage = "begin", !.id = i, !.reading = r]
    \/ /\ job[p].stage = "begin"
       /\ job'[p] = [job[p] EXCEPT !.created = TRUE, !.stage = "insert"]
       /\ ImageOf(p) \notin proofs
    \/ /\ job[p].stage = "begin"
       /\ job'[p] = [job[p] EXCEPT !.created = FALSE, !.stage = "read"]
       /\ ImageOf(p) \in proofs
    \/ /\ job[p].stage = "insert"
       /\ job'[p] = [job[p] EXCEPT !.stage = "read"]
       /\ writer' = {p}
    \/ /\ job[p].stage = "read"
       /\ \E taken \in BOOLEAN :
            /\ job'[p] = [job[p] EXCEPT !.stage = "decide", !.taken = taken]
            /\ taken <=> PaysAnother(job[p].reading.best, job[p].req.order)
    \/ /\ job[p].stage = "decide"
       /\ \E reused \in BOOLEAN :
            /\ reused <=> Reused(ImageOf(p), job[p].req.order)
            /\ job'[p] = [job[p] EXCEPT
                 !.stage = "commit",
                 !.status = Verdict(job[p].reading, job[p].taken, reused),
                 !.txn = Named(job[p].reading, job[p].taken, reused)]
    \/ /\ job[p].stage \in {"insert", "read", "decide", "commit"}
       /\ job'[p] = [job[p] EXCEPT !.stage = "undo"]

\* The steps that end a submit.
Ends(p) ==
    \/ LookupKey(p) \/ Refuse(p) \/ PutFails(p) \/ ExtractFails(p)
    \/ Revoked(p) \/ Commit(p) \/ Undo(p) \/ Crash(p)

\* A step leaves a job alone, ends it, or moves it on; a job that moves on
\* changes no row.
JobStep(p) ==
    \/ job'[p] = job[p]
    \/ job'[p] = NoJob /\ Ends(p)
    \/ MovesOn(p) /\ UNCHANGED <<database, approvals>>

\* The order of the stages.
Follows ==
    {<<"idle", "key">>, <<"key", "scope">>, <<"scope", "extract">>,
     <<"scope", "store">>, <<"store", "extract">>, <<"extract", "begin">>,
     <<"begin", "insert">>, <<"begin", "read">>, <<"insert", "read">>,
     <<"read", "decide">>, <<"decide", "commit">>,
     <<"insert", "undo">>, <<"read", "undo">>, <<"decide", "undo">>,
     <<"commit", "undo">>}

\* Each field of a job is set at one stage and stays as it is at the others.
LEMMA MoveFields ==
  ASSUME TypeOK, NEW p \in Process, MovesOn(p)
  PROVE  /\ <<job[p].stage, job'[p].stage>> \in Follows
         /\ job[p].stage # "idle" => job'[p].req = job[p].req
         /\ job[p].stage # "scope" => job'[p].known = job[p].known
         /\ job[p].stage # "extract" => job'[p].id = job[p].id
         /\ job[p].stage # "extract" => job'[p].reading = job[p].reading
         /\ job[p].stage # "begin" => job'[p].created = job[p].created
         /\ job[p].stage # "read" => job'[p].taken = job[p].taken
         /\ job[p].stage # "decide" => job'[p].status = job[p].status
         /\ job[p].stage # "decide" => job'[p].txn = job[p].txn
  <1>1. job[p] \in Job
    BY DEF TypeOK, JobsOK
  <1>2. <<job[p].stage, job'[p].stage>> \in Follows
    BY <1>1 DEF MovesOn, Job, Follows
  <1>3. job[p].stage # "idle" => job'[p].req = job[p].req
    BY <1>1 DEF MovesOn, Job
  <1>4. job[p].stage # "scope" => job'[p].known = job[p].known
    BY <1>1 DEF MovesOn, Job
  <1>5. job[p].stage # "extract" => job'[p].id = job[p].id
    BY <1>1 DEF MovesOn, Job
  <1>6. job[p].stage # "extract" => job'[p].reading = job[p].reading
    BY <1>1 DEF MovesOn, Job
  <1>7. job[p].stage # "begin" => job'[p].created = job[p].created
    BY <1>1 DEF MovesOn, Job
  <1>8. job[p].stage # "read" => job'[p].taken = job[p].taken
    BY <1>1 DEF MovesOn, Job
  <1>9. job[p].stage # "decide" => job'[p].status = job[p].status
    BY <1>1 DEF MovesOn, Job
  <1>10. job[p].stage # "decide" => job'[p].txn = job[p].txn
    BY <1>1 DEF MovesOn, Job
  <1>11. QED
    BY <1>2, <1>3, <1>4, <1>5, <1>6, <1>7, <1>8, <1>9, <1>10

LEMMA NoJobIdle == NoJob.stage = "idle" /\ NoJob.id = None
  BY DEF NoJob

LEMMA BecomesJob ==
  ASSUME TypeOK, NEW p \in Process, NEW j, Become(p, j)
  PROVE  /\ job'[p] = j
         /\ \A q \in Process : q # p => job'[q] = job[q]
  BY DEF TypeOK, JobsOK, Become

\* Only the acting process changes its job.
LEMMA OneMoves ==
  ASSUME TypeOK, [Next]_vars, NEW p \in Process, NEW q \in Process, p # q
  PROVE  job'[p] = job[p] \/ job'[q] = job[q]
  <1>1. ASSUME NEW o \in Process, Receive(o) \/ SubmitStep(o) \/ Abort(o) \/ Crash(o)
        PROVE  \E j : Become(o, j)
    BY <1>1, Zenon DEF SubmitStep, Finish,
         Receive, LookupKey, Refuse, LookupProof, PutBlob, PutFails, Extract,
         ExtractFails, Begin, Revoked, InsertProof, InsertProofConflicts,
         ReadAllocations, Decide, Commit, Abort, Undo, Crash
  <1>2. ASSUME NEW a \in Approver,
               \/ ApproveQuietly(a) \/ ReadForApproval(a) \/ CommitApproval(a)
               \/ ApprovalConflicts(a) \/ ApprovalTimesOut(a)
        PROVE  job' = job
    BY <1>2 DEF ApproveQuietly, ReadForApproval, CommitApproval,
                ApprovalConflicts, ApprovalTimesOut
  <1>3. ASSUME NEW o \in Process, NEW j, Become(o, j)
        PROVE  job'[p] = job[p] \/ job'[q] = job[q]
    BY <1>3, BecomesJob
  <1>4. CASE UNCHANGED vars
    BY <1>4 DEF vars
  <1>5. QED
    BY <1>1, <1>2, <1>3, <1>4 DEF Next

LEMMA SubmitMoves ==
  ASSUME TypeOK, NEW p \in Process,
         Receive(p) \/ SubmitStep(p) \/ Abort(p) \/ Crash(p)
  PROVE  JobStep(p)
  <1>1. CASE Receive(p)
    <2>1. PICK r \in Request : Become(p, [job[p] EXCEPT !.stage = "key", !.req = r])
      BY <1>1 DEF Receive
    <2>2. job'[p] = [job[p] EXCEPT !.stage = "key", !.req = r]
      BY <2>1, BecomesJob, Zenon
    <2>3. QED
      BY <1>1, <2>2 DEF Receive, JobStep, MovesOn, approving
  <1>2. CASE LookupKey(p)
    <2>1. CASE \E b \in bindings : b.key = job[p].req.key
      <3>1. job'[p] = NoJob
        BY <1>2, <2>1, BecomesJob DEF LookupKey, Finish
      <3>2. QED
        BY <1>2, <3>1 DEF JobStep, Ends
    <2>2. CASE \A b \in bindings : b.key # job[p].req.key
      <3>1. job'[p] = [job[p] EXCEPT !.stage = "scope"]
        BY <1>2, <2>2, BecomesJob, Zenon DEF LookupKey
      <3>2. QED
        BY <1>2, <2>2, <3>1 DEF LookupKey, JobStep, MovesOn, approving
    <2>3. QED
      BY <2>1, <2>2
  <1>3. CASE \/ Refuse(p) \/ PutFails(p) \/ ExtractFails(p) \/ Revoked(p)
             \/ Commit(p) \/ Undo(p) \/ Crash(p)
    <2>1. Finish(p)
      BY <1>3, Zenon DEF Refuse, PutFails, ExtractFails, Revoked, Commit, Undo, Crash
    <2>2. QED
      BY <1>3, <2>1, BecomesJob DEF Finish, JobStep, Ends
  <1>4. CASE LookupProof(p)
    <2>1. CASE ImageOf(p) \in proofs
      <3>1. (ImageOf(p) \in proofs) = TRUE
        BY <2>1
      <3>2. Become(p, [job[p] EXCEPT !.known = TRUE, !.stage = "extract"])
        BY <1>4, <3>1, Zenon DEF LookupProof
      <3>3. job'[p] = [job[p] EXCEPT !.known = TRUE, !.stage = "extract"]
        BY <3>2, BecomesJob, Zenon
      <3>4. QED
        BY <1>4, <2>1, <3>3, Zenon DEF LookupProof, JobStep, MovesOn, approving
    <2>2. CASE ImageOf(p) \notin proofs
      <3>1. (ImageOf(p) \in proofs) = FALSE
        BY <2>2
      <3>2. Become(p, [job[p] EXCEPT !.known = FALSE, !.stage = "store"])
        BY <1>4, <3>1, Zenon DEF LookupProof
      <3>3. job'[p] = [job[p] EXCEPT !.known = FALSE, !.stage = "store"]
        BY <3>2, BecomesJob, Zenon
      <3>4. QED
        BY <1>4, <2>2, <3>3, Zenon DEF LookupProof, JobStep, MovesOn, approving
    <2>3. QED
      BY <2>1, <2>2
  <1>5. CASE PutBlob(p)
    <2>1. job'[p] = [job[p] EXCEPT !.stage = "extract"]
      BY <1>5, BecomesJob, Zenon DEF PutBlob
    <2>2. QED
      BY <1>5, <2>1 DEF PutBlob, JobStep, MovesOn, approving
  <1>6. CASE Extract(p)
    <2>1. PICK i \in FreshId, r \in Readings :
            Become(p, [job[p] EXCEPT !.stage = "begin", !.id = i, !.reading = r])
      BY <1>6 DEF Extract
    <2>2. job'[p] = [job[p] EXCEPT !.stage = "begin", !.id = i, !.reading = r]
      BY <2>1, BecomesJob, Zenon
    <2>3. QED
      BY <1>6, <2>2 DEF Extract, JobStep, MovesOn, approving
  <1>7. CASE Begin(p)
    <2>1. CASE ImageOf(p) \notin proofs
      <3>1. (ImageOf(p) \notin proofs) = TRUE
        BY <2>1
      <3>2. Become(p, [job[p] EXCEPT !.created = TRUE, !.stage = "insert"])
        BY <1>7, <3>1, Zenon DEF Begin
      <3>3. job'[p] = [job[p] EXCEPT !.created = TRUE, !.stage = "insert"]
        BY <3>2, BecomesJob, Zenon
      <3>4. QED
        BY <1>7, <2>1, <3>3, Zenon DEF Begin, JobStep, MovesOn, approving
    <2>2. CASE ImageOf(p) \in proofs
      <3>1. (ImageOf(p) \notin proofs) = FALSE
        BY <2>2
      <3>2. Become(p, [job[p] EXCEPT !.created = FALSE, !.stage = "read"])
        BY <1>7, <3>1, Zenon DEF Begin
      <3>3. job'[p] = [job[p] EXCEPT !.created = FALSE, !.stage = "read"]
        BY <3>2, BecomesJob, Zenon
      <3>4. QED
        BY <1>7, <2>2, <3>3, Zenon DEF Begin, JobStep, MovesOn, approving
    <2>3. QED
      BY <2>1, <2>2
  <1>8. CASE InsertProof(p)
    <2>1. job'[p] = [job[p] EXCEPT !.stage = "read"]
      BY <1>8, BecomesJob, Zenon DEF InsertProof
    <2>2. QED
      BY <1>8, <2>1 DEF InsertProof, JobStep, MovesOn, approving
  <1>9. CASE InsertProofConflicts(p) \/ Abort(p)
    <2>1. /\ job[p].stage \in {"insert", "read", "decide", "commit"}
          /\ Become(p, [job[p] EXCEPT !.stage = "undo"])
          /\ UNCHANGED <<database, approvals>>
      BY <1>9 DEF InsertProofConflicts, Abort, approving
    <2>2. job'[p] = [job[p] EXCEPT !.stage = "undo"]
      BY <2>1, BecomesJob, Zenon
    <2>3. QED
      BY <2>1, <2>2 DEF JobStep, MovesOn
  <1>10. CASE ReadAllocations(p)
    <2> DEFINE taken == PaysAnother(job[p].reading.best, job[p].req.order)
    <2>1. job'[p] = [job[p] EXCEPT !.stage = "decide", !.taken = taken]
      BY <1>10, BecomesJob, Zenon DEF ReadAllocations
    <2>2. taken \in BOOLEAN
      BY DEF PaysAnother
    <2>3. taken <=> PaysAnother(job[p].reading.best, job[p].req.order)
      OBVIOUS
    <2> HIDE DEF taken
    <2>4. MovesOn(p)
      BY <1>10, <2>1, <2>2, <2>3, Zenon DEF ReadAllocations, MovesOn
    <2>5. QED
      BY <1>10, <2>4 DEF ReadAllocations, JobStep, approving
  <1>11. CASE Decide(p)
    <2> DEFINE reused == Reused(ImageOf(p), job[p].req.order)
    <2>1. job'[p] = [job[p] EXCEPT
                 !.stage = "commit",
                 !.status = Verdict(job[p].reading, job[p].taken, reused),
                 !.txn = Named(job[p].reading, job[p].taken, reused)]
      BY <1>11, BecomesJob, Zenon DEF Decide
    <2>2. reused \in BOOLEAN
      BY DEF Reused
    <2>3. reused <=> Reused(ImageOf(p), job[p].req.order)
      OBVIOUS
    <2> HIDE DEF reused
    <2>4. MovesOn(p)
      BY <1>11, <2>1, <2>2, <2>3, Zenon DEF Decide, MovesOn
    <2>5. QED
      BY <1>11, <2>4 DEF Decide, JobStep, approving
  <1>12. QED
    BY <1>1, <1>2, <1>3, <1>4, <1>5, <1>6, <1>7, <1>8, <1>9, <1>10, <1>11
    DEF SubmitStep

LEMMA NextJobStep ==
  ASSUME TypeOK, [Next]_vars, NEW p \in Process
  PROVE  JobStep(p)
  <1>1. ASSUME NEW o \in Process, Receive(o) \/ SubmitStep(o) \/ Abort(o) \/ Crash(o)
        PROVE  JobStep(p)
    <2>1. CASE o = p
      BY <1>1, <2>1, SubmitMoves
    <2>2. CASE o # p
      <3>1. PICK j : Become(o, j)
        BY <1>1, Zenon DEF SubmitStep, Finish,
             Receive, LookupKey, Refuse, LookupProof, PutBlob, PutFails, Extract,
             ExtractFails, Begin, Revoked, InsertProof, InsertProofConflicts,
             ReadAllocations, Decide, Commit, Abort, Undo, Crash
      <3>2. job'[p] = job[p]
        BY <2>2, <3>1, BecomesJob
      <3>3. QED
        BY <3>2 DEF JobStep
    <2>3. QED
      BY <2>1, <2>2
  <1>2. ASSUME NEW a \in Approver,
               \/ ApproveQuietly(a) \/ ReadForApproval(a) \/ CommitApproval(a)
               \/ ApprovalConflicts(a) \/ ApprovalTimesOut(a)
        PROVE  JobStep(p)
    BY <1>2 DEF ApproveQuietly, ReadForApproval, CommitApproval,
                ApprovalConflicts, ApprovalTimesOut, JobStep
  <1>3. CASE UNCHANGED vars
    BY <1>3 DEF vars, JobStep
  <1>4. QED
    BY <1>1, <1>2, <1>3 DEF Next

-----------------------------------------------------------------------------
(***************************************************************************)
(* The inductive invariant of the submits, for any number of processes.    *)
(***************************************************************************)
\* What the flags of a running submit say of the rows: a submit that will
\* store saw no row, one that inserts has created set, and one that is past
\* the second look-up with created unset saw a row, and rows stay.
FlagsTrue ==
    \A p \in Process :
        /\ job[p].stage = "store" => job[p].known = FALSE
        /\ job[p].stage = "insert" => job[p].created = TRUE
        /\ job[p].stage \in {"read", "decide", "commit", "undo"} /\ job[p].created = FALSE
             => ImageOf(p) \in proofs

\* A submit that inserted a proof row holds the write lock until it ends.
LockHeld ==
    \A p \in Process :
        job[p].stage \in {"read", "decide", "commit"} /\ job[p].created = TRUE
          => writer = {p}

\* Ids are spent once: no two attempts share one, and the id of a running
\* submit is neither an attempt's nor another submit's.
AttemptIdsUnique == \A r, s \in attempts : r.id = s.id => r = s

IdsInFlight ==
    \A p \in Process : job[p].id # None =>
        /\ \A r \in attempts : r.id # job[p].id
        /\ \A q \in Process : q # p => job[q].id # job[p].id

\* Every allocation is the work of an approval that was answered 204.
AllocationsApproved == \A l \in allocations : <<l.attempt, 204>> \in approvals

\* What a DUPLICATE verdict of process p rests on: R020's on an approval of the
\* best candidate, R025's on one of the picture.
Ground(p) ==
    IF job[p].taken THEN PaymentApproved(job[p].reading.best, job[p].req.order)
                    ELSE PictureApproved(ImageOf(p), job[p].req.order)

\* What a submit has found out and not yet committed: a transaction it saw
\* taken is, a DUPLICATE verdict has its ground, and while the lock is held a
\* transaction seen free is free.
FindingsTrue ==
    \A p \in Process :
        /\ job[p].stage = "decide" /\ job[p].taken = TRUE
             => PaysAnother(job[p].reading.best, job[p].req.order)
        /\ job[p].stage = "commit" /\ job[p].status = "DUPLICATE" => Ground(p)

FreeUnderLock ==
    \A p \in Process : job[p].created = TRUE =>
        /\ job[p].stage = "decide" /\ job[p].taken = FALSE
             => ~PaysAnother(job[p].reading.best, job[p].req.order)
        /\ job[p].stage = "commit" /\ job[p].status = "VERIFIED"
             => ~PaysAnother(job[p].txn, job[p].req.order)

SubmitInv ==
    /\ MoneyInv
    /\ FlagsTrue
    /\ LockHeld
    /\ AttemptIdsUnique
    /\ IdsInFlight
    /\ AllocationsApproved
    /\ FindingsTrue
    /\ FreeUnderLock
    /\ BlobsAccounted


\* Rows, allocations and approvals only ever accumulate.
LEMMA RowsGrow ==
  [Next]_vars => /\ proofs \subseteq proofs'
                 /\ attempts \subseteq attempts'
                 /\ allocations \subseteq allocations'
                 /\ approvals \subseteq approvals'
  BY DEF Next, SubmitStep, vars, database, approving,
         Receive, LookupKey, Refuse, LookupProof, PutBlob, PutFails, Extract,
         ExtractFails, Begin, Revoked, InsertProof, InsertProofConflicts,
         ReadAllocations, Decide, Commit, Abort, Undo, Crash,
         ApproveQuietly, ReadForApproval, CommitApproval, ApprovalConflicts,
         ApprovalTimesOut

\* Attempts and bindings are written by the commit of a submit and nothing
\* else.
LEMMA OnlyCommitsWrite ==
  [Next]_vars => \/ UNCHANGED <<attempts, bindings>>
                 \/ \E p \in Process : Commit(p)
  BY DEF Next, SubmitStep, vars, database,
         Receive, LookupKey, Refuse, LookupProof, PutBlob, PutFails, Extract,
         ExtractFails, Begin, Revoked, InsertProof, InsertProofConflicts,
         ReadAllocations, Decide, Abort, Undo, Crash,
         ApproveQuietly, ReadForApproval, CommitApproval, ApprovalConflicts,
         ApprovalTimesOut

\* A process that holds the lock keeps it until its submit ends or rolls back.
LEMMA HolderKeeps ==
  ASSUME TypeOK, [Next]_vars, NEW p \in Process, writer = {p}
  PROVE  \/ writer' = {p} /\ allocations' = allocations
         \/ job'[p] = NoJob
         \/ job'[p].stage = "undo"
  <1>1. ASSUME NEW q \in Process, Commit(q) \/ Abort(q) \/ Crash(q) \/ InsertProof(q)
        PROVE  \/ writer' = {p} /\ allocations' = allocations
               \/ job'[p] = NoJob
               \/ job'[p].stage = "undo"
    <2>1. CASE q = p
      <3>1. CASE Commit(q) \/ Crash(q)
        BY <2>1, <3>1, BecomesJob DEF Commit, Crash, Finish
      <3>2. CASE Abort(q)
        <4>1. job'[p] = [job[p] EXCEPT !.stage = "undo"]
          BY <2>1, <3>2, BecomesJob, Zenon DEF Abort
        <4>2. QED
          BY <4>1, JobFields DEF Job
      <3>3. CASE InsertProof(q)
        BY <2>1, <3>3 DEF InsertProof, database
      <3>4. QED
        BY <1>1, <3>1, <3>2, <3>3
    <2>2. CASE q # p
      BY <1>1, <2>2 DEF Commit, Abort, Crash, InsertProof, CanWrite, database
    <2>3. QED
      BY <2>1, <2>2
  <1>2. ASSUME NEW q \in Process,
               \/ Receive(q) \/ LookupKey(q) \/ Refuse(q) \/ LookupProof(q)
               \/ PutBlob(q) \/ PutFails(q) \/ Extract(q) \/ ExtractFails(q)
               \/ Begin(q) \/ Revoked(q) \/ InsertProofConflicts(q)
               \/ ReadAllocations(q) \/ Decide(q) \/ Undo(q)
        PROVE  writer' = writer /\ allocations' = allocations
    BY <1>2 DEF database, Receive, LookupKey, Refuse, LookupProof, PutBlob,
                PutFails, Extract, ExtractFails, Begin, Revoked,
                InsertProofConflicts, ReadAllocations, Decide, Undo
  <1>3. ASSUME NEW a \in Approver,
               \/ ApproveQuietly(a) \/ ReadForApproval(a) \/ CommitApproval(a)
               \/ ApprovalConflicts(a) \/ ApprovalTimesOut(a)
        PROVE  writer' = writer /\ allocations' = allocations
    BY <1>3 DEF ApproveQuietly, ReadForApproval, CommitApproval,
                ApprovalConflicts, ApprovalTimesOut, database
  <1>4. CASE UNCHANGED vars
    BY <1>4 DEF vars
  <1>5. QED
    BY <1>1, <1>2, <1>3, <1>4 DEF Next, SubmitStep

LEMMA NextFlagsTrue ==
  ASSUME SubmitInv, [Next]_vars
  PROVE  FlagsTrue'
  <1> SUFFICES ASSUME NEW p \in Process
               PROVE  /\ job'[p].stage = "store" => job'[p].known = FALSE
                      /\ job'[p].stage = "insert" => job'[p].created = TRUE
                      /\ (/\ job'[p].stage \in {"read", "decide", "commit", "undo"}
                          /\ job'[p].created = FALSE)
                           => ImageOf(p)' \in proofs'
    BY DEF FlagsTrue
  <1>1. TypeOK /\ JobStep(p) /\ proofs \subseteq proofs'
    BY NextJobStep, RowsGrow DEF SubmitInv, MoneyInv
  <1>2. job[p] \in Job
    BY <1>1, JobFields
  <1>3. /\ job[p].stage = "store" => job[p].known = FALSE
        /\ job[p].stage = "insert" => job[p].created = TRUE
        /\ job[p].stage \in {"read", "decide", "commit", "undo"} /\ job[p].created = FALSE
             => ImageOf(p) \in proofs
    BY DEF SubmitInv, FlagsTrue
  <1>4. CASE job'[p] = job[p]
    BY <1>1, <1>3, <1>4 DEF ImageOf
  <1>5. CASE job'[p] = NoJob
    BY <1>5 DEF NoJob
  <1>6. CASE MovesOn(p)
    BY <1>1, <1>2, <1>3, <1>6 DEF MovesOn, ImageOf, Job
  <1>7. QED
    BY <1>1, <1>4, <1>5, <1>6 DEF JobStep

LEMMA NextLockHeld ==
  ASSUME SubmitInv, [Next]_vars
  PROVE  LockHeld'
  <1> SUFFICES ASSUME NEW p \in Process,
                      job'[p].stage \in {"read", "decide", "commit"},
                      job'[p].created = TRUE
               PROVE  writer' = {p}
    BY DEF LockHeld
  <1>1. TypeOK /\ JobStep(p)
    BY NextJobStep DEF SubmitInv, MoneyInv
  <1>2. job[p] \in Job
    BY <1>1, JobFields
  <1>3. job[p].stage \in {"read", "decide", "commit"} /\ job[p].created = TRUE
          => writer = {p}
    BY DEF SubmitInv, LockHeld
  <1>4. CASE job'[p] = job[p]
    BY <1>1, <1>3, <1>4, HolderKeeps, NoJobIdle
  <1>5. CASE job'[p] = NoJob
    BY <1>5 DEF NoJob
  <1>6. CASE MovesOn(p)
    <2>1. CASE job[p].stage = "begin"
      BY <1>1, <1>2, <1>6, <2>1 DEF MovesOn, Job
    <2>2. CASE job[p].stage = "insert"
      BY <1>1, <1>2, <1>6, <2>2 DEF MovesOn, Job
    <2>3. CASE job[p].stage \in {"read", "decide"}
      <3>1. job'[p].created = job[p].created
        BY <1>1, <1>6, <2>3, MoveFields
      <3>2. writer = {p}
        BY <1>3, <2>3, <3>1
      <3>3. QED
        BY <1>1, <3>2, HolderKeeps, NoJobIdle
    <2>4. QED
      BY <1>1, <1>6, <2>1, <2>2, <2>3, MoveFields DEF Follows
  <1>7. QED
    BY <1>1, <1>4, <1>5, <1>6 DEF JobStep

\* What the commit of a submit does to the attempts, the rows of its picture
\* and its own job.
LEMMA CommitWrites ==
  ASSUME TypeOK, NEW p \in Process, Commit(p)
  PROVE  /\ attempts' = attempts \cup {NewAttempt(p)}
         /\ proofs' = proofs \cup {ImageOf(p)}
         /\ job[p].stage = "commit"
         /\ job[p].id # None
         /\ job'[p] = NoJob
         /\ \A q \in Process : q # p => job'[q] = job[q]
         /\ allocations' = allocations
         /\ approvals' = approvals
  BY BecomesJob, JobFields DEF Commit, Finish, Filled, approving

LEMMA NextAttemptIds ==
  ASSUME SubmitInv, [Next]_vars
  PROVE  AttemptIdsUnique'
  <1>1. CASE UNCHANGED <<attempts, bindings>>
    BY <1>1 DEF SubmitInv, AttemptIdsUnique
  <1>2. ASSUME NEW p \in Process, Commit(p)
        PROVE  AttemptIdsUnique'
    <2>1. /\ attempts' = attempts \cup {NewAttempt(p)}
          /\ job[p].id # None
      BY <1>2, CommitWrites DEF SubmitInv, MoneyInv
    <2>2. \A r \in attempts : r.id # NewAttempt(p).id
      BY <2>1 DEF SubmitInv, IdsInFlight, NewAttempt
    <2>3. QED
      BY <2>1, <2>2 DEF SubmitInv, AttemptIdsUnique
  <1>3. QED
    BY <1>1, <1>2, OnlyCommitsWrite

\* The id a job holds after a step it held before, or it is a fresh one.
LEMMA IdStep ==
  ASSUME TypeOK, [Next]_vars, NEW p \in Process, job'[p].id # None
  PROVE  \/ job'[p] = job[p]
         \/ /\ job'[p].id = job[p].id
            /\ UNCHANGED attempts
         \/ /\ job'[p].id \in FreshId
            /\ UNCHANGED attempts
  <1>1. JobStep(p) /\ job[p] \in Job
    BY NextJobStep, JobFields
  <1>2. CASE MovesOn(p) /\ UNCHANGED <<database, approvals>>
    <2>1. CASE job[p].stage = "extract"
      BY <1>1, <1>2, <2>1 DEF MovesOn, Job, database
    <2>2. CASE job[p].stage # "extract"
      BY <1>2, <2>2, MoveFields DEF database
    <2>3. QED
      BY <2>1, <2>2
  <1>3. QED
    BY <1>1, <1>2, NoJobIdle DEF JobStep

LEMMA NextIdsInFlight ==
  ASSUME SubmitInv, [Next]_vars
  PROVE  IdsInFlight'
  <1>1. TypeOK
    BY DEF SubmitInv, MoneyInv
  <1>2. ASSUME NEW p \in Process, job'[p].id # None, NEW r \in attempts'
        PROVE  r.id # job'[p].id
    <2>1. CASE r \in attempts
      BY <1>1, <1>2, <2>1, IdStep DEF SubmitInv, IdsInFlight, FreshId
    <2>2. CASE r \notin attempts
      <3>1. PICK q \in Process : Commit(q)
        BY <1>2, <2>2, OnlyCommitsWrite
      <3>2. r = NewAttempt(q) /\ job'[q] = NoJob /\ job[q].id # None
        BY <1>1, <1>2, <2>2, <3>1, CommitWrites
      <3>3. p # q
        BY <1>2, <3>2, NoJobIdle
      <3>4. job'[p] = job[p]
        BY <1>1, <3>1, <3>3, CommitWrites
      <3>5. QED
        BY <1>2, <3>2, <3>3, <3>4 DEF SubmitInv, IdsInFlight, NewAttempt
    <2>3. QED
      BY <2>1, <2>2
  <1>3. ASSUME NEW p \in Process, NEW q \in Process, p # q, job'[p].id # None
        PROVE  job'[q].id # job'[p].id
    <2>1. CASE job'[p] = job[p] /\ job'[q] = job[q]
      BY <1>3, <2>1 DEF SubmitInv, IdsInFlight
    <2>2. CASE job'[p] = job[p] /\ job'[q] # job[q]
      <3>1. CASE job'[q].id = None
        BY <1>3, <3>1
      <3>2. CASE job'[q].id = job[q].id
        BY <1>3, <2>2, <3>2 DEF SubmitInv, IdsInFlight
      <3>3. CASE job'[q].id \in FreshId
        BY <1>3, <2>2, <3>3 DEF FreshId
      <3>4. QED
        BY <1>1, <3>1, <3>2, <3>3, IdStep
    <2>3. CASE job'[p] # job[p] /\ job'[q] = job[q]
      <3>1. CASE job'[p].id = job[p].id
        BY <1>3, <2>3, <3>1 DEF SubmitInv, IdsInFlight
      <3>2. CASE job'[p].id \in FreshId
        BY <1>3, <2>3, <3>2 DEF FreshId
      <3>3. QED
        BY <1>1, <1>3, <2>3, <3>1, <3>2, IdStep
    <2>4. QED
      BY <1>1, <1>3, <2>1, <2>2, <2>3, OneMoves
  <1>4. QED
    BY <1>2, <1>3 DEF IdsInFlight

LEMMA NextAllocationsApproved ==
  ASSUME SubmitInv, [Next]_vars
  PROVE  AllocationsApproved'
  <1>1. approvals \subseteq approvals'
    BY RowsGrow
  <1>2. CASE allocations' = allocations
    BY <1>1, <1>2 DEF SubmitInv, AllocationsApproved
  <1>3. ASSUME NEW a \in Approver, CommitApproval(a)
        PROVE  AllocationsApproved'
    <2>1. SUFFICES ASSUME NEW l \in allocations'
                   PROVE  <<l.attempt, 204>> \in approvals'
      BY DEF AllocationsApproved
    <2>2. l \in allocations \/ l.attempt = approval[a].id
      BY <1>3 DEF CommitApproval
    <2>3. <<approval[a].id, 204>> \in approvals'
      BY <1>3 DEF CommitApproval
    <2>4. QED
      BY <1>1, <2>2, <2>3 DEF SubmitInv, AllocationsApproved
  <1>4. QED
    BY <1>2, <1>3, OnlyApprovalsAllocate

\* A payment that pays another order was approved for it.
LEMMA PaidIsApproved ==
  ASSUME SubmitInv, NEW t, NEW o, PaysAnother(t, o)
  PROVE  PaymentApproved(t, o)
  <1>1. PICK l \in allocations : l.txn = t /\ l.order # o
    BY DEF PaysAnother
  <1>2. <<l.attempt, 204>> \in approvals
    BY DEF SubmitInv, AllocationsApproved
  <1>3. QED
    BY <1>1, <1>2 DEF PaymentApproved

\* A picture that was accepted for another order was approved for it: the
\* attempt that speaks for the picture is the one its allocation names.
LEMMA ReusedIsApproved ==
  ASSUME SubmitInv, NEW i, NEW o, Reused(i, o)
  PROVE  PictureApproved(i, o)
  <1>1. PICK s \in Accepted(i) : s.order # o
    BY DEF Reused
  <1>2. s \in attempts /\ s.image = i /\ s.status = "VERIFIED"
    BY DEF Accepted
  <1>3. PICK l \in allocations : l.attempt = s.id
    BY DEF Accepted
  <1>4. PICK b \in attempts : b.id = l.attempt /\ b.order = l.order
    BY DEF SubmitInv, MoneyInv, AllocationBacked
  <1>5. b = s
    BY <1>2, <1>3, <1>4 DEF SubmitInv, AttemptIdsUnique
  <1>6. <<s.id, 204>> \in approvals
    BY <1>3 DEF SubmitInv, AllocationsApproved
  <1>7. QED
    BY <1>1, <1>2, <1>3, <1>4, <1>5, <1>6 DEF PictureApproved

\* R020 accuses where the submit saw the transaction taken, R025 otherwise.
LEMMA DuplicateIsTakenOrReused ==
  ASSUME NEW r \in Reading, NEW taken \in BOOLEAN, NEW reused \in BOOLEAN,
         Verdict(r, taken, reused) = "DUPLICATE"
  PROVE  taken \/ reused
  BY DEF Verdict, Reading

LEMMA NextFindingsTrue ==
  ASSUME SubmitInv, [Next]_vars
  PROVE  FindingsTrue'
  <1>1. TypeOK
    BY DEF SubmitInv, MoneyInv
  <1>2. ASSUME NEW p \in Process, job'[p].stage = "decide", job'[p].taken = TRUE
        PROVE  PaysAnother(job[p].reading.best, job[p].req.order)'
    <2>1. JobStep(p) /\ job[p] \in Job
      BY <1>1, NextJobStep, JobFields
    <2>2. CASE job'[p] = job[p]
      <3>1. PaysAnother(job[p].reading.best, job[p].req.order)
        BY <1>2, <2>2 DEF SubmitInv, FindingsTrue
      <3>2. QED
        BY <2>2, <3>1, RowsGrow DEF PaysAnother
    <2>3. CASE MovesOn(p)
      <3>1. job[p].stage = "read"
        BY <1>1, <1>2, <2>3, MoveFields DEF Follows
      <3>2. PaysAnother(job[p].reading.best, job[p].req.order)
        BY <1>2, <2>1, <2>3, <3>1 DEF MovesOn, Job
      <3>3. job'[p].reading = job[p].reading /\ job'[p].req = job[p].req
        BY <1>1, <2>3, <3>1, MoveFields
      <3>4. QED
        BY <3>2, <3>3, RowsGrow DEF PaysAnother
    <2>4. QED
      BY <1>2, <2>1, <2>2, <2>3, NoJobIdle DEF JobStep
  <1>3. ASSUME NEW p \in Process, job'[p].stage = "commit", job'[p].status = "DUPLICATE"
        PROVE  Ground(p)'
    <2>1. JobStep(p) /\ job[p] \in Job /\ Filled(job[p])
      BY <1>1, NextJobStep, JobFields
    <2> DEFINE o == job[p].req.order
               i == ImageOf(p)
    <2>2. CASE job'[p] = job[p]
      <3>1. Ground(p)
        BY <1>3, <2>2 DEF SubmitInv, FindingsTrue
      <3>2. QED
        BY <2>2, <3>1, RowsGrow DEF Ground, ImageOf, PaymentApproved, PictureApproved
    <2>3. CASE MovesOn(p)
      <3>1. job[p].stage = "decide"
        BY <1>1, <1>3, <2>3, MoveFields DEF Follows
      <3>2. job[p].reading \in Reading /\ job[p].taken \in BOOLEAN
        BY <2>1, <3>1 DEF Job, Filled
      <3>3. PICK reused \in BOOLEAN :
              /\ reused <=> Reused(i, o)
              /\ job'[p] = [job[p] EXCEPT
                   !.stage = "commit",
                   !.status = Verdict(job[p].reading, job[p].taken, reused),
                   !.txn = Named(job[p].reading, job[p].taken, reused)]
        BY <1>3, <2>1, <2>3, <3>1 DEF MovesOn, Job
      <3>4. /\ job'[p].status = Verdict(job[p].reading, job[p].taken, reused)
            /\ job'[p].taken = job[p].taken
        BY <2>1, <3>3 DEF Job
      <3>5. job[p].taken \/ Reused(i, o)
        BY <1>3, <3>2, <3>3, <3>4, DuplicateIsTakenOrReused
      <3>6. job[p].taken => PaymentApproved(job[p].reading.best, o)
        BY <3>1, <3>2, PaidIsApproved DEF SubmitInv, FindingsTrue
      <3>7. ~job[p].taken => PictureApproved(i, o)
        BY <3>5, ReusedIsApproved
      <3>8. job'[p].req = job[p].req /\ job'[p].reading = job[p].reading
        BY <1>1, <2>3, <3>1, MoveFields
      <3>9. QED
        BY <3>4, <3>6, <3>7, <3>8, RowsGrow
        DEF Ground, ImageOf, PaymentApproved, PictureApproved
    <2>4. QED
      BY <1>3, <2>1, <2>2, <2>3, NoJobIdle DEF JobStep
  <1>4. QED
    BY <1>2, <1>3 DEF FindingsTrue

\* A VERIFIED verdict saw its transaction free, and names it or nothing.
LEMMA VerifiedSawFree ==
  ASSUME NEW r \in Reading, NEW taken \in BOOLEAN, NEW reused \in BOOLEAN,
         Verdict(r, taken, reused) = "VERIFIED"
  PROVE  /\ ~taken
         /\ Named(r, taken, reused) \in {r.best, None}
  <1>1. r.best # None /\ ~taken
    BY DEF Verdict
  <1>2. QED
    BY <1>1 DEF Named

LEMMA NextFreeUnderLock ==
  ASSUME SubmitInv, [Next]_vars
  PROVE  FreeUnderLock'
  <1>1. TypeOK
    BY DEF SubmitInv, MoneyInv
  <1>2. ASSUME NEW p \in Process, job'[p].created = TRUE,
               job'[p].stage \in {"decide", "commit"}
        PROVE  job[p].stage \in {"read", "decide", "commit"}
                 => job[p].created = TRUE /\ allocations' = allocations
    <2>1. HAVE job[p].stage \in {"read", "decide", "commit"}
    <2>2. job'[p].created = job[p].created
      BY <1>1, <1>2, <2>1, NextJobStep, MoveFields, NoJobIdle DEF JobStep
    <2>3. writer = {p}
      BY <1>2, <2>1, <2>2 DEF SubmitInv, LockHeld
    <2>4. QED
      BY <1>1, <1>2, <2>2, <2>3, HolderKeeps, NoJobIdle
  <1>3. ASSUME NEW p \in Process, job'[p].created = TRUE,
               job'[p].stage = "decide", job'[p].taken = FALSE
        PROVE  ~PaysAnother(job[p].reading.best, job[p].req.order)'
    <2>1. JobStep(p) /\ job[p] \in Job
      BY <1>1, NextJobStep, JobFields
    <2>2. CASE job'[p] = job[p]
      <3>1. ~PaysAnother(job[p].reading.best, job[p].req.order)
        BY <1>3, <2>2 DEF SubmitInv, FreeUnderLock
      <3>2. allocations' = allocations
        BY <1>2, <1>3, <2>2
      <3>3. QED
        BY <2>2, <3>1, <3>2 DEF PaysAnother
    <2>3. CASE MovesOn(p)
      <3>1. job[p].stage = "read"
        BY <1>1, <1>3, <2>3, MoveFields DEF Follows
      <3>2. ~PaysAnother(job[p].reading.best, job[p].req.order)
        BY <1>3, <2>1, <2>3, <3>1 DEF MovesOn, Job
      <3>3. job'[p].reading = job[p].reading /\ job'[p].req = job[p].req
        BY <1>1, <2>3, <3>1, MoveFields
      <3>4. allocations' = allocations
        BY <1>2, <1>3, <3>1
      <3>5. QED
        BY <3>2, <3>3, <3>4 DEF PaysAnother
    <2>4. QED
      BY <1>3, <2>1, <2>2, <2>3, NoJobIdle DEF JobStep
  <1>4. ASSUME NEW p \in Process, job'[p].created = TRUE,
               job'[p].stage = "commit", job'[p].status = "VERIFIED"
        PROVE  ~PaysAnother(job[p].txn, job[p].req.order)'
    <2>1. JobStep(p) /\ job[p] \in Job /\ Filled(job[p])
      BY <1>1, NextJobStep, JobFields
    <2>2. CASE job'[p] = job[p]
      <3>1. ~PaysAnother(job[p].txn, job[p].req.order)
        BY <1>4, <2>2 DEF SubmitInv, FreeUnderLock
      <3>2. allocations' = allocations
        BY <1>2, <1>4, <2>2
      <3>3. QED
        BY <2>2, <3>1, <3>2 DEF PaysAnother
    <2>3. CASE MovesOn(p)
      <3>1. job[p].stage = "decide"
        BY <1>1, <1>4, <2>3, MoveFields DEF Follows
      <3>2. job[p].reading \in Reading /\ job[p].taken \in BOOLEAN
        BY <2>1, <3>1 DEF Job, Filled
      <3>3. PICK reused \in BOOLEAN :
              job'[p] = [job[p] EXCEPT
                 !.stage = "commit",
                 !.status = Verdict(job[p].reading, job[p].taken, reused),
                 !.txn = Named(job[p].reading, job[p].taken, reused)]
        BY <1>4, <2>1, <2>3, <3>1 DEF MovesOn, Job
      <3>4. /\ Verdict(job[p].reading, job[p].taken, reused) = "VERIFIED"
            /\ job'[p].txn = Named(job[p].reading, job[p].taken, reused)
        BY <1>4, <2>1, <3>3 DEF Job
      <3>5. job[p].taken = FALSE /\ job'[p].txn \in {job[p].reading.best, None}
        BY <3>2, <3>4, VerifiedSawFree
      <3>6. ~PaysAnother(job[p].reading.best, job[p].req.order)
        BY <1>2, <1>4, <3>1, <3>5 DEF SubmitInv, FreeUnderLock
      <3>7. ~PaysAnother(None, job[p].req.order)
        BY <1>1, ServiceAssumption DEF PaysAnother, TypeOK, Allocation
      <3>8. job'[p].req = job[p].req /\ allocations' = allocations
        BY <1>1, <1>2, <1>4, <2>3, <3>1, MoveFields
      <3>9. QED
        BY <3>5, <3>6, <3>7, <3>8 DEF PaysAnother
    <2>4. QED
      BY <1>4, <2>1, <2>2, <2>3, NoJobIdle DEF JobStep
  <1>5. QED
    BY <1>3, <1>4 DEF FreeUnderLock

\* Only a put adds an object, and what leaked stays leaked.
LEMMA OnlyPutsAdd ==
  [Next]_vars => /\ leaked \subseteq leaked'
                 /\ \/ blobs' \subseteq blobs
                    \/ \E p \in Process : PutBlob(p)
  BY DEF Next, SubmitStep, vars, history, KeepBlob, LeaveBlob, DeleteBlob,
         Receive, LookupKey, Refuse, LookupProof, PutFails, PutBlob, Extract,
         ExtractFails, Begin, Revoked, InsertProof, InsertProofConflicts,
         ReadAllocations, Decide, Commit, Abort, Undo, Crash,
         ApproveQuietly, ReadForApproval, CommitApproval, ApprovalConflicts,
         ApprovalTimesOut

\* A submit that ends accounts for the object it put: the row is committed,
\* the object is taken back, or the failure to do so is on record.
LEMMA EndAccounts ==
  ASSUME SubmitInv, NEW p \in Process, HasPut(p), Ends(p)
  PROVE  \/ ImageOf(p) \notin blobs'
         \/ ImageOf(p) \in leaked'
         \/ ImageOf(p) \in proofs'
  <1>1. /\ TypeOK
        /\ job[p].stage \in
             {"extract", "begin", "insert", "read", "decide", "commit", "undo"}
        /\ ~job[p].known
    BY DEF SubmitInv, MoneyInv, HasPut
  <1>2. CASE DeleteBlob(p) \/ LeaveBlob(p)
    BY <1>2 DEF DeleteBlob, LeaveBlob
  <1>3. CASE Commit(p)
    BY <1>3 DEF Commit
  <1>4. CASE Undo(p)
    <2>1. CASE job[p].created
      BY <1>2, <1>4, <2>1 DEF Undo
    <2>2. CASE ~job[p].created
      <3>1. job[p].created = FALSE
        BY <1>1, <2>2, JobFields DEF Job
      <3>2. ImageOf(p) \in proofs
        BY <1>4, <3>1 DEF Undo, SubmitInv, FlagsTrue
      <3>3. QED
        BY <1>4, <3>2 DEF Undo, database
    <2>3. QED
      BY <2>1, <2>2
  <1>5. CASE ExtractFails(p) \/ Revoked(p) \/ Crash(p)
    BY <1>1, <1>2, <1>5 DEF ExtractFails, Revoked, Crash
  <1>6. CASE LookupKey(p) \/ Refuse(p) \/ PutFails(p)
    BY <1>1, <1>6 DEF LookupKey, Refuse, PutFails
  <1>7. QED
    BY <1>3, <1>4, <1>5, <1>6 DEF Ends

LEMMA NextBlobsAccounted ==
  ASSUME SubmitInv, [Next]_vars
  PROVE  BlobsAccounted'
  <1>1. TypeOK
    BY DEF SubmitInv, MoneyInv
  <1>2. proofs \subseteq proofs' /\ leaked \subseteq leaked'
    BY RowsGrow, OnlyPutsAdd
  <1>3. SUFFICES ASSUME NEW i \in blobs', i \notin proofs', i \notin leaked'
                 PROVE  \E p \in Process : HasPut(p)' /\ ImageOf(p)' = i
    BY DEF BlobsAccounted
  <1>4. CASE i \in blobs
    <2>1. PICK p \in Process : HasPut(p) /\ ImageOf(p) = i
      BY <1>2, <1>3, <1>4 DEF SubmitInv, BlobsAccounted
    <2>2. JobStep(p)
      BY <1>1, NextJobStep
    <2>3. CASE job'[p] = job[p]
      BY <2>1, <2>3 DEF HasPut, ImageOf
    <2>4. CASE MovesOn(p)
      BY <1>1, <2>1, <2>4, MoveFields DEF Follows, HasPut, ImageOf
    <2>5. CASE Ends(p)
      BY <1>3, <2>1, <2>5, EndAccounts
    <2>6. QED
      BY <2>2, <2>3, <2>4, <2>5 DEF JobStep
  <1>5. CASE i \notin blobs
    <2>1. PICK p \in Process : PutBlob(p)
      BY <1>3, <1>5, OnlyPutsAdd
    <2>2. ImageOf(p) = i /\ job[p].stage = "store" /\ job[p].known = FALSE
      BY <1>3, <1>5, <2>1 DEF PutBlob, SubmitInv, FlagsTrue
    <2>3. job'[p] = [job[p] EXCEPT !.stage = "extract"] /\ job[p] \in Job
      BY <1>1, <2>1, BecomesJob, JobFields, Zenon DEF PutBlob
    <2>4. /\ job'[p].stage = "extract"
          /\ job'[p].known = FALSE
          /\ job'[p].req = job[p].req
      BY <2>2, <2>3 DEF Job
    <2>5. QED
      BY <2>2, <2>4 DEF HasPut, ImageOf
  <1>6. QED
    BY <1>4, <1>5

-----------------------------------------------------------------------------
LEMMA NextSubmitInv == SubmitInv /\ [Next]_vars => SubmitInv'
  BY NextMoneyInv, NextFlagsTrue, NextLockHeld, NextAttemptIds,
     NextIdsInFlight, NextAllocationsApproved, NextFindingsTrue,
     NextFreeUnderLock, NextBlobsAccounted
  DEF SubmitInv

LEMMA InitSubmitInv == Init => SubmitInv
  <1> SUFFICES ASSUME Init PROVE SubmitInv
    OBVIOUS
  <1>1. MoneyInv
    BY InitTypeOK DEF Init, MoneyInv, ApprovalRests, AllocationBacked
  <1>2. \A p \in Process : job[p].stage = "idle" /\ job[p].id = None
    BY NoJobIdle DEF Init
  <1>3. FlagsTrue /\ LockHeld /\ IdsInFlight /\ FindingsTrue /\ FreeUnderLock
    BY <1>2 DEF Init, FlagsTrue, LockHeld, IdsInFlight, FindingsTrue, FreeUnderLock
  <1>4. AttemptIdsUnique /\ AllocationsApproved /\ BlobsAccounted
    BY DEF Init, AttemptIdsUnique, AllocationsApproved, BlobsAccounted
  <1>5. QED
    BY <1>1, <1>3, <1>4 DEF SubmitInv

LEMMA SubmitInvariant == Spec => []SubmitInv
  BY InitSubmitInv, NextSubmitInv, PTL DEF Spec

\* However submits, approvals and crashes of any number of processes
\* interleave, a DUPLICATE verdict that is committed rests on a merchant's
\* approval for another order: of the payment the receipt was matched with, if
\* that was seen taken (R020), and of the very picture, if it was not (R025).
THEOREM AccusationsAreGrounded == Spec => NoAccusationWithoutApproval
  <1>1. ASSUME SubmitInv, [Next]_vars, NEW r \in attempts' \ attempts,
               r.status = "DUPLICATE"
        PROVE  \E p \in Process :
                 /\ job[p].id = r.id
                 /\ IF job[p].taken THEN PaymentApproved(job[p].reading.best, r.order)
                                    ELSE PictureApproved(r.image, r.order)
    <2>1. PICK p \in Process : Commit(p)
      BY <1>1, OnlyCommitsWrite
    <2>2. r = NewAttempt(p) /\ job[p].stage = "commit"
      BY <1>1, <2>1, CommitWrites DEF SubmitInv, MoneyInv
    <2>3. Ground(p)
      BY <1>1, <2>2 DEF SubmitInv, FindingsTrue, NewAttempt
    <2>4. QED
      BY <2>2, <2>3 DEF Ground, NewAttempt
  <1>2. SubmitInv /\ [Next]_vars
          => [\A r \in attempts' \ attempts : r.status = "DUPLICATE" =>
                \E p \in Process :
                   /\ job[p].id = r.id
                   /\ IF job[p].taken THEN PaymentApproved(job[p].reading.best, r.order)
                                      ELSE PictureApproved(r.image, r.order)]_vars
    BY <1>1
  <1>3. QED
    BY <1>2, SubmitInvariant, PTL DEF Spec, NoAccusationWithoutApproval

\* Every object in the blob store is named by a row, belongs to a running
\* submit, or is on record as left behind, for any number of processes.
THEOREM NoBlobGoesMissing == Spec => []BlobsAccounted
  <1>1. SubmitInv => BlobsAccounted
    BY DEF SubmitInv
  <1>2. QED
    BY <1>1, SubmitInvariant, PTL

\* The first verdict on a picture names no transaction that pays another order
\* at the moment it is committed: its submit has held the write lock since it
\* inserted the picture's row, before it looked at the allocations.
THEOREM FirstVerdictsAreFresh == Spec => FirstVerdictIsFresh
  <1>1. ASSUME SubmitInv, [Next]_vars, NEW r \in attempts' \ attempts,
               r.status = "VERIFIED", r.image \notin proofs
        PROVE  ~PaysAnother(r.txn, r.order)
    <2>1. TypeOK
      BY <1>1 DEF SubmitInv, MoneyInv
    <2>2. PICK p \in Process : Commit(p)
      BY <1>1, OnlyCommitsWrite
    <2>3. r = NewAttempt(p) /\ job[p].stage = "commit"
      BY <1>1, <2>1, <2>2, CommitWrites
    <2>4. job[p].created = TRUE
      BY <1>1, <2>1, <2>3, JobFields DEF SubmitInv, FlagsTrue, NewAttempt, Job
    <2>5. QED
      BY <1>1, <2>3, <2>4 DEF SubmitInv, FreeUnderLock, NewAttempt
  <1>2. SubmitInv /\ [Next]_vars
          => [\A r \in attempts' \ attempts :
                r.status = "VERIFIED" /\ r.image \notin proofs
                  => ~PaysAnother(r.txn, r.order)]_vars
    BY <1>1
  <1>3. QED
    BY <1>2, SubmitInvariant, PTL DEF Spec, FirstVerdictIsFresh

-----------------------------------------------------------------------------
(***************************************************************************)
(* One server process: the deployment the repository ships.                *)
(***************************************************************************)
OneProcess == \A p, q \in Process : p = q

\* The key of a running submit that found it unbound is still unbound.
KeysInFlight ==
    \A p \in Process :
        job[p].stage \notin {"idle", "key"}
          => \A b \in bindings : b.key # job[p].req.key

\* The first look-up still says what the rows say, a picture a submit works
\* on has its object, and what it is about to insert has no row.
PicturesInFlight ==
    \A p \in Process :
        /\ job[p].stage \notin {"idle", "key", "scope"}
             => (job[p].known = TRUE <=> ImageOf(p) \in proofs)
        /\ job[p].stage \notin {"idle", "key", "scope", "store"}
             => ImageOf(p) \in blobs
        /\ job[p].stage \in {"insert", "read", "decide", "commit", "undo"}
             => (job[p].created = TRUE => ImageOf(p) \notin proofs)

OneProcessInv ==
    /\ TypeOK
    /\ KeysInFlight
    /\ PicturesInFlight
    /\ ProofHasBlob
    /\ KeyBindsItsRequest
    /\ EveryAttemptBound

\* Rows and objects change by a put, a commit or a clean-up and nothing else.
LEMMA RowsStay ==
  [Next]_vars => \/ /\ UNCHANGED <<proofs, attempts, bindings>>
                    /\ blobs \subseteq blobs'
                 \/ \E p \in Process : Commit(p) \/ ExtractFails(p) \/ Undo(p)
  BY DEF Next, SubmitStep, vars, database, KeepBlob, LeaveBlob,
         Receive, LookupKey, Refuse, LookupProof, PutBlob, PutFails, Extract,
         Begin, Revoked, InsertProof, InsertProofConflicts,
         ReadAllocations, Decide, Abort, Crash,
         ApproveQuietly, ReadForApproval, CommitApproval, ApprovalConflicts,
         ApprovalTimesOut

\* While the only submit runs, no row is written and no object is deleted.
LEMMA NothingElseWrites ==
  ASSUME OneProcess, TypeOK, [Next]_vars, NEW p \in Process, job'[p] # NoJob
  PROVE  /\ UNCHANGED <<proofs, attempts, bindings>>
         /\ blobs \subseteq blobs'
  <1>1. ASSUME NEW q \in Process, Commit(q) \/ ExtractFails(q) \/ Undo(q)
        PROVE  FALSE
    <2>1. q = p
      BY DEF OneProcess
    <2>2. Finish(q)
      BY <1>1 DEF Commit, ExtractFails, Undo
    <2>3. QED
      BY <2>1, <2>2, BecomesJob DEF Finish
  <1>2. QED
    BY <1>1, RowsStay

LEMMA NextKeysInFlight ==
  ASSUME OneProcess, OneProcessInv, [Next]_vars
  PROVE  KeysInFlight'
  <1> SUFFICES ASSUME NEW p \in Process, job'[p].stage \notin {"idle", "key"},
                      NEW b \in bindings'
               PROVE  b.key # job'[p].req.key
    BY DEF KeysInFlight
  <1>1. TypeOK /\ JobStep(p) /\ job[p] \in Job
    BY NextJobStep, JobFields DEF OneProcessInv
  <1>2. b \in bindings
    BY <1>1, NothingElseWrites, NoJobIdle
  <1>3. CASE job'[p] = job[p]
    BY <1>2, <1>3 DEF OneProcessInv, KeysInFlight
  <1>4. CASE MovesOn(p)
    <2>1. CASE job[p].stage = "key"
      BY <1>1, <1>2, <1>4, <2>1, MoveFields DEF MovesOn
    <2>2. CASE job[p].stage # "key"
      <3>1. job[p].stage # "idle"
        BY <1>1, <1>4, MoveFields DEF Follows
      <3>2. job'[p].req = job[p].req
        BY <1>1, <1>4, <3>1, MoveFields
      <3>3. QED
        BY <1>2, <2>2, <3>1, <3>2 DEF OneProcessInv, KeysInFlight
    <2>3. QED
      BY <2>1, <2>2
  <1>5. QED
    BY <1>1, <1>3, <1>4, NoJobIdle DEF JobStep

LEMMA NextPicturesInFlight ==
  ASSUME OneProcess, OneProcessInv, [Next]_vars
  PROVE  PicturesInFlight'
  <1> SUFFICES ASSUME NEW p \in Process
               PROVE  /\ job'[p].stage \notin {"idle", "key", "scope"}
                           => (job'[p].known = TRUE <=> ImageOf(p)' \in proofs')
                      /\ job'[p].stage \notin {"idle", "key", "scope", "store"}
                           => ImageOf(p)' \in blobs'
                      /\ job'[p].stage \in {"insert", "read", "decide", "commit", "undo"}
                           => (job'[p].created = TRUE => ImageOf(p)' \notin proofs')
    BY DEF PicturesInFlight
  <1>1. TypeOK /\ JobStep(p) /\ job[p] \in Job
    BY NextJobStep, JobFields DEF OneProcessInv
  <1>2. CASE job'[p] = NoJob
    BY <1>2, NoJobIdle
  <1>3. CASE job'[p] = job[p] /\ job'[p] # NoJob
    <2>1. proofs' = proofs /\ blobs \subseteq blobs' /\ ImageOf(p)' = ImageOf(p)
      BY <1>1, <1>3, NothingElseWrites DEF ImageOf
    <2>2. QED
      BY <1>3, <2>1 DEF OneProcessInv, PicturesInFlight
  <1>4. CASE MovesOn(p)
    <2>1. job'[p] # NoJob
      BY <1>1, <1>4, MoveFields, NoJobIdle DEF Follows
    <2>2. proofs' = proofs /\ blobs \subseteq blobs'
      BY <1>1, <2>1, NothingElseWrites
    <2>3. CASE job[p].stage \in {"idle", "key"}
      BY <1>1, <1>4, <2>3, MoveFields DEF Follows
    <2>4. CASE job[p].stage = "scope"
      <3>1. ImageOf(p)' = ImageOf(p)
        BY <1>1, <1>4, <2>4, MoveFields DEF ImageOf
      <3>2. \/ /\ job'[p].known = TRUE /\ job'[p].stage = "extract"
               /\ ImageOf(p) \in proofs
            \/ /\ job'[p].known = FALSE /\ job'[p].stage = "store"
               /\ ImageOf(p) \notin proofs
        BY <1>1, <1>4, <2>4 DEF MovesOn, Job
      <3>3. QED
        BY <2>2, <3>1, <3>2 DEF OneProcessInv, ProofHasBlob
    <2>5. CASE job[p].stage = "store"
      <3>1. ImageOf(p)' = ImageOf(p) /\ job'[p].known = job[p].known
        BY <1>1, <1>4, <2>5, MoveFields DEF ImageOf
      <3>2. ImageOf(p) \in blobs' /\ job'[p].stage = "extract"
        BY <1>1, <1>4, <2>5 DEF MovesOn, Job
      <3>3. QED
        BY <2>2, <2>5, <3>1, <3>2 DEF OneProcessInv, PicturesInFlight
    <2>6. CASE job[p].stage = "begin"
      <3>1. ImageOf(p)' = ImageOf(p) /\ job'[p].known = job[p].known
        BY <1>1, <1>4, <2>6, MoveFields DEF ImageOf
      <3>2. job'[p].created = TRUE => ImageOf(p) \notin proofs
        BY <1>1, <1>4, <2>6 DEF MovesOn, Job
      <3>3. QED
        BY <2>2, <2>6, <3>1, <3>2 DEF OneProcessInv, PicturesInFlight
    <2>7. CASE job[p].stage \in {"extract", "insert", "read", "decide", "commit"}
      <3>1. ImageOf(p)' = ImageOf(p) /\ job'[p].known = job[p].known
        BY <1>1, <1>4, <2>7, MoveFields DEF ImageOf
      <3>2. CASE job[p].stage = "extract"
        <4>1. job'[p].stage = "begin"
          BY <1>1, <1>4, <3>2, MoveFields DEF Follows
        <4>2. QED
          BY <2>2, <3>1, <3>2, <4>1 DEF OneProcessInv, PicturesInFlight
      <3>3. CASE job[p].stage # "extract"
        <4>1. job'[p].created = job[p].created
          BY <1>1, <1>4, <2>7, MoveFields
        <4>2. QED
          BY <2>2, <2>7, <3>1, <3>3, <4>1 DEF OneProcessInv, PicturesInFlight
      <3>4. QED
        BY <3>2, <3>3
    <2>8. QED
      BY <1>1, <1>4, <2>3, <2>4, <2>5, <2>6, <2>7, MoveFields DEF Follows
  <1>5. QED
    BY <1>1, <1>2, <1>3, <1>4 DEF JobStep

LEMMA NextProofHasBlob ==
  ASSUME OneProcess, OneProcessInv, [Next]_vars
  PROVE  ProofHasBlob'
  <1>1. TypeOK /\ proofs \subseteq blobs
    BY DEF OneProcessInv, ProofHasBlob
  <1>2. CASE proofs' = proofs /\ blobs \subseteq blobs'
    BY <1>1, <1>2 DEF ProofHasBlob
  <1>3. ASSUME NEW p \in Process, Commit(p)
        PROVE  ProofHasBlob'
    <2>1. ImageOf(p) \in blobs
      BY <1>3 DEF Commit, OneProcessInv, PicturesInFlight
    <2>2. QED
      BY <1>1, <1>3, <2>1 DEF Commit, ProofHasBlob
  <1>4. ASSUME NEW p \in Process, ExtractFails(p)
        PROVE  ProofHasBlob'
    <2>1. CASE job[p].known
      BY <1>1, <1>4, <2>1 DEF ExtractFails, KeepBlob, ProofHasBlob, database
    <2>2. CASE ~job[p].known
      <3>1. ImageOf(p) \notin proofs
        BY <1>1, <1>4, <2>2, JobFields
        DEF ExtractFails, OneProcessInv, PicturesInFlight, Job
      <3>2. QED
        BY <1>1, <1>4, <2>2, <3>1
        DEF ExtractFails, DeleteBlob, LeaveBlob, ProofHasBlob, database
    <2>3. QED
      BY <2>1, <2>2
  <1>5. ASSUME NEW p \in Process, Undo(p)
        PROVE  ProofHasBlob'
    <2>1. CASE ~job[p].created
      BY <1>1, <1>5, <2>1 DEF Undo, KeepBlob, ProofHasBlob, database
    <2>2. CASE job[p].created
      <3>1. ImageOf(p) \notin proofs
        BY <1>1, <1>5, <2>2, JobFields DEF Undo, OneProcessInv, PicturesInFlight, Job
      <3>2. QED
        BY <1>1, <1>5, <2>2, <3>1
        DEF Undo, DeleteBlob, LeaveBlob, ProofHasBlob, database
    <2>3. QED
      BY <2>1, <2>2
  <1>6. QED
    BY <1>2, <1>3, <1>4, <1>5, RowsStay

\* The commit of the only submit binds a key that nothing has bound.
LEMMA CommitBinds ==
  ASSUME OneProcessInv, NEW p \in Process, Commit(p)
  PROVE  bindings' = bindings \cup
           {[key |-> job[p].req.key, order |-> job[p].req.order,
             content |-> job[p].req.content, attempt |-> job[p].id]}
  <1>1. \A b \in bindings : b.key # job[p].req.key
    BY DEF Commit, OneProcessInv, KeysInFlight
  <1>2. QED
    BY <1>1 DEF Commit, Bind

LEMMA NextKeyBindings ==
  ASSUME OneProcess, OneProcessInv, [Next]_vars
  PROVE  /\ bindings \subseteq bindings'
         /\ KeyBindsItsRequest'
         /\ EveryAttemptBound'
  <1>1. CASE UNCHANGED <<attempts, bindings>>
    BY <1>1 DEF OneProcessInv, KeyBindsItsRequest, EveryAttemptBound
  <1>2. ASSUME NEW p \in Process, Commit(p)
        PROVE  /\ bindings \subseteq bindings'
               /\ KeyBindsItsRequest'
               /\ EveryAttemptBound'
    <2> DEFINE r0 == NewAttempt(p)
               b0 == [key |-> job[p].req.key, order |-> job[p].req.order,
                      content |-> job[p].req.content, attempt |-> job[p].id]
    <2>1. bindings' = bindings \cup {b0} /\ attempts' = attempts \cup {r0}
      BY <1>2, CommitBinds, CommitWrites DEF OneProcessInv
    <2>2. /\ r0.id = b0.attempt /\ r0.order = b0.order
          /\ r0.image = StoredAs[b0.content]
      BY DEF NewAttempt, ImageOf
    <2> HIDE DEF r0, b0
    <2>3. KeyBindsItsRequest'
      BY <2>1, <2>2 DEF OneProcessInv, KeyBindsItsRequest
    <2>4. EveryAttemptBound'
      BY <2>1, <2>2 DEF OneProcessInv, EveryAttemptBound
    <2>5. QED
      BY <2>1, <2>3, <2>4
  <1>3. QED
    BY <1>1, <1>2, OnlyCommitsWrite

LEMMA OneProcessInvariant ==
  ASSUME OneProcess
  PROVE  Spec => []OneProcessInv
  <1>1. Init => OneProcessInv
    <2> SUFFICES ASSUME Init PROVE OneProcessInv
      OBVIOUS
    <2>1. TypeOK
      BY InitTypeOK
    <2>2. \A p \in Process : job[p].stage = "idle"
      BY NoJobIdle DEF Init
    <2>3. KeysInFlight /\ PicturesInFlight
      BY <2>2 DEF KeysInFlight, PicturesInFlight
    <2>4. ProofHasBlob /\ KeyBindsItsRequest /\ EveryAttemptBound
      BY DEF Init, ProofHasBlob, KeyBindsItsRequest, EveryAttemptBound
    <2>5. QED
      BY <2>1, <2>3, <2>4 DEF OneProcessInv
  <1>2. OneProcessInv /\ [Next]_vars => OneProcessInv'
    <2> SUFFICES ASSUME OneProcessInv, [Next]_vars PROVE OneProcessInv'
      OBVIOUS
    <2>1. TypeOK'
      BY NextTypeOK DEF OneProcessInv
    <2>2. QED
      BY <2>1, NextKeysInFlight, NextPicturesInFlight, NextProofHasBlob,
         NextKeyBindings
      DEF OneProcessInv
  <1>3. QED
    BY <1>1, <1>2, PTL DEF Spec

\* With one server process every payment_proofs row has its object, whatever
\* extraction, transaction or clean-up fails and whenever the process dies.
THEOREM ProofsHaveBlobs ==
  ASSUME OneProcess
  PROVE  Spec => []ProofHasBlob
  <1>1. OneProcessInv => ProofHasBlob
    BY DEF OneProcessInv
  <1>2. QED
    BY <1>1, OneProcessInvariant, PTL

\* With one server process the attempt a key replays was made for the order
\* and the bytes the key was bound to.
THEOREM KeysBindTheirRequests ==
  ASSUME OneProcess
  PROVE  Spec => []KeyBindsItsRequest
  <1>1. OneProcessInv => KeyBindsItsRequest
    BY DEF OneProcessInv
  <1>2. QED
    BY <1>1, OneProcessInvariant, PTL

\* With one server process no attempt is without a key, so no retry of a
\* request leaves a second attempt behind.
THEOREM AttemptsAreBound ==
  ASSUME OneProcess
  PROVE  Spec => []EveryAttemptBound
  <1>1. OneProcessInv => EveryAttemptBound
    BY DEF OneProcessInv
  <1>2. QED
    BY <1>1, OneProcessInvariant, PTL

\* With one server process an idempotency record is never replaced nor
\* pointed at another attempt.
THEOREM BindingsStay ==
  ASSUME OneProcess
  PROVE  Spec => KeysStayBound
  <1>1. OneProcessInv /\ [Next]_vars => [bindings \subseteq bindings']_vars
    BY NextKeyBindings
  <1>2. QED
    BY <1>1, OneProcessInvariant, PTL DEF Spec, KeysStayBound

-----------------------------------------------------------------------------
(***************************************************************************)
(* One server process implements AtomicVerification: the answer a submit   *)
(* records is one that a single step could have given at the commit.       *)
(***************************************************************************)
ReadingsGiven == \A p \in Process : job[p].reading \in Readings \cup {None}

\* What the first look-up of a submit found is what some of the present
\* allocations say, and what all of them say while the submit holds the lock.
LookedUp(p, earlier) ==
    /\ job[p].created = TRUE => earlier = allocations
    /\ job[p].taken = TRUE
         <=> Atomic!PaysElsewhere(job[p].reading.best, job[p].req.order, earlier)

\* The answer a submit is about to commit is one a single step can give.
Used(p, earlier, later) ==
    \/ Atomic!PaysElsewhere(job[p].reading.best, job[p].req.order, earlier)
    \/ Atomic!AcceptedElsewhere(ImageOf(p), job[p].req.order, later)

Stands(p, earlier, later) ==
    /\ job[p].created = TRUE => earlier = allocations
    /\ job[p].status = Atomic!Judged(job[p].reading, Used(p, earlier, later))
    /\ job[p].txn \in {job[p].reading.best, None}
    /\ job[p].status = "VERIFIED" => job[p].txn = job[p].reading.best

AnswersStand ==
    \A p \in Process :
        /\ job[p].stage = "decide"
             => \E earlier \in SUBSET allocations : LookedUp(p, earlier)
        /\ job[p].stage = "commit"
             => \E later \in SUBSET allocations : \E earlier \in SUBSET later :
                  Stands(p, earlier, later)

AtomicInv ==
    /\ SubmitInv
    /\ OneProcessInv
    /\ ReadingsGiven
    /\ AnswersStand

LEMMA NextReadingsGiven ==
  ASSUME TypeOK, ReadingsGiven, [Next]_vars
  PROVE  ReadingsGiven'
  <1> SUFFICES ASSUME NEW p \in Process
               PROVE  job'[p].reading \in Readings \cup {None}
    BY DEF ReadingsGiven
  <1>1. JobStep(p) /\ job[p] \in Job /\ job[p].reading \in Readings \cup {None}
    BY NextJobStep, JobFields DEF ReadingsGiven
  <1>2. CASE job'[p] = NoJob
    BY <1>2 DEF NoJob
  <1>3. CASE MovesOn(p) /\ job[p].stage # "extract"
    BY <1>1, <1>3, MoveFields
  <1>4. CASE MovesOn(p) /\ job[p].stage = "extract"
    BY <1>1, <1>4 DEF MovesOn, Job
  <1>5. QED
    BY <1>1, <1>2, <1>3, <1>4 DEF JobStep

\* The engine looks the picture up among all allocations of the moment.
LEMMA ReusedNow ==
  ASSUME NEW i, NEW o
  PROVE  Reused(i, o) <=> Atomic!AcceptedElsewhere(i, o, allocations)
  BY DEF Reused, Accepted, Atomic!AcceptedElsewhere, Atomic!AcceptedOn

\* The rules come to the one judgement of the abstract submit.
LEMMA JudgedAsDecided ==
  ASSUME NEW r \in Readings, NEW taken \in BOOLEAN, NEW reused \in BOOLEAN
  PROVE  /\ Verdict(r, taken, reused) = Atomic!Judged(r, taken \/ reused)
         /\ Named(r, taken, reused) \in {r.best, None}
         /\ Verdict(r, taken, reused) = "VERIFIED"
              => Named(r, taken, reused) = r.best
  <1>1. r \in Reading /\ (r.verdict = "VERIFIED" => r.best # None /\ r.distinct)
    BY ServiceAssumption
  <1>2. Verdict(r, taken, reused) = Atomic!Judged(r, taken \/ reused)
    BY DEF Verdict, Atomic!Judged
  <1>3. Verdict(r, taken, reused) = "VERIFIED"
          => r.verdict = "VERIFIED" /\ ~taken /\ ~reused
    BY DEF Verdict
  <1>4. QED
    BY <1>1, <1>2, <1>3 DEF Named

\* While a submit goes on, the rows it has looked at stay and allocations are
\* only added, none of them while it holds the lock.
LEMMA SubmitSees ==
  ASSUME OneProcess, AtomicInv, [Next]_vars, NEW p \in Process,
         job'[p].stage \in {"decide", "commit"},
         job[p].stage \in {"read", "decide", "commit"}
  PROVE  /\ attempts' = attempts
         /\ allocations \subseteq allocations'
         /\ job[p].created = TRUE => allocations' = allocations
  <1>1. TypeOK /\ job'[p] # NoJob
    BY NoJobIdle DEF AtomicInv, OneProcessInv
  <1>2. attempts' = attempts
    BY <1>1, NothingElseWrites
  <1>3. job[p].created = TRUE => writer = {p}
    BY DEF AtomicInv, SubmitInv, LockHeld
  <1>4. job[p].created = TRUE => allocations' = allocations
    BY <1>1, <1>3, HolderKeeps
  <1>5. QED
    BY <1>2, <1>4, RowsGrow

LEMMA NextLookedUp ==
  ASSUME OneProcess, AtomicInv, [Next]_vars, NEW p \in Process,
         job'[p].stage = "decide"
  PROVE  \E earlier \in SUBSET allocations' : LookedUp(p, earlier)'
  <1>1. TypeOK /\ JobStep(p) /\ job[p] \in Job
    BY NextJobStep, JobFields DEF AtomicInv, OneProcessInv
  <1>2. CASE job'[p] = job[p]
    <2>1. PICK earlier \in SUBSET allocations : LookedUp(p, earlier)
      BY <1>2 DEF AtomicInv, AnswersStand
    <2>2. /\ allocations \subseteq allocations'
          /\ job[p].created = TRUE => allocations' = allocations
      BY <1>2, SubmitSees
    <2>3. LookedUp(p, earlier)'
      BY <1>2, <2>1, <2>2 DEF LookedUp, Atomic!PaysElsewhere
    <2>4. QED
      BY <2>2, <2>3
  <1>3. CASE MovesOn(p)
    <2>1. job[p].stage = "read"
      BY <1>1, <1>3, MoveFields DEF Follows
    <2>2. job'[p].taken = TRUE
            <=> PaysAnother(job[p].reading.best, job[p].req.order)
      BY <1>1, <1>3, <2>1 DEF MovesOn, Job
    <2>3. /\ job'[p].reading = job[p].reading
          /\ job'[p].req = job[p].req
          /\ job'[p].created = job[p].created
      BY <1>1, <1>3, <2>1, MoveFields
    <2>4. /\ allocations \subseteq allocations'
          /\ job[p].created = TRUE => allocations' = allocations
      BY <2>1, SubmitSees
    <2>5. PICK earlier \in SUBSET allocations : earlier = allocations
      OBVIOUS
    <2>6. LookedUp(p, earlier)'
      BY <2>2, <2>3, <2>4, <2>5 DEF LookedUp, Atomic!PaysElsewhere, PaysAnother
    <2>7. QED
      BY <2>4, <2>6
  <1>4. QED
    BY <1>1, <1>2, <1>3, NoJobIdle DEF JobStep

LEMMA NextStands ==
  ASSUME OneProcess, AtomicInv, [Next]_vars, NEW p \in Process,
         job'[p].stage = "commit"
  PROVE  \E later \in SUBSET allocations' : \E earlier \in SUBSET later :
           Stands(p, earlier, later)'
  <1>1. TypeOK /\ JobStep(p) /\ job[p] \in Job /\ Filled(job[p])
    BY NextJobStep, JobFields DEF AtomicInv, OneProcessInv
  <1>2. CASE job'[p] = job[p]
    <2>0. PICK later \in SUBSET allocations :
            \E earlier \in SUBSET later : Stands(p, earlier, later)
      BY <1>2 DEF AtomicInv, AnswersStand
    <2>1. PICK earlier \in SUBSET later : Stands(p, earlier, later)
      BY <2>0
    <2>2. /\ attempts' = attempts
          /\ allocations \subseteq allocations'
          /\ job[p].created = TRUE => allocations' = allocations
      BY <1>2, SubmitSees
    <2>3. Used(p, earlier, later)' <=> Used(p, earlier, later)
      BY <1>2, <2>2 DEF Used, ImageOf, Atomic!PaysElsewhere,
           Atomic!AcceptedElsewhere, Atomic!AcceptedOn
    <2>4. Stands(p, earlier, later)'
      BY <1>2, <2>1, <2>2, <2>3 DEF Stands, Atomic!Judged
    <2>5. QED
      BY <2>2, <2>4
  <1>3. CASE MovesOn(p)
    <2>1. job[p].stage = "decide"
      BY <1>1, <1>3, MoveFields DEF Follows
    <2>2. PICK earlier \in SUBSET allocations : LookedUp(p, earlier)
      BY <2>1 DEF AtomicInv, AnswersStand
    <2>3. PICK later \in SUBSET allocations : later = allocations
      OBVIOUS
    <2>4. job[p].reading \in Readings /\ job[p].taken \in BOOLEAN
      BY <1>1, <2>1 DEF Filled, Job, AtomicInv, ReadingsGiven
    <2>5. PICK reused \in BOOLEAN :
            /\ reused <=> Reused(ImageOf(p), job[p].req.order)
            /\ job'[p] = [job[p] EXCEPT
                 !.stage = "commit",
                 !.status = Verdict(job[p].reading, job[p].taken, reused),
                 !.txn = Named(job[p].reading, job[p].taken, reused)]
      BY <1>1, <1>3, <2>1 DEF MovesOn, Job
    <2>6. /\ job'[p].status = Verdict(job[p].reading, job[p].taken, reused)
          /\ job'[p].txn = Named(job[p].reading, job[p].taken, reused)
          /\ job'[p].reading = job[p].reading
          /\ job'[p].req = job[p].req
          /\ job'[p].created = job[p].created
      BY <1>1, <2>5 DEF Job
    <2>7. /\ attempts' = attempts
          /\ allocations \subseteq allocations'
          /\ job[p].created = TRUE => allocations' = allocations
      BY <2>1, SubmitSees
    <2>8. (job[p].taken \/ reused) <=> Used(p, earlier, later)
      BY <2>2, <2>3, <2>4, <2>5, ReusedNow DEF Used, LookedUp
    <2>9. Used(p, earlier, later)' <=> Used(p, earlier, later)
      BY <2>6, <2>7 DEF Used, ImageOf, Atomic!PaysElsewhere,
           Atomic!AcceptedElsewhere, Atomic!AcceptedOn
    <2>10. job'[p].status = Atomic!Judged(job[p].reading, Used(p, earlier, later)')
      <3>1. job'[p].status = Atomic!Judged(job[p].reading, job[p].taken \/ reused)
        BY <2>4, <2>6, JudgedAsDecided
      <3>2. (job[p].taken \/ reused) <=> Used(p, earlier, later)'
        BY <2>8, <2>9
      <3>3. QED
        BY <3>1, <3>2 DEF Atomic!Judged
    <2>11. /\ job'[p].txn \in {job[p].reading.best, None}
           /\ job'[p].status = "VERIFIED" => job'[p].txn = job[p].reading.best
      BY <2>4, <2>6, JudgedAsDecided
    <2>12. job'[p].created = TRUE => earlier = allocations'
      BY <2>2, <2>6, <2>7 DEF LookedUp
    <2>13. Stands(p, earlier, later)'
      BY <2>6, <2>10, <2>11, <2>12 DEF Stands
    <2>14. QED
      BY <2>2, <2>3, <2>7, <2>13
  <1>4. QED
    BY <1>1, <1>2, <1>3, NoJobIdle DEF JobStep

LEMMA AtomicInvariant ==
  ASSUME OneProcess
  PROVE  Spec => []AtomicInv
  <1>1. Init => ReadingsGiven /\ AnswersStand
    BY DEF Init, ReadingsGiven, AnswersStand, NoJob
  <1>2. AtomicInv /\ [Next]_vars => (ReadingsGiven /\ AnswersStand)'
    <2> SUFFICES ASSUME AtomicInv, [Next]_vars
                 PROVE  ReadingsGiven' /\ AnswersStand'
      OBVIOUS
    <2>1. ReadingsGiven'
      BY NextReadingsGiven DEF AtomicInv, OneProcessInv
    <2>2. AnswersStand'
      BY NextLookedUp, NextStands DEF AnswersStand
    <2>3. QED
      BY <2>1, <2>2
  <1>3. SubmitInv /\ OneProcessInv /\ ReadingsGiven /\ AnswersStand <=> AtomicInv
    BY DEF AtomicInv
  <1>4. QED
    BY <1>1, <1>2, <1>3, SubmitInvariant, OneProcessInvariant, PTL DEF Spec

\* The rows change in two ways only.
LEMMA OnlyAnswersAndApprovals ==
  [Next]_vars => \/ UNCHANGED database
                 \/ \E p \in Process : Commit(p)
                 \/ \E a \in Approver : CommitApproval(a)
  BY DEF Next, SubmitStep, vars, database,
         Receive, LookupKey, Refuse, LookupProof, PutBlob, PutFails, Extract,
         ExtractFails, Begin, Revoked, InsertProof, InsertProofConflicts,
         ReadAllocations, Decide, Abort, Undo, Crash,
         ApproveQuietly, ReadForApproval, ApprovalConflicts, ApprovalTimesOut

\* The commit of a submit is the abstract submit ...
LEMMA CommitAnswers ==
  ASSUME AtomicInv, NEW p \in Process, Commit(p)
  PROVE  Atomic!Submit(job[p].req.key, job[p].req.order, job[p].req.content, job[p].id)
  <1> DEFINE k == job[p].req.key
             o == job[p].req.order
             c == job[p].req.content
             i == job[p].id
             r == job[p].reading
  <1>1. /\ TypeOK /\ job[p] \in Job /\ Filled(job[p])
        /\ job[p].stage = "commit"
    BY JobFields DEF AtomicInv, OneProcessInv, Commit
  <1>2. \A b \in bindings : b.key # k
    BY <1>1 DEF AtomicInv, OneProcessInv, KeysInFlight
  <1>3. \A a \in attempts : a.id # i
    BY <1>1 DEF AtomicInv, SubmitInv, IdsInFlight, Filled
  <1>4. bindings' = bindings \cup
          {[key |-> k, order |-> o, content |-> c, attempt |-> i]}
    BY CommitBinds DEF AtomicInv
  <1>5. /\ proofs' = proofs \cup {StoredAs[c]}
        /\ allocations' = allocations
        /\ attempts' = attempts \cup {NewAttempt(p)}
    BY <1>1, CommitWrites DEF ImageOf
  <1>6. r \in Readings
    BY <1>1 DEF Filled, AtomicInv, ReadingsGiven
  <1>7. Atomic!Answered(o, c, i, r)
    <2>0. PICK later \in SUBSET allocations :
            \E earlier \in SUBSET later : Stands(p, earlier, later)
      BY <1>1 DEF AtomicInv, AnswersStand
    <2>1. PICK earlier \in SUBSET later : Stands(p, earlier, later)
      BY <2>0
    <2>2. StoredAs[c] \notin proofs => earlier = allocations
      <3>1. job[p].created = FALSE => StoredAs[c] \in proofs
        BY <1>1 DEF AtomicInv, SubmitInv, FlagsTrue, ImageOf
      <3>2. job[p].created \in BOOLEAN
        BY <1>1 DEF Job
      <3>3. QED
        BY <2>1, <3>1, <3>2 DEF Stands
    <2> DEFINE used == \/ Atomic!PaysElsewhere(r.best, o, earlier)
                       \/ Atomic!AcceptedElsewhere(StoredAs[c], o, later)
               status == Atomic!Judged(r, used)
               t == job[p].txn
    <2>3. status = job[p].status
      BY <2>1 DEF Stands, Used, ImageOf
    <2>4. t \in {r.best, None} /\ (status = "VERIFIED" => t = r.best)
      BY <2>1, <2>3 DEF Stands
    <2>5. attempts' = attempts \cup
            {[id |-> i, order |-> o, image |-> StoredAs[c],
              status |-> status, txn |-> t]}
      BY <1>5, <2>3 DEF NewAttempt, ImageOf
    <2>6. /\ StoredAs[c] \notin proofs => earlier = allocations
          /\ \E u \in {r.best, None} :
               /\ status = "VERIFIED" => u = r.best
               /\ attempts' = attempts \cup
                    {[id |-> i, order |-> o, image |-> StoredAs[c],
                      status |-> status, txn |-> u]}
      BY <2>2, <2>4, <2>5
    <2>7. QED
      BY <2>1, <2>6 DEF Atomic!Answered
  <1>8. QED
    BY <1>2, <1>3, <1>4, <1>5, <1>6, <1>7 DEF Atomic!Submit

\* ... and the commit of an approval the abstract approval.
LEMMA CommitApproves ==
  ASSUME AtomicInv, NEW a \in Approver, CommitApproval(a)
  PROVE  approval[a] \in attempts /\ Atomic!Approve(approval[a])
  <1>1. /\ approval[a] \in attempts /\ approval[a].status = "VERIFIED"
        /\ approval[a] \in Paying
    BY DEF AtomicInv, SubmitInv, MoneyInv, TypeOK, ApprovalRests, CommitApproval
  <1>2. approval[a].txn # None
    BY <1>1, ServiceAssumption DEF Paying
  <1>3. QED
    BY <1>1, <1>2 DEF CommitApproval, Spent, Paid, Atomic!Approve

\* With one server process a submit is one step and an approval is one step:
\* whatever their statements interleave with, wherever one fails and whenever
\* the process dies, the rows are those of AtomicVerification.
THEOREM CallsAreAtomic ==
  ASSUME OneProcess
  PROVE  Spec => ImplementsAtomic
  <1>1. Init => Atomic!Init
    BY DEF Init, Atomic!Init
  <1>2. AtomicInv /\ [Next]_vars => [Atomic!Next]_(Atomic!rows)
    <2> SUFFICES ASSUME AtomicInv, [Next]_vars
                 PROVE  Atomic!Next \/ UNCHANGED Atomic!rows
      OBVIOUS
    <2>1. CASE UNCHANGED database
      BY <2>1 DEF database, Atomic!rows
    <2>2. ASSUME NEW p \in Process, Commit(p)
          PROVE  Atomic!Next
      <3>1. job[p].req \in Request /\ job[p].id \in AttemptId
        BY <2>2, JobFields
        DEF AtomicInv, OneProcessInv, Commit, Filled, Job
      <3>2. QED
        BY <2>2, <3>1, CommitAnswers DEF Atomic!Next, Request
    <2>3. ASSUME NEW a \in Approver, CommitApproval(a)
          PROVE  Atomic!Next
      BY <2>3, CommitApproves DEF Atomic!Next
    <2>4. QED
      BY <2>1, <2>2, <2>3, OnlyAnswersAndApprovals
  <1>3. QED
    BY <1>1, <1>2, AtomicInvariant, PTL DEF Spec, ImplementsAtomic, Atomic!Spec
=============================================================================
