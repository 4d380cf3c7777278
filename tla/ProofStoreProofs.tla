-------------------------- MODULE ProofStoreProofs --------------------------
(***************************************************************************)
(* Proofs about ProofStore for any number of approving threads, orders,    *)
(* uploads, keys, ids and resets.                                          *)
(***************************************************************************)
EXTENDS ProofStore, TLAPS

-----------------------------------------------------------------------------
(***************************************************************************)
(* Type correctness.                                                       *)
(***************************************************************************)
\* The steps of the submit on the event loop.
LEMMA SubmitType ==
  ASSUME TypeOK,
         Replay \/ Submit \/ SubmitFails \/ Decide \/ RecordPending \/ Answer
  PROVE  TypeOK'
  <1>1. CASE Replay
    BY <1>1 DEF Replay, vars, TypeOK
  <1>2. CASE Submit
    <2>0. PICK q \in Requests, i \in Id \ issued :
            /\ \E g \in Reads(q.order, q.content) :
                 job' = [stage |-> "decide", req |-> q, id |-> i, reading |-> g, verdict |-> g]
            /\ issued' = issued \cup {i}
            /\ blobs' = blobs \cup {q.content}
      BY <1>2 DEF Submit
    <2>1. PICK g \in Reads(q.order, q.content) :
            job' = [stage |-> "decide", req |-> q, id |-> i, reading |-> g, verdict |-> g]
      BY <2>0
    <2>2. /\ q \in Request
          /\ q.order \in Order
          /\ q.content \in Content
      BY StoreAssumption DEF Request
    <2>3. g \in Reading
      BY <2>2, StoreAssumption
    <2>4. job' \in Job
      BY <2>1, <2>2, <2>3 DEF Job, Verdict
    <2>5. QED
      BY <1>2, <2>0, <2>2, <2>4 DEF Submit, TypeOK, store, resets
  <1>3. CASE SubmitFails
    <2>1. \A q \in Requests : q.content \in Content
      BY StoreAssumption DEF Request
    <2>2. QED
      BY <1>3, <2>1 DEF SubmitFails, TypeOK, store, resets
  <1>4. CASE Decide
    <2>1. job \in Job
      BY <1>4 DEF Decide, TypeOK
    <2>2. PICK v \in Verdict, s \in {"pend", "answer"} :
            job' = [job EXCEPT !.verdict = v, !.stage = s]
      BY <1>4, <2>1 DEF Decide, Job, Verdict
    <2>3. job' \in Job
      BY <2>1, <2>2 DEF Job
    <2>4. QED
      BY <1>4, <2>3 DEF Decide, TypeOK, store, resets
  <1>5. CASE RecordPending
    <2>1. job \in Job
      BY <1>5 DEF RecordPending, TypeOK
    <2>2. ProofOf(job) \in Proof
      BY <2>1 DEF ProofOf, Proof, Job, Request
    <2>3. job' \in Job
      BY <1>5, <2>1 DEF RecordPending, Job
    <2>4. QED
      BY <1>5, <2>2, <2>3 DEF RecordPending, TypeOK, resets
  <1>6. CASE Answer
    <2>1. job \in Job
      BY <1>6 DEF Answer, TypeOK
    <2>2. [key |-> job.req.key, order |-> job.req.order, content |-> job.req.content,
           id |-> job.id, verdict |-> job.verdict] \in Response
      BY <2>1 DEF Response, Job, Request
    <2>3. QED
      BY <1>6, <2>2 DEF Answer, TypeOK, store, resets
  <1>7. QED
    BY <1>1, <1>2, <1>3, <1>4, <1>5, <1>6

LEMMA ApproveType ==
  ASSUME TypeOK, NEW a \in Approver, PopPending(a) \/ ApproveStep(a)
  PROVE  TypeOK'
  <1>1. CASE PopPending(a)
    <2>1. PICK p \in pending :
            /\ pending' = pending \ {p}
            /\ approved' = approved \cup {p}
            /\ approving' = [approving EXCEPT ![a] =
                               [stage |-> "home", proof |-> p, home |-> 0]]
      BY <1>1 DEF PopPending
    <2>2. p \in Proof
      BY DEF TypeOK
    <2>3. [stage |-> "home", proof |-> p, home |-> 0] \in Approving
      BY <2>2 DEF Approving
    <2>4. QED
      BY <1>1, <2>1, <2>2, <2>3 DEF PopPending, TypeOK, resets
  <1>2. CASE CheckHistory(a)
    <2>1. approving[a] \in Approving
      BY <1>2 DEF CheckHistory, TypeOK
    <2>2. clears \in Nat
      BY DEF TypeOK
    <2>3. [approving[a] EXCEPT !.stage = "write", !.home = clears] \in Approving
      BY <2>1, <2>2 DEF Approving
    <2>4. QED
      BY <1>2, <2>3 DEF CheckHistory, TypeOK, resets
  <1>3. CASE WriteHistory(a)
    <2>1. approving[a] \in Approving
      BY <1>3 DEF WriteHistory, TypeOK
    <2>2. approving[a].proof \in Proof
      BY <2>1 DEF Approving
    <2>3. QED
      BY <1>3, <2>2 DEF WriteHistory, TypeOK, resets
  <1>4. QED
    BY <1>1, <1>2, <1>3 DEF ApproveStep

LEMMA ResetType ==
  ASSUME TypeOK, ClearResponses \/ ClearAccepted \/ ClearPending
  PROVE  TypeOK'
  <1>1. CASE ClearResponses
    BY <1>1 DEF ClearResponses, TypeOK, store
  <1>2. CASE ClearAccepted
    BY <1>2 DEF ClearAccepted, TypeOK
  <1>3. CASE ClearPending
    BY <1>3 DEF ClearPending, TypeOK
  <1>4. QED
    BY <1>1, <1>2, <1>3

LEMMA InitTypeOK == Init => TypeOK
  BY StoreAssumption DEF Init, TypeOK

LEMMA NextTypeOK == TypeOK /\ [Next]_vars => TypeOK'
  <1> SUFFICES ASSUME TypeOK, [Next]_vars PROVE TypeOK'
    OBVIOUS
  <1>1. CASE Replay \/ Submit \/ SubmitFails \/ Decide \/ RecordPending \/ Answer
    BY <1>1, SubmitType
  <1>2. CASE \E a \in Approver : PopPending(a) \/ ApproveStep(a)
    BY <1>2, ApproveType
  <1>3. CASE ClearResponses \/ ClearAccepted \/ ClearPending
    BY <1>3, ResetType
  <1>4. CASE UNCHANGED vars
    BY <1>4 DEF TypeOK, vars
  <1>5. QED
    BY <1>1, <1>2, <1>3, <1>4 DEF Next

\* Every reachable state is well typed: a running submit has an id, a reading
\* and a verdict, and a pool thread holds a proof until its approval ends.
THEOREM StoreTypeCorrect == Spec => []TypeOK
  BY InitTypeOK, NextTypeOK, PTL DEF Spec

-----------------------------------------------------------------------------
(***************************************************************************)
(* A REUSED answer rests on an approval.  The rule reads `accepted` when   *)
(* the verdict is decided, but the claim is about the answer, which is     *)
(* recorded later and outlives every reset: the proof that was accepted    *)
(* can be gone by then.  So the invariant follows the evidence from the    *)
(* pool thread that holds an approved proof, through the accepted proofs,  *)
(* to the running submit and the recorded answer.                          *)
(***************************************************************************)
Evidence(c, o) == \E p \in approved : p.content = c /\ p.order # o

HeldApproved == \A a \in Approver : approving[a] # None => approving[a].proof \in approved

AcceptedApproved == accepted \subseteq approved

JobRests ==
    job # None /\ job.verdict = "REUSED" => Evidence(job.req.content, job.req.order)

EvidenceInv == HeldApproved /\ AcceptedApproved /\ JobRests /\ ReuseRestsOnApproval

\* An approved proof stays approved, and with it whatever rests on it.
LEMMA EvidenceStays ==
  ASSUME approved \subseteq approved', NEW c, NEW o, Evidence(c, o)
  PROVE  Evidence(c, o)'
  BY DEF Evidence

\* Steps that leave the submit and its answers alone keep what rests on
\* approved proofs.
LEMMA RestsStay ==
  ASSUME approved \subseteq approved', JobRests, ReuseRestsOnApproval,
         UNCHANGED job, responses' \subseteq responses
  PROVE  JobRests' /\ ReuseRestsOnApproval'
  <1>1. JobRests'
    BY EvidenceStays DEF JobRests, Evidence
  <1>2. ReuseRestsOnApproval'
    BY DEF ReuseRestsOnApproval
  <1>3. QED
    BY <1>1, <1>2

LEMMA SubmitEvidence ==
  ASSUME TypeOK, EvidenceInv,
         Replay \/ Submit \/ SubmitFails \/ Decide \/ RecordPending \/ Answer
  PROVE  EvidenceInv'
  <1>1. UNCHANGED <<accepted, approving, approved>>
    BY DEF Replay, vars, Submit, SubmitFails, Decide, RecordPending, Answer, store
  <1>2. HeldApproved' /\ AcceptedApproved'
    BY <1>1 DEF EvidenceInv, HeldApproved, AcceptedApproved
  <1>3. CASE Replay \/ SubmitFails
    <2>1. UNCHANGED <<job, responses>>
      BY <1>3 DEF Replay, SubmitFails, vars
    <2>2. QED
      BY <1>1, <1>2, <2>1, RestsStay DEF EvidenceInv
  <1>4. CASE Submit
    <2>1. PICK q \in Requests, i \in Id \ issued :
            \E g \in Reads(q.order, q.content) :
              job' = [stage |-> "decide", req |-> q, id |-> i, reading |-> g, verdict |-> g]
      BY <1>4 DEF Submit
    <2>2. job'.verdict # "REUSED"
      BY <2>1, StoreAssumption DEF Reading, Request
    <2>3. UNCHANGED responses
      BY <1>4 DEF Submit
    <2>4. QED
      BY <1>1, <1>2, <2>2, <2>3 DEF EvidenceInv, JobRests, ReuseRestsOnApproval
  <1>5. CASE Decide
    <2>1. job \in Job
      BY <1>5 DEF Decide, TypeOK
    <2>2. UNCHANGED responses
      BY <1>5 DEF Decide
    <2>3. job'.req = job.req
      BY <1>5, <2>1 DEF Decide, Job
    <2>4. job'.verdict = "REUSED" => Reused(job.req.content, job.req.order)
      BY <1>5, <2>1 DEF Decide, Job, Reading
    <2>5. Reused(job.req.content, job.req.order) => Evidence(job.req.content, job.req.order)
      BY DEF Reused, Evidence, EvidenceInv, AcceptedApproved
    <2>6. QED
      BY <1>1, <1>2, <2>2, <2>3, <2>4, <2>5
      DEF EvidenceInv, JobRests, Evidence, ReuseRestsOnApproval
  <1>6. CASE RecordPending
    <2>1. job \in Job
      BY <1>6 DEF RecordPending, TypeOK
    <2>2. job # None /\ job'.req = job.req /\ job'.verdict = job.verdict
      BY <1>6, <2>1 DEF RecordPending, Job
    <2>3. UNCHANGED responses
      BY <1>6 DEF RecordPending
    <2>4. QED
      BY <1>1, <1>2, <2>2, <2>3 DEF EvidenceInv, JobRests, Evidence, ReuseRestsOnApproval
  <1>7. CASE Answer
    <2>1. job' = None
      BY <1>7 DEF Answer
    <2>2. ASSUME NEW r \in responses', r.verdict = "REUSED"
          PROVE  Evidence(r.content, r.order)
      BY <1>7, <2>2 DEF Answer, EvidenceInv, JobRests, ReuseRestsOnApproval, Evidence
    <2>3. QED
      BY <1>1, <1>2, <2>1, <2>2 DEF EvidenceInv, JobRests, ReuseRestsOnApproval, Evidence
  <1>8. QED
    BY <1>3, <1>4, <1>5, <1>6, <1>7

LEMMA ApproveEvidence ==
  ASSUME TypeOK, EvidenceInv, NEW a \in Approver, PopPending(a) \/ ApproveStep(a)
  PROVE  EvidenceInv'
  <1>1. /\ approved \subseteq approved'
        /\ UNCHANGED <<job, responses>>
    BY DEF PopPending, ApproveStep, CheckHistory, WriteHistory
  <1>2. JobRests' /\ ReuseRestsOnApproval'
    BY <1>1, RestsStay DEF EvidenceInv
  <1>3. approving \in [Approver -> Approving \cup {None}]
    BY DEF TypeOK
  <1>4. HeldApproved'
    <2>1. CASE PopPending(a)
      BY <1>1, <1>3, <2>1 DEF PopPending, EvidenceInv, HeldApproved
    <2>2. CASE CheckHistory(a)
      <3>1. approving[a] \in Approving
        BY <2>2 DEF CheckHistory, TypeOK
      <3>2. approving'[a] # None => approving'[a].proof = approving[a].proof
        BY <1>3, <2>2, <3>1 DEF CheckHistory, Approving
      <3>3. \A b \in Approver : b # a => approving'[b] = approving[b]
        BY <1>3, <2>2 DEF CheckHistory
      <3>4. approving[a] # None
        BY <2>2 DEF CheckHistory
      <3>5. QED
        BY <1>1, <3>2, <3>3, <3>4 DEF EvidenceInv, HeldApproved
    <2>3. CASE WriteHistory(a)
      BY <1>1, <1>3, <2>3 DEF WriteHistory, EvidenceInv, HeldApproved
    <2>4. QED
      BY <2>1, <2>2, <2>3 DEF ApproveStep
  <1>5. AcceptedApproved'
    <2>1. CASE PopPending(a) \/ CheckHistory(a)
      BY <1>1, <2>1 DEF PopPending, CheckHistory, EvidenceInv, AcceptedApproved
    <2>2. CASE WriteHistory(a)
      BY <1>1, <2>2 DEF WriteHistory, EvidenceInv, HeldApproved, AcceptedApproved
    <2>3. QED
      BY <2>1, <2>2 DEF ApproveStep
  <1>6. QED
    BY <1>2, <1>4, <1>5 DEF EvidenceInv

LEMMA ResetEvidence ==
  ASSUME EvidenceInv, ClearResponses \/ ClearAccepted \/ ClearPending
  PROVE  EvidenceInv'
  <1>1. /\ UNCHANGED <<job, approving, approved>>
        /\ responses' \subseteq responses
        /\ accepted' \subseteq accepted
    BY DEF ClearResponses, ClearAccepted, ClearPending, store
  <1>2. JobRests' /\ ReuseRestsOnApproval'
    BY <1>1, RestsStay DEF EvidenceInv
  <1>3. HeldApproved' /\ AcceptedApproved'
    BY <1>1 DEF EvidenceInv, HeldApproved, AcceptedApproved
  <1>4. QED
    BY <1>2, <1>3 DEF EvidenceInv

\* No submit, approval or reset makes an order answer REUSED for a picture
\* nobody has approved for another order: checking a receipt holds nothing
\* against the next check.
THEOREM ReuseIsApproved == Spec => []ReuseRestsOnApproval
  <1>1. Init => EvidenceInv
    BY DEF Init, EvidenceInv, HeldApproved, AcceptedApproved, JobRests, ReuseRestsOnApproval
  <1>2. TypeOK /\ EvidenceInv /\ [Next]_vars => EvidenceInv'
    <2> SUFFICES ASSUME TypeOK, EvidenceInv, [Next]_vars PROVE EvidenceInv'
      OBVIOUS
    <2>1. CASE Replay \/ Submit \/ SubmitFails \/ Decide \/ RecordPending \/ Answer
      BY <2>1, SubmitEvidence
    <2>2. CASE \E a \in Approver : PopPending(a) \/ ApproveStep(a)
      BY <2>2, ApproveEvidence
    <2>3. CASE ClearResponses \/ ClearAccepted \/ ClearPending
      BY <2>3, ResetEvidence
    <2>4. CASE UNCHANGED vars
      BY <2>4 DEF vars, EvidenceInv, HeldApproved, AcceptedApproved, JobRests, Evidence,
                  ReuseRestsOnApproval
    <2>5. QED
      BY <2>1, <2>2, <2>3, <2>4 DEF Next
  <1>3. EvidenceInv => ReuseRestsOnApproval
    BY DEF EvidenceInv
  <1>4. QED
    BY <1>1, <1>2, <1>3, StoreTypeCorrect, PTL DEF Spec

-----------------------------------------------------------------------------
(***************************************************************************)
(* Answers stand.  store_response overwrites, so the claim needs that the  *)
(* key of the running submit has no answer yet: the event loop runs one    *)
(* submit at a time, and only a submit answers.                            *)
(***************************************************************************)
KeyUnanswered == job # None => ~Known(job.req.key)

LEMMA NextKeyUnanswered ==
  ASSUME TypeOK, KeyUnanswered, [Next]_vars
  PROVE  KeyUnanswered'
  <1>1. CASE Submit
    <2>1. PICK q \in Requests, i \in Id \ issued :
            /\ ~Known(q.key)
            /\ \E g \in Reads(q.order, q.content) :
                 job' = [stage |-> "decide", req |-> q, id |-> i, reading |-> g, verdict |-> g]
      BY <1>1 DEF Submit
    <2>2. job'.req = q /\ UNCHANGED responses
      BY <1>1, <2>1 DEF Submit
    <2>3. QED
      BY <2>1, <2>2 DEF KeyUnanswered, Known
  <1>2. CASE Decide \/ RecordPending
    <2>1. job \in Job /\ job # None /\ UNCHANGED responses
      BY <1>2 DEF Decide, RecordPending, TypeOK
    <2>2. job'.req = job.req
      BY <1>2, <2>1 DEF Decide, RecordPending, Job
    <2>3. QED
      BY <2>1, <2>2 DEF KeyUnanswered, Known
  <1>3. CASE Answer
    BY <1>3 DEF Answer, KeyUnanswered
  <1>4. CASE \/ Replay \/ SubmitFails
             \/ \E a \in Approver : PopPending(a) \/ ApproveStep(a)
             \/ ClearResponses \/ ClearAccepted \/ ClearPending
             \/ UNCHANGED vars
    <2>1. UNCHANGED job /\ responses' \subseteq responses
      BY <1>4 DEF Replay, SubmitFails, PopPending, ApproveStep, CheckHistory,
                  WriteHistory, ClearResponses, ClearAccepted, ClearPending, vars
    <2>2. QED
      BY <2>1 DEF KeyUnanswered, Known
  <1>5. QED
    BY <1>1, <1>2, <1>3, <1>4 DEF Next

\* A key that has been answered keeps its answer until a reset, whatever any
\* number of threads approve, however often other keys are submitted.
THEOREM AnsweredKeysStand == Spec => AnswersStand
  <1>1. Init => KeyUnanswered
    BY DEF Init, KeyUnanswered
  <1>2. KeyUnanswered /\ [Next]_vars
          => [\A r \in responses : r \in responses' \/ resetting' = "accepted"]_vars
    <2> SUFFICES ASSUME KeyUnanswered, Next, NEW r \in responses
                 PROVE  r \in responses' \/ resetting' = "accepted"
      OBVIOUS
    <2>1. CASE Answer
      <3>1. r.key # job.req.key
        BY <2>1 DEF Answer, KeyUnanswered, Known
      <3>2. QED
        BY <2>1, <3>1 DEF Answer
    <2>2. CASE ClearResponses
      BY <2>2 DEF ClearResponses
    <2>3. CASE \/ Replay \/ Submit \/ SubmitFails \/ Decide \/ RecordPending
               \/ \E a \in Approver : PopPending(a) \/ ApproveStep(a)
               \/ ClearAccepted \/ ClearPending
      BY <2>3 DEF Replay, Submit, SubmitFails, Decide, RecordPending, PopPending,
                  ApproveStep, CheckHistory, WriteHistory, ClearAccepted,
                  ClearPending, vars
    <2>4. QED
      BY <2>1, <2>2, <2>3 DEF Next
  <1>3. TypeOK /\ KeyUnanswered /\ [Next]_vars => KeyUnanswered'
    BY NextKeyUnanswered
  <1>4. QED
    BY <1>1, <1>2, <1>3, StoreTypeCorrect, PTL DEF Spec, AnswersStand

-----------------------------------------------------------------------------
(***************************************************************************)
(* First writer wins.  record_accepted tests and then assigns, with no     *)
(* lock in between, so a thread that tested before the first acceptance    *)
(* may still displace it; any that tests later finds it and leaves.        *)
(***************************************************************************)
\* A step of one thread leaves the others' approvals alone.
LEMMA OneThreadMoves ==
  ASSUME TypeOK, NEW a \in Approver, PopPending(a) \/ ApproveStep(a)
  PROVE  /\ \A b \in Approver : b # a => approving'[b] = approving[b]
         /\ UNCHANGED clears
  BY DEF PopPending, ApproveStep, CheckHistory, WriteHistory, TypeOK, resets

\* A thread begins to enter a picture only if it is not there.
LEMMA EntersIfAbsent ==
  ASSUME TypeOK, NEW a \in Approver, NEW p \in accepted,
         Entering(p.content) = {}, PopPending(a) \/ ApproveStep(a)
  PROVE  Entering(p.content)' = {}
  <1>1. approving \in [Approver -> Approving \cup {None}]
    BY DEF TypeOK
  <1>2. SUFFICES ASSUME NEW b \in Approver, approving'[b] # None,
                        approving'[b].stage = "write", approving'[b].home = clears',
                        approving'[b].proof.content = p.content
                 PROVE  FALSE
    BY DEF Entering
  <1>3. CASE b # a
    BY <1>2, <1>3, OneThreadMoves DEF Entering
  <1>4. CASE b = a
    <2>1. CASE PopPending(a) \/ WriteHistory(a)
      BY <1>1, <1>2, <1>4, <2>1 DEF PopPending, WriteHistory
    <2>2. CASE CheckHistory(a)
      <3>1. approving[a] \in Approving
        BY <2>2 DEF CheckHistory, TypeOK
      <3>2. ~Taken(approving[a].proof.content)
        BY <1>1, <1>2, <1>4, <2>2 DEF CheckHistory
      <3>3. approving'[a].proof = approving[a].proof
        BY <1>1, <2>2, <3>1, <3>2 DEF CheckHistory, Approving
      <3>4. QED
        BY <1>2, <1>4, <3>2, <3>3 DEF Taken
    <2>3. QED
      BY <2>1, <2>2 DEF ApproveStep
  <1>5. QED
    BY <1>3, <1>4

\* However many threads approve: once an accepted picture has no thread left
\* that looked before it was accepted, its acceptance stands until a reset.
THEOREM SettledAcceptancesStand == Spec => SettledAcceptanceStands
  <1>1. TypeOK /\ [Next]_vars
          => [\A p \in accepted : Entering(p.content) = {} =>
                \/ p \in accepted' /\ Entering(p.content)' = {}
                \/ clears' # clears]_vars
    <2> SUFFICES ASSUME TypeOK, Next, NEW p \in accepted, Entering(p.content) = {}
                 PROVE  \/ p \in accepted' /\ Entering(p.content)' = {}
                        \/ clears' # clears
      OBVIOUS
    <2>1. ASSUME NEW a \in Approver, PopPending(a) \/ ApproveStep(a)
          PROVE  p \in accepted' /\ Entering(p.content)' = {}
      <3>1. a \notin Entering(p.content)
        OBVIOUS
      <3>2. p \in accepted'
        BY <2>1, <3>1 DEF PopPending, ApproveStep, CheckHistory, WriteHistory, Entering
      <3>3. QED
        BY <2>1, <3>2, EntersIfAbsent
    <2>2. CASE ClearAccepted
      BY <2>2 DEF ClearAccepted, TypeOK
    <2>3. CASE \/ Replay \/ Submit \/ SubmitFails \/ Decide \/ RecordPending \/ Answer
               \/ ClearResponses \/ ClearPending
      <3>1. UNCHANGED <<approving, accepted, clears>>
        BY <2>3 DEF Replay, Submit, SubmitFails, Decide, RecordPending, Answer,
                    ClearResponses, ClearPending, vars, store, resets
      <3>2. QED
        BY <3>1 DEF Entering
    <2>4. QED
      BY <2>1, <2>2, <2>3 DEF Next
  <1>2. QED
    BY <1>1, StoreTypeCorrect, PTL DEF Spec, SettledAcceptanceStands

-----------------------------------------------------------------------------
(***************************************************************************)
(* The scripted demo.  A picture gets into the history only where it       *)
(* verified, so an order is safe from R025 if no other can verify with its *)
(* picture, or if a rule above R025 decides it (proof_store.py, reason 2:  *)
(* the colliding picture's transaction is allocated elsewhere).            *)
(***************************************************************************)
\* A proof comes from a request that can verify.
CanVerify(p) ==
    \E q \in Requests : /\ q.order = p.order
                        /\ q.content = p.content
                        /\ "VERIFIED" \in Reads(q.order, q.content)

HistoryVerified ==
    /\ \A p \in accepted : CanVerify(p)
    /\ \A p \in pending : CanVerify(p)
    /\ \A a \in Approver : approving[a] # None => CanVerify(approving[a].proof)

\* The running submit answers what it read, unless another order disturbs it.
JobAnswersReading ==
    job # None =>
      /\ job.req \in Requests
      /\ job.reading \in Reads(job.req.order, job.req.content)
      /\ job.verdict \in {job.reading, "REUSED"}
      /\ Undisturbed(job.req.order, job.req.content) => job.verdict = job.reading
      /\ job.stage = "pend" => job.verdict = "VERIFIED"

ScriptInv == HistoryVerified /\ JobAnswersReading /\ VerdictsKeepTheirOrder

LEMMA SubmitScripted ==
  ASSUME TypeOK, ScriptInv,
         Replay \/ Submit \/ SubmitFails \/ Decide \/ RecordPending \/ Answer
  PROVE  ScriptInv'
  <1>1. CASE Replay \/ SubmitFails
    BY <1>1 DEF Replay, SubmitFails, vars, store, ScriptInv, HistoryVerified,
                JobAnswersReading, VerdictsKeepTheirOrder
  <1>2. CASE Submit
    <2>1. PICK q \in Requests, i \in Id \ issued :
            \E g \in Reads(q.order, q.content) :
              job' = [stage |-> "decide", req |-> q, id |-> i, reading |-> g, verdict |-> g]
      BY <1>2 DEF Submit
    <2>2. PICK g \in Reads(q.order, q.content) :
            job' = [stage |-> "decide", req |-> q, id |-> i, reading |-> g, verdict |-> g]
      BY <2>1
    <2>3. JobAnswersReading'
      BY <2>2 DEF JobAnswersReading
    <2>4. QED
      BY <1>2, <2>3 DEF Submit, store, ScriptInv, HistoryVerified, VerdictsKeepTheirOrder
  <1>3. CASE Decide
    <2>1. job \in Job /\ job # None /\ job.stage = "decide"
      BY <1>3 DEF Decide, TypeOK
    <2>2. /\ job.req \in Requests
          /\ job.reading \in Reads(job.req.order, job.req.content)
      BY <2>1 DEF ScriptInv, JobAnswersReading
    <2>3. Reused(job.req.content, job.req.order)
            /\ Undisturbed(job.req.order, job.req.content)
            => job.reading \in {"UNMATCHED", "ALLOCATED"}
      <3>1. HAVE Reused(job.req.content, job.req.order)
                 /\ Undisturbed(job.req.order, job.req.content)
      <3>2. PICK p \in accepted : p.content = job.req.content /\ p.order # job.req.order
        BY <3>1 DEF Reused
      <3>3. PICK q \in Requests : /\ q.order = p.order /\ q.content = p.content
                                 /\ "VERIFIED" \in Reads(q.order, q.content)
        BY DEF ScriptInv, HistoryVerified, CanVerify
      <3>4. QED
        BY <2>2, <3>1, <3>2, <3>3 DEF Undisturbed
    <2>4. PICK s \in {"pend", "answer"}, v \in {job.reading, "REUSED"} :
            /\ job' = [job EXCEPT !.verdict = v, !.stage = s]
            /\ Undisturbed(job.req.order, job.req.content) => v = job.reading
            /\ s = "pend" => v = "VERIFIED"
      BY <1>3, <2>1, <2>3 DEF Decide
    <2>5. /\ job'.req = job.req /\ job'.reading = job.reading
          /\ job'.verdict = v /\ job'.stage = s
      BY <2>1, <2>4 DEF Job
    <2>6. JobAnswersReading'
      BY <2>2, <2>4, <2>5 DEF JobAnswersReading, Undisturbed
    <2>7. QED
      BY <1>3, <2>6 DEF Decide, store, ScriptInv, HistoryVerified, VerdictsKeepTheirOrder
  <1>4. CASE RecordPending
    <2>1. job \in Job /\ job # None /\ job.stage = "pend"
      BY <1>4 DEF RecordPending, TypeOK
    <2>2. job.verdict = job.reading
      BY <2>1 DEF ScriptInv, JobAnswersReading
    <2>3. CanVerify(ProofOf(job))
      BY <2>1, <2>2 DEF ScriptInv, JobAnswersReading, ProofOf, CanVerify
    <2>4. HistoryVerified'
      BY <1>4, <2>3 DEF RecordPending, ScriptInv, HistoryVerified
    <2>5. JobAnswersReading'
      BY <1>4, <2>1 DEF RecordPending, ScriptInv, JobAnswersReading, Job
    <2>6. QED
      BY <1>4, <2>4, <2>5 DEF RecordPending, ScriptInv, VerdictsKeepTheirOrder
  <1>5. CASE Answer
    <2>1. Undisturbed(job.req.order, job.req.content)
            => job.verdict \in Reads(job.req.order, job.req.content)
      BY <1>5 DEF Answer, ScriptInv, JobAnswersReading
    <2>2. VerdictsKeepTheirOrder'
      <3>1. SUFFICES ASSUME NEW r \in responses', Undisturbed(r.order, r.content)
                     PROVE  r.verdict \in Reads(r.order, r.content)
        BY DEF VerdictsKeepTheirOrder
      <3>2. CASE r \in responses
        BY <3>1, <3>2 DEF ScriptInv, VerdictsKeepTheirOrder
      <3>3. CASE r \notin responses
        <4>1. /\ r.order = job.req.order
              /\ r.content = job.req.content
              /\ r.verdict = job.verdict
          BY <1>5, <3>3 DEF Answer
        <4>2. QED
          BY <2>1, <3>1, <4>1
      <3>4. QED
        BY <3>2, <3>3
    <2>3. JobAnswersReading' /\ HistoryVerified'
      BY <1>5 DEF Answer, store, JobAnswersReading, ScriptInv, HistoryVerified
    <2>4. QED
      BY <2>2, <2>3 DEF ScriptInv
  <1>6. QED
    BY <1>1, <1>2, <1>3, <1>4, <1>5

LEMMA ApproveScripted ==
  ASSUME TypeOK, ScriptInv, NEW a \in Approver, PopPending(a) \/ ApproveStep(a)
  PROVE  ScriptInv'
  <1>1. UNCHANGED <<job, responses>>
    BY DEF PopPending, ApproveStep, CheckHistory, WriteHistory
  <1>2. approving \in [Approver -> Approving \cup {None}]
    BY DEF TypeOK
  <1>3. HistoryVerified'
    <2>1. CASE PopPending(a)
      BY <1>2, <2>1 DEF PopPending, ScriptInv, HistoryVerified
    <2>2. CASE CheckHistory(a)
      <3>1. approving[a] \in Approving /\ approving[a] # None
        BY <2>2 DEF CheckHistory, TypeOK
      <3>2. approving'[a] # None => approving'[a].proof = approving[a].proof
        BY <1>2, <2>2, <3>1 DEF CheckHistory, Approving
      <3>3. \A b \in Approver : b # a => approving'[b] = approving[b]
        BY <1>2, <2>2 DEF CheckHistory
      <3>4. UNCHANGED <<accepted, pending>>
        BY <2>2 DEF CheckHistory
      <3>5. QED
        BY <3>1, <3>2, <3>3, <3>4 DEF ScriptInv, HistoryVerified
    <2>3. CASE WriteHistory(a)
      BY <1>2, <2>3 DEF WriteHistory, ScriptInv, HistoryVerified
    <2>4. QED
      BY <2>1, <2>2, <2>3 DEF ApproveStep
  <1>4. QED
    BY <1>1, <1>3 DEF ScriptInv, JobAnswersReading, VerdictsKeepTheirOrder

\* Whatever requests and readings there are: an order no other can disturb
\* answers what it reads, through every sequence of submits, approvals on any
\* number of threads, and resets.
THEOREM ScriptsAreKept == Spec => []VerdictsKeepTheirOrder
  <1>1. Init => ScriptInv
    BY DEF Init, ScriptInv, HistoryVerified, JobAnswersReading, VerdictsKeepTheirOrder
  <1>2. TypeOK /\ ScriptInv /\ [Next]_vars => ScriptInv'
    <2> SUFFICES ASSUME TypeOK, ScriptInv, [Next]_vars PROVE ScriptInv'
      OBVIOUS
    <2>1. CASE Replay \/ Submit \/ SubmitFails \/ Decide \/ RecordPending \/ Answer
      BY <2>1, SubmitScripted
    <2>2. CASE \E a \in Approver : PopPending(a) \/ ApproveStep(a)
      BY <2>2, ApproveScripted
    <2>3. CASE ClearResponses \/ ClearAccepted \/ ClearPending
      BY <2>3 DEF ClearResponses, ClearAccepted, ClearPending, store, ScriptInv,
                  HistoryVerified, JobAnswersReading, VerdictsKeepTheirOrder
    <2>4. CASE UNCHANGED vars
      BY <2>4 DEF vars, ScriptInv, HistoryVerified, JobAnswersReading, VerdictsKeepTheirOrder
    <2>5. QED
      BY <2>1, <2>2, <2>3, <2>4 DEF Next
  <1>3. ScriptInv => VerdictsKeepTheirOrder
    BY DEF ScriptInv
  <1>4. QED
    BY <1>1, <1>2, <1>3, StoreTypeCorrect, PTL DEF Spec
=============================================================================
