----------------------------- MODULE ProofStore -----------------------------
(***************************************************************************)
(* The demo path of the backend: _submit_demo in                           *)
(* api/verification_service.py, the in-memory proof history of             *)
(* adapters/proof_store.py, the response registry of api/v1/idempotency.py *)
(* and POST /demo/reset.                                                   *)
(*                                                                         *)
(* Submits run one at a time on the event loop; approvals and resets run   *)
(* on pool threads beside it.  The three dictionaries have no lock, so a   *)
(* step here is what one thread does between two touches of a dictionary   *)
(* that another thread can see.  One merchant: every dictionary is keyed   *)
(* by merchant or by an id that belongs to one.                            *)
(***************************************************************************)
EXTENDS Naturals

CONSTANTS
    Approver,       \* pool threads running approve_verification
    Order,          \* demo orders
    Content,        \* uploaded byte strings; a picture is named by its hash
    Key,            \* idempotency keys
    Id,             \* verification ids
    Requests,       \* the requests clients make
    Reads(_, _),    \* what reading a content for an order can come to
    MaxResets,      \* bound on demo resets
    None            \* the absent value

VARIABLES
    responses,      \* _responses
    accepted,       \* the proofs in the merchant's dictionary of _accepted
    pending,        \* _pending
    blobs,          \* objects in the blob store
    job,            \* the submit on the event loop
    approving,      \* the approval on each pool thread
    resetting,      \* the next step of the reset that is running, or "idle"
    clears,         \* how often _accepted has been cleared
    issued,         \* history: verification ids given out
    approved        \* history: proofs an approval has taken from _pending

vars == <<responses, accepted, pending, blobs, job, approving, resetting,
          clears, issued, approved>>
store == <<accepted, pending, approving, approved>>
resets == <<resetting, clears>>

-----------------------------------------------------------------------------
\* What decide() answers when no accepted proof stands in the way: R010's
\* UNMATCHED, R020's DUPLICATE (the transaction is allocated elsewhere), or
\* the verdict of a rule below R025.  REUSED is R025's own DUPLICATE.
Reading == {"UNMATCHED", "ALLOCATED", "VERIFIED", "NEEDS_REVIEW"}
Verdict == Reading \cup {"REUSED"}

Request == [order : Order, content : Content, key : Key]
Proof == [id : Id, content : Content, order : Order]
Response == [key : Key, order : Order, content : Content, id : Id, verdict : Verdict]

Job == [stage : {"decide", "pend", "answer"}, req : Request, id : Id,
        reading : Reading, verdict : Verdict]

\* `home` tells which incarnation of the merchant's dictionary the thread
\* holds: clear() leaves the old one to the threads that hold it.
Approving == [stage : {"home", "write"}, proof : Proof, home : Nat]

ASSUME StoreAssumption ==
    /\ Requests \subseteq Request
    /\ \A o \in Order, c \in Content : Reads(o, c) \subseteq Reading
    /\ Id \subseteq Nat
    /\ MaxResets \in Nat
    /\ None \notin Job /\ None \notin Approving

TypeOK ==
    /\ responses \subseteq Response
    /\ accepted \subseteq Proof
    /\ pending \subseteq Proof
    /\ blobs \subseteq Content
    /\ job \in Job \cup {None}
    /\ approving \in [Approver -> Approving \cup {None}]
    /\ resetting \in {"idle", "accepted", "pending"}
    /\ clears \in Nat
    /\ issued \subseteq Id
    /\ approved \subseteq Proof

Init ==
    /\ responses = {} /\ accepted = {} /\ pending = {} /\ blobs = {}
    /\ job = None
    /\ approving = [a \in Approver |-> None]
    /\ resetting = "idle" /\ clears = 0
    /\ issued = {} /\ approved = {}

-----------------------------------------------------------------------------
(***************************************************************************)
(* Submit.                                                                 *)
(***************************************************************************)
\* find_existing: a known key is replayed or refused with a 409.
Known(k) == \E r \in responses : r.key = k

\* The replay and the 409 change nothing.
Replay ==
    /\ job = None
    /\ \E q \in Requests : Known(q.key)
    /\ UNCHANGED vars

\* Mutant: the key is not looked up.
SubmitRerunsKey ==
    /\ job = None
    /\ \E q \in Requests, i \in Id \ issued :
         /\ \E g \in Reads(q.order, q.content) :
              job' = [stage |-> "decide", req |-> q, id |-> i, reading |-> g, verdict |-> g]
         /\ issued' = issued \cup {i}
         /\ blobs' = blobs \cup {q.content}
    /\ UNCHANGED <<responses, store, resets>>

\* A new request gets past find_existing, its object is stored and its claim
\* is extracted.  The event loop does all of this before it yields, and no
\* other thread touches the object store.
Submit ==
    /\ job = None
    /\ \E q \in Requests, i \in Id \ issued :
         /\ ~Known(q.key)
         /\ \E g \in Reads(q.order, q.content) :
              job' = [stage |-> "decide", req |-> q, id |-> i, reading |-> g, verdict |-> g]
         /\ issued' = issued \cup {i}
         /\ blobs' = blobs \cup {q.content}
    /\ UNCHANGED <<responses, store, resets>>

\* The claim cannot be extracted: the object goes, whoever stored it first,
\* unless its deletion fails too.
SubmitFails ==
    /\ job = None
    /\ \E q \in Requests :
         /\ ~Known(q.key)
         /\ \/ blobs' = blobs \ {q.content}
            \/ blobs' = blobs \cup {q.content}
    /\ UNCHANGED <<responses, job, issued, store, resets>>

\* check_proof: the picture was accepted, and for another order.
Reused(c, o) == \E p \in accepted : p.content = c /\ p.order # o

\* Mutant: every verdict is held for approval, not only VERIFIED.
DecideHoldsAll ==
    /\ job # None /\ job.stage = "decide"
    /\ LET verdict == IF /\ Reused(job.req.content, job.req.order)
                         /\ job.reading \notin {"UNMATCHED", "ALLOCATED"}
                      THEN "REUSED" ELSE job.reading
       IN job' = [job EXCEPT !.verdict = verdict, !.stage = "pend"]
    /\ UNCHANGED <<responses, blobs, issued, store, resets>>

\* decide() over a copy of the accepted proofs; R010 and R020 come first.
Decide ==
    /\ job # None /\ job.stage = "decide"
    /\ LET verdict == IF /\ Reused(job.req.content, job.req.order)
                         /\ job.reading \notin {"UNMATCHED", "ALLOCATED"}
                      THEN "REUSED" ELSE job.reading
       IN job' = [job EXCEPT !.verdict = verdict,
                             !.stage = IF verdict = "VERIFIED" THEN "pend" ELSE "answer"]
    /\ UNCHANGED <<responses, blobs, issued, store, resets>>

\* Mutant: the proof is recorded without its order.
ProofOfNoOrder(j) == [id |-> j.id, content |-> j.req.content, order |-> None]

ProofOf(j) == [id |-> j.id, content |-> j.req.content, order |-> j.req.order]

\* Mutant: the question already spends the picture.
RecordAccepted ==
    /\ job # None /\ job.stage = "pend"
    /\ accepted' = IF \E p \in accepted : p.content = job.req.content
                   THEN accepted ELSE accepted \cup {ProofOf(job)}
    /\ job' = [job EXCEPT !.stage = "answer"]
    /\ UNCHANGED <<responses, pending, approving, approved, blobs, issued, resets>>

\* record_pending: the id is new, so nothing is overwritten.
RecordPending ==
    /\ job # None /\ job.stage = "pend"
    /\ pending' = pending \cup {ProofOf(job)}
    /\ job' = [job EXCEPT !.stage = "answer"]
    /\ UNCHANGED <<responses, accepted, approving, approved, blobs, issued, resets>>

\* store_response overwrites; then the request is answered.
Answer ==
    /\ job # None /\ job.stage = "answer"
    /\ responses' = {r \in responses : r.key # job.req.key} \cup
         {[key |-> job.req.key, order |-> job.req.order,
           content |-> job.req.content, id |-> job.id, verdict |-> job.verdict]}
    /\ job' = None
    /\ UNCHANGED <<blobs, issued, store, resets>>

-----------------------------------------------------------------------------
(***************************************************************************)
(* Approve.                                                                *)
(***************************************************************************)
\* approve pops the proof.  An id that is not pending does nothing.
PopPending(a) ==
    /\ approving[a] = None
    /\ \E p \in pending :
         /\ pending' = pending \ {p}
         /\ approved' = approved \cup {p}
         /\ approving' = [approving EXCEPT ![a] = [stage |-> "home", proof |-> p, home |-> 0]]
    /\ UNCHANGED <<responses, accepted, blobs, job, issued, resets>>

Taken(c) == \E p \in accepted : p.content = c

\* Mutant: the first-writer test is inverted.
CheckHistoryInverted(a) ==
    /\ approving[a] # None /\ approving[a].stage = "home"
    /\ approving' = [approving EXCEPT ![a] =
         IF Taken(approving[a].proof.content)
         THEN [approving[a] EXCEPT !.stage = "write", !.home = clears]
         ELSE None]
    /\ UNCHANGED <<responses, accepted, pending, approved, blobs, job, issued, resets>>

\* Mutant: no first-writer test.
CheckHistorySkipped(a) ==
    /\ approving[a] # None /\ approving[a].stage = "home"
    /\ approving' = [approving EXCEPT ![a].stage = "write", ![a].home = clears]
    /\ UNCHANGED <<responses, accepted, pending, approved, blobs, job, issued, resets>>

\* record_accepted fetches the merchant's dictionary and returns when the
\* picture is in it.
CheckHistory(a) ==
    /\ approving[a] # None /\ approving[a].stage = "home"
    /\ approving' = [approving EXCEPT ![a] =
         IF Taken(approving[a].proof.content)
         THEN None
         ELSE [approving[a] EXCEPT !.stage = "write", !.home = clears]]
    /\ UNCHANGED <<responses, accepted, pending, approved, blobs, job, issued, resets>>

\* The assignment into that dictionary, which replaces what is there.  It is
\* lost when the dictionary has been cleared out of _accepted meanwhile.
WriteHistory(a) ==
    /\ approving[a] # None /\ approving[a].stage = "write"
    /\ accepted' = IF approving[a].home = clears
                   THEN {p \in accepted : p.content # approving[a].proof.content}
                          \cup {approving[a].proof}
                   ELSE accepted
    /\ approving' = [approving EXCEPT ![a] = None]
    /\ UNCHANGED <<responses, pending, approved, blobs, job, issued, resets>>

-----------------------------------------------------------------------------
(***************************************************************************)
(* Reset.  One admin, one reset at a time.                                 *)
(***************************************************************************)
ClearResponses ==
    /\ resetting = "idle" /\ clears < MaxResets
    /\ responses' = {}
    /\ resetting' = "accepted"
    /\ UNCHANGED <<store, blobs, job, issued, clears>>

ClearAccepted ==
    /\ resetting = "accepted"
    /\ accepted' = {}
    /\ clears' = clears + 1
    /\ resetting' = "pending"
    /\ UNCHANGED <<responses, pending, approving, approved, blobs, job, issued>>

ClearPending ==
    /\ resetting = "pending"
    /\ pending' = {}
    /\ resetting' = "idle"
    /\ UNCHANGED <<responses, accepted, approving, approved, blobs, job, issued, clears>>

-----------------------------------------------------------------------------
ApproveStep(a) == CheckHistory(a) \/ WriteHistory(a)

Next ==
    \/ Replay \/ Submit \/ SubmitFails \/ Decide \/ RecordPending \/ Answer
    \/ \E a \in Approver : PopPending(a) \/ ApproveStep(a)
    \/ ClearResponses \/ ClearAccepted \/ ClearPending

Spec == Init /\ [][Next]_vars

\* A pool thread runs an approval it has begun to its end.
FairSpec == Spec /\ \A a \in Approver : WF_vars(ApproveStep(a))

-----------------------------------------------------------------------------
\* Checking a receipt holds nothing against the next order: a REUSED answer
\* has behind it a proof of the same picture that was approved for another
\* order (proof_store.py, reason 1).
ReuseRestsOnApproval ==
    \A r \in responses : r.verdict = "REUSED" =>
        \E p \in approved : p.content = r.content /\ p.order # r.order

\* Threads that did not find the picture and are about to enter it.
Entering(c) ==
    {a \in Approver : /\ approving[a] # None /\ approving[a].stage = "write"
                      /\ approving[a].home = clears
                      /\ approving[a].proof.content = c}

\* As far as the first writer wins without a lock: an approval that looks after
\* a picture was accepted never displaces the acceptance, which so stands until
\* a reset once those that looked before have ended (record_accepted).
SettledAcceptanceStands ==
    [][\A p \in accepted : Entering(p.content) = {} =>
         \/ p \in accepted' /\ Entering(p.content)' = {}
         \/ clears' # clears]_vars

\* proof_store.py 138: "First writer wins ... a second acceptance of the same
\* bytes must not overwrite the record of the first".  The code tests and then
\* assigns, without a lock, and two threads may both have tested.
FirstAcceptanceStands ==
    [][\A p \in accepted : p \in accepted' \/ clears' # clears]_vars

\* An answered key replays its answer until a reset, whatever is approved or
\* submitted meanwhile (find_existing).
AnswersStand ==
    [][\A r \in responses : r \in responses' \/ resetting' = "accepted"]_vars

\* An approval that has taken its proof from the pending ones makes the
\* picture accepted, unless a reset comes in between: no approval is lost
\* between the two dictionaries.
ApprovalLands ==
    \A c \in Content, n \in 0..MaxResets :
        (/\ \E a \in Approver : /\ approving[a] # None
                                /\ approving[a].stage = "home"
                                /\ approving[a].proof.content = c
         /\ clears = n)
            ~> (Taken(c) \/ clears > n)

\* No other order can verify with this picture, or a rule above R025 decides.
Undisturbed(o, c) ==
    \/ \A q \in Requests : q.content = c /\ q.order # o
                            => "VERIFIED" \notin Reads(q.order, c)
    \/ Reads(o, c) \subseteq {"UNMATCHED", "ALLOCATED"}

\* Reason 2 of proof_store.py: where the script leaves one order of those that
\* are shown a picture to verify, and a rule above R025 for the others, no
\* sequence of submits, approvals and resets makes any of them answer anything
\* else than it reads.
VerdictsKeepTheirOrder ==
    \A r \in responses :
        Undisturbed(r.order, r.content) => r.verdict \in Reads(r.order, r.content)
=============================================================================
