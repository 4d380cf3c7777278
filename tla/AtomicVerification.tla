------------------------- MODULE AtomicVerification -------------------------
(***************************************************************************)
(* What the verification service promises the merchant of its two calls,   *)
(* with the look-ups, the flushes, the locks, the blob store, the failures *)
(* and the crashes left out: POST /verifications judges an upload and      *)
(* records the answer under its key in ONE step, or does nothing at all,   *)
(* and POST /verifications/{id}/approve spends a payment in one step.      *)
(*                                                                         *)
(* What is left of the distance between reading and writing is stated in   *)
(* Submit: the verdict on a picture never seen before rests on the         *)
(* allocations of the moment it is recorded; the verdict on a picture the  *)
(* service has a row for may rest on older ones, each look-up on its own.  *)
(***************************************************************************)
EXTENDS Naturals

CONSTANTS Order, Content, StoredAs, Key, AttemptId, Readings, None

VARIABLES
    proofs,         \* pictures on record
    attempts,       \* the answers given
    allocations,    \* the payments spent
    bindings        \* the answer each key replays

rows == <<proofs, attempts, allocations, bindings>>

Init == proofs = {} /\ attempts = {} /\ allocations = {} /\ bindings = {}

-----------------------------------------------------------------------------
\* Among the allocations `seen`, t pays an order other than o.
PaysElsewhere(t, o, seen) == \E l \in seen : l.txn = t /\ l.order # o

\* r was accepted on picture i: a VERIFIED answer that has been approved.
AcceptedOn(r, i, seen) ==
    /\ r.image = i
    /\ r.status = "VERIFIED"
    /\ \E l \in seen : l.attempt = r.id

\* The first answer accepted on picture i was for an order other than o.
AcceptedElsewhere(i, o, seen) ==
    \E r \in attempts :
        /\ AcceptedOn(r, i, seen)
        /\ \A s \in attempts : AcceptedOn(s, i, seen) => r.id <= s.id
        /\ r.order # o

\* A payment or a picture used up elsewhere makes a match a duplicate.
Judged(r, used) ==
    IF r.best = None THEN "UNMATCHED"
    ELSE IF used THEN "DUPLICATE" ELSE r.verdict

\* What answer i says when the upload c for order o is read as r.
Answered(o, c, i, r) ==
    \E later \in SUBSET allocations : \E earlier \in SUBSET later :
        /\ StoredAs[c] \notin proofs => earlier = allocations
        /\ LET used == \/ PaysElsewhere(r.best, o, earlier)
                       \/ AcceptedElsewhere(StoredAs[c], o, later)
               status == Judged(r, used)
           IN \E t \in {r.best, None} :
                /\ status = "VERIFIED" => t = r.best
                /\ attempts' = attempts \cup
                     {[id |-> i, order |-> o, image |-> StoredAs[c],
                       status |-> status, txn |-> t]}

\* An upload of c for order o under the unbound key k gets the new answer i.
Submit(k, o, c, i) ==
    /\ \A b \in bindings : b.key # k
    /\ \A a \in attempts : a.id # i
    /\ bindings' = bindings \cup
         {[key |-> k, order |-> o, content |-> c, attempt |-> i]}
    /\ proofs' = proofs \cup {StoredAs[c]}
    /\ UNCHANGED allocations
    /\ \E r \in Readings : Answered(o, c, i, r)

\* The merchant approves answer r: its payment is spent on its order.
Approve(r) ==
    /\ r.status = "VERIFIED" /\ r.txn # None
    /\ \A l \in allocations : l.txn # r.txn /\ l.order # r.order
    /\ allocations' = allocations \cup
         {[txn |-> r.txn, order |-> r.order, attempt |-> r.id]}
    /\ UNCHANGED <<proofs, attempts, bindings>>

Next ==
    \/ \E k \in Key, o \in Order, c \in Content, i \in AttemptId : Submit(k, o, c, i)
    \/ \E r \in attempts : Approve(r)

Spec == Init /\ [][Next]_rows
=============================================================================
