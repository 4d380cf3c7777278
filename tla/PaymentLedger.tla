--------------------------- MODULE PaymentLedger ---------------------------
(***************************************************************************)
(* What the verification service promises about money, with everything     *)
(* else left out: a merchant transaction pays at most one order, an order  *)
(* is paid by at most one transaction, and a spend is never undone.        *)
(*                                                                         *)
(* This is the contract of transaction_allocations: two partial unique     *)
(* indexes over its ACTIVE rows, in a code base that holds no statement    *)
(* releasing or deleting one.                                              *)
(***************************************************************************)
CONSTANTS Txn, Order

VARIABLE spends     \* the pairs <<txn, order>> the merchant has committed to

TypeOK == spends \subseteq Txn \X Order

Init == spends = {}

Unspent(t) == \A s \in spends : s[1] # t
Unpaid(o)  == \A s \in spends : s[2] # o

Spend(t, o) ==
    /\ Unspent(t)
    /\ Unpaid(o)
    /\ spends' = spends \cup {<<t, o>>}

Next == \E t \in Txn, o \in Order : Spend(t, o)

Spec == Init /\ [][Next]_spends

-----------------------------------------------------------------------------
\* No transaction pays two orders and no order is paid twice: what the two
\* unique indexes on transaction_allocations stand for.
OneToOne ==
    \A s1, s2 \in spends : (s1[1] = s2[1] \/ s1[2] = s2[2]) => s1 = s2
=============================================================================
