-------------------------- MODULE MCMerchantClient --------------------------
(***************************************************************************)
(* Small instances of MerchantClient for TLC.                              *)
(***************************************************************************)
EXTENDS MerchantClient

CONSTANTS o1, f1, t1, v1

Verified == [status |-> "VERIFIED", txn |-> t1, degraded |-> FALSE]
Doubtful == [status |-> "NEEDS_REVIEW", txn |-> t1, degraded |-> FALSE]
NotRead  == [status |-> "UNMATCHED", txn |-> None, degraded |-> TRUE]

\* A verdict of each kind of screen.
EachScreen == {Verified, Doubtful, NotRead}

\* A check of an earlier session that nobody acted on.
OneEarlier ==
    [i \in {v1} |-> [order |-> o1, file |-> f1, status |-> "VERIFIED", txn |-> t1,
                     degraded |-> FALSE, by |-> 0]]
=============================================================================
