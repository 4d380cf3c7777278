----------------------- MODULE MCVerificationService -----------------------
(***************************************************************************)
(* Small instances of VerificationService for TLC.                         *)
(***************************************************************************)
EXTENDS VerificationService, FiniteSets, TLC

\* Pool threads a1, a2, ... all belong to the same process when there is one,
\* and to any one of them otherwise.
MCHost == [a \in Approver |-> CHOOSE p \in Process : TRUE]

\* Uploads with distinct bytes; each is stored as a picture of its own name.
MCStoredAs == [c \in Content |-> c]

Clean(t) == [best |-> t, distinct |-> TRUE, verdict |-> "VERIFIED"]

\* Two candidates nobody can tell apart, the better of them t.
Close(t) == [best |-> t, distinct |-> FALSE, verdict |-> "NEEDS_REVIEW"]

\* Any upload may turn out to match any transaction cleanly, ...
CleanReadings == {Clean(t) : t \in Txn}

\* ... to sit between two candidates, ...
MoneyReadings == CleanReadings \cup {Close(t) : t \in Txn}

\* ... to match one with a doubt, or to match none.
MCReadings ==
    MoneyReadings
      \cup {[best |-> t, distinct |-> TRUE, verdict |-> "NEEDS_REVIEW"] : t \in Txn}
      \cup {[best |-> None, distinct |-> FALSE, verdict |-> "UNMATCHED"]}

Interchangeable == Permutations(Order) \cup Permutations(Txn) \cup Permutations(Key)
                     \cup Permutations(Content)

=============================================================================
