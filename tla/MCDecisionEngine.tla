-------------------------- MODULE MCDecisionEngine --------------------------
(***************************************************************************)
(* Small instances of DecisionEngine: orders of Rs 250, transactions named *)
(* for what the receipt makes of them, the default policy and two others.  *)
(* Weights are the policy's times five.                                    *)
(***************************************************************************)
EXTENDS Explanation

Default ==
    [accept |-> 820000, reject |-> 450000, margin |-> 100000, ambiguous |-> 450000,
     penalty |-> 50,
     weight |-> [reference |-> 5, amount |-> 5, timestamp |-> 4, sender_name |-> 3],
     tolerance |-> 0, inflation |-> 5000, inflationPct |-> 1,
     overpayment |-> 20000, overpaymentPct |-> 100, tamperLimit |-> 1,
     maxCandidates |-> 25]

\* A merchant who accepts more: a tolerance, a low bar, one candidate at most,
\* and silence counts for three quarters of a field.
Lenient == [Default EXCEPT !.accept = 600000, !.tolerance = 500, !.maxCandidates = 1,
                           !.penalty = 75]

\* An ambiguity floor nothing reaches; the constructor refuses it.
BlindToTies == [Default EXCEPT !.ambiguous = 1000000]

Row(amount, source, ref, ts, name) ==
    [amount |-> amount, source |-> source,
     level |-> [reference |-> ref, timestamp |-> ts, sender_name |-> name]]

Perfect   == Row(25000, "trusted", "REF_EXACT", "TS_TIGHT", "NAME_EXACT")
Truncated1 == Row(25000, "trusted", "REF_SUFFIX", "TS_TIGHT", "NAME_EXACT")
Rival     == Row(25000, "trusted", "REF_PARTIAL", "TS_CLOSE", "NAME_EXACT")
Tenth     == Row(2500, "trusted", "REF_EXACT", "TS_TIGHT", "NAME_EXACT")
Short     == Row(24600, "trusted", "REF_EXACT", "TS_TIGHT", "NAME_EXACT")
Triple    == Row(75000, "trusted", "REF_EXACT", "TS_TIGHT", "NAME_EXACT")
Over      == Row(30000, "trusted", "REF_EXACT", "TS_TIGHT", "NAME_EXACT")
Imported  == [Perfect EXCEPT !.source = "partial"]
Pasted    == [Perfect EXCEPT !.source = "screenshot"]
Stranger  == Row(90000, "trusted", "REF_ELSE", "TS_LOOSE", "NAME_ELSE")

Whole(amount) == [amount |-> amount, read |-> Printed, doubted |-> {}, tamper |-> 0]

Sure      == Whole(25000)
NoAmount  == Whole(None)
NoId      == [Whole(25000) EXCEPT !.read = @ \ {"reference"}]
Doubted   == [Whole(25000) EXCEPT !.doubted = {"amount"}]
Tampered  == [Whole(25000) EXCEPT !.read = {"timestamp"}, !.tamper = 2]

MCRows == {Perfect, Truncated1, Rival, Tenth, Short, Triple, Over, Imported, Pasted, Stranger}
MCReceipts == {Sure, NoAmount, NoId, Doubted, Tampered}
MCPolicies == {Default, Lenient, BlindToTies}
MCTotals == {25000, None}
MCFeeds == {<<>>, <<1, 2>>}

\* For the run about one case.
OnlyDefault == {Default}
OnlySure == {Sure}
OnlyPaid == {25000}
TwoRows == {<<1, 2>>}
SuffixRows == {Truncated1, Rival}
=============================================================================
