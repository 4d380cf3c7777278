----------------------------- MODULE MCPipeline -----------------------------
(***************************************************************************)
(* An instance of Pipeline: a receipt of Rs 250 for transaction 1, and     *)
(* up to two others that share some of its fields.  Times are seconds from *)
(* the instant the service decides at, a Thursday at 14:05.                *)
(***************************************************************************)
EXTENDS Pipeline

Default ==
    [accept |-> 820000, reject |-> 450000, margin |-> 100000, ambiguous |-> 450000,
     penalty |-> 50,
     weight |-> [reference |-> 5, amount |-> 5, timestamp |-> 4, sender_name |-> 3],
     tolerance |-> 0, inflation |-> 5000, inflationPct |-> 1,
     overpayment |-> 20000, overpaymentPct |-> 100, tamperLimit |-> 1,
     maxCandidates |-> 25]
Narrow == [Default EXCEPT !.maxCandidates = 1]
MCPolicies == {Default, Narrow}
MCTotals == {25000}

\* The reach of the default curve's cut-points 0.98, 0.80 and 0.40.
MCReach == [precise |-> [tight |-> 273, close |-> 630, loose |-> 1154],
            wide |-> [tight |-> 28975, close |-> 46111, loose |-> 71269]]

MCNameKeys == [zulqarnain |-> {"MP:SLKR", "NY:ZAL"}, zulqarnian |-> {"MP:SLKR"},
               ali |-> {"MP:AL"}]
MCNameRung == [ab \in (DOMAIN MCNameKeys) \X (DOMAIN MCNameKeys) |->
    IF ab[1] # ab[2]
    THEN IF "ali" \in {ab[1], ab[2]} THEN "NAME_ELSE" ELSE "NAME_STRONG"
    ELSE IF ab[1] = "ali" THEN "NAME_COMMON_ONLY" ELSE "NAME_EXACT"]

Ref(head, tail, glyphs) == [head |-> head, tail |-> tail, glyphs |-> glyphs]
TrueRef == Ref("48", "210377", "plain")
Noon == -7500
Midnight == -50700

TrueRow == [amount |-> 25000, source |-> "trusted", at |-> Noon + 40,
            reference |-> TrueRef, sender_name |-> "zulqarnain", receiver_name |-> "ali"]
OwnId(id) == Ref("ledger", id, "plain")
NoIdRow == [TrueRow EXCEPT !.reference = OwnId("0000a7"), !.at = Noon + 10]
TwinRow == [TrueRow EXCEPT !.reference = Ref("51", "998800", "plain")]
LookalikeRow == [TrueRow EXCEPT !.reference = Ref("48", "210377", "misread"),
                                !.at = Noon + 10, !.sender_name = "zulqarnian"]
SameTailRow == [TrueRow EXCEPT !.reference = Ref("77", "210377", "plain"), !.at = Noon + 7240]
TenfoldRow == [TrueRow EXCEPT !.amount = 250000, !.sender_name = "ali"]
OldRow == [TrueRow EXCEPT !.at = -300000, !.reference = OwnId("0000c2")]
StrangerRow == [amount |-> 99000, source |-> "partial", at |-> -100000,
                reference |-> Ref("90", "111111", "plain"), sender_name |-> "ali",
                receiver_name |-> None]

OtherRows == {NoIdRow, TwinRow, LookalikeRow, TenfoldRow, OldRow, StrangerRow}

MCBooks ==
    {[t \in Txn |-> CASE t = 1 -> true [] t = 2 -> other [] t = 3 -> third] :
       true \in {TrueRow, None}, other \in OtherRows \cup {None}, third \in {SameTailRow, None}}

Shows(v) == [value |-> v, parses |-> TRUE]
FullPrint == [reference |-> Shows(TrueRef), amount |-> Shows(25000),
              timestamp |-> Shows([at |-> Noon, shows |-> "clock"]),
              sender_name |-> Shows("zulqarnain")]
Pic(prints, of) ==
    [opens |-> TRUE, fixture |-> TRUE, shows |-> prints, of |-> of, receiver_name |-> None]
Whole == [Pic(FullPrint, 1) EXCEPT !.receiver_name = "ali"]
HeadlessDated == Pic([FullPrint EXCEPT !.reference = Shows(Ref("none", "210377", "plain")),
                      !.timestamp = Shows([at |-> Midnight, shows |-> "date"])], 1)
Inflated10 == Pic([FullPrint EXCEPT !.amount = Shows(250000),
                                    !.timestamp = Shows([at |-> Noon, shows |-> "minutes"])], None)
Undated == [Pic([FullPrint EXCEPT !.timestamp.parses = FALSE], 1) EXCEPT !.fixture = FALSE]
Garbage == [Whole EXCEPT !.opens = FALSE]
MCPictures == {Whole, HeadlessDated, Inflated10, Undated, Garbage}

AnyEntry == [amount : SeenAmounts, source : {"trusted", "partial", "screenshot"}, level : Rungs]
AnyReceipt == {}
AnyFeed == UNION {[1..n -> Txn] : n \in 0..Cardinality(Txn)}

\* The receipts and the policies are those the theorem about genuine receipts
\* speaks of.
ASSUME InstanceIsGenuine == GenuineReceipts /\ ShippedWeights
=============================================================================
