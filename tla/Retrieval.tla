------------------------------ MODULE Retrieval ------------------------------
(***************************************************************************)
(* retrieve() of core/retrieval.py: the blocking keys that decide which of *)
(* the merchant's transactions are scored at all, and in which order the   *)
(* cap cuts them.  A transaction stands in the group of the first key that *)
(* finds it; within a group the nearer in time comes first, then the       *)
(* lesser id.                                                              *)
(*                                                                         *)
(* A reference is a head, a tail and the glyphs the tail is printed in     *)
(* (O for 0, I for 1); a provider that truncates drops the head.           *)
(***************************************************************************)
EXTENDS ClaimedTime

CONSTANTS
    Txn,            \* transaction ids, numbers because ids break ties
    Anchor,         \* the instant the service decides at
    TimeWindow,     \* policy.time_window_s
    LongTails,      \* tails of six characters and more
    NameKeys,       \* the phonetic keys of each name's rarest tokens
    None            \* the absent value

\* A reference whose head is cut off.
NoHead == "none"

SameTail(a, b) == a.tail = b.tail /\ a.glyphs = b.glyphs
SameBarGlyphs(a, b) == a.head = b.head /\ a.tail = b.tail

-----------------------------------------------------------------------------
(***************************************************************************)
(* Amounts a reader plausibly makes of another.                            *)
(***************************************************************************)
\* Amounts have at most this many digits.
AmountDigits == 9

\* _CONFUSABLE_DIGITS.
MisreadAs ==
    [d \in 0..9 |->
       CASE d = 0 -> {8} [] d = 1 -> {7} [] d = 3 -> {8} [] d = 4 -> {9}
         [] d = 5 -> {6} [] d = 6 -> {5, 8} [] d = 7 -> {1} [] d = 8 -> {0, 6, 3}
         [] d = 9 -> {4} [] OTHER -> {}]

Digit(minor, i) == (minor \div 10^i) % 10
Places(minor) == {i \in 0..(AmountDigits - 1) : i = 0 \/ 10^i <= minor}

\* amount_probe_keys: a zero gained or lost, or one digit misread.
AmountProbes(minor) ==
    ({10 * minor}
       \cup (IF minor % 10 = 0 THEN {minor \div 10} ELSE {})
       \cup UNION {{minor + (d - Digit(minor, i)) * 10^i : d \in MisreadAs[Digit(minor, i)]} :
                     i \in Places(minor)}) \ {minor}

-----------------------------------------------------------------------------
(***************************************************************************)
(* The groups, narrowest first.                                            *)
(***************************************************************************)
Group == 1..7

\* The time window is centred on the claim's instant, or on the deciding
\* instant when it has none.
Centre(claim) == IF claim.timestamp = None THEN Anchor ELSE claim.timestamp.at

\* Senders and receivers share one space of keys.
NameKeysOf(record) ==
    UNION {NameKeys[n] : n \in {record.sender_name, record.receiver_name} \ {None}}

\* Does the key of this group find a row of the merchant's own feed?
FoundBy(group, claim, row) ==
    CASE group = 1 -> claim.reference # None /\ claim.reference = row.reference
      [] group = 2 -> claim.reference # None /\ SameBarGlyphs(claim.reference, row.reference)
      [] group = 3 -> /\ claim.reference # None
                      /\ SameTail(claim.reference, row.reference)
                      /\ row.reference.tail \in LongTails
      [] group = 4 -> Apart(row.at, Centre(claim)) <= TimeWindow
      [] group = 5 -> claim.amount # None /\ row.amount = claim.amount
      [] group = 6 -> claim.amount # None /\ row.amount \in AmountProbes(claim.amount)
      [] group = 7 -> NameKeysOf(claim) \cap NameKeysOf(row) # {}

\* The transactions some key finds in a feed, a function from ids to rows.
Retrievable(claim, book) ==
    {t \in Txn : book[t] # None /\ \E g \in Group : FoundBy(g, claim, book[t])}

GroupOf(claim, row) ==
    CHOOSE g \in Group : FoundBy(g, claim, row) /\ \A h \in Group : h < g => ~FoundBy(h, claim, row)

\* Mutant: the nearest in time first, whichever key found it.
NearestFirst(claim, book, t, u) ==
    LET near(x) == Apart(book[x].at, Centre(claim))
    IN near(t) < near(u) \/ (near(t) = near(u) /\ t < u)

\* order_key within a group, and the groups in their order.
Before(claim, book, t, u) ==
    LET group(x) == GroupOf(claim, book[x])
        near(x) == Apart(book[x].at, Centre(claim))
    IN \/ group(t) < group(u)
       \/ group(t) = group(u) /\ near(t) < near(u)
       \/ group(t) = group(u) /\ near(t) = near(u) /\ t < u

\* Is this the sequence of the transactions found, each once, in the order in
\* which the cap keeps them?  Before is a strict linear order, so one is.
Retrieved(claim, book, s) ==
    /\ {s[i] : i \in DOMAIN s} = Retrievable(claim, book)
    /\ \A i, j \in DOMAIN s : i < j => Before(claim, book, s[i], s[j])
=============================================================================
