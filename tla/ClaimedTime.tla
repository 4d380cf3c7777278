----------------------------- MODULE ClaimedTime -----------------------------
(***************************************************************************)
(* core/timex.py and core/compare/timestamp.py: what a receipt's time is   *)
(* worth next to a transaction's.  Instants are seconds.  A similarity     *)
(* cut-point is given as its reach: the widest gap at which the decay      *)
(* curve of core/compare/decay.py is still above it.                       *)
(***************************************************************************)
EXTENDS Integers

CONSTANTS
    Reach,          \* [precise |-> .., wide |-> ..], each [tight, close, loose]
    HourTolerance   \* how far off a whole hour still counts as one

Minute == 60
Hour == 3600
Day == 86400
MaxHourArtifact == 14

\* TimestampParams.__post_init__, and a curve that only falls.
ASSUME TimeAssumption ==
    /\ Reach \in [{"precise", "wide"} -> [{"tight", "close", "loose"} -> Nat]]
    /\ \A c \in {"precise", "wide"} :
         Reach[c].tight <= Reach[c].close /\ Reach[c].close <= Reach[c].loose
    /\ HourTolerance \in Nat

\* A time read off a receipt: the start of the interval it pins down, how long
\* that interval is, and whether the date is only inferred.
ClaimedInstant == [at : Int, granularity : Nat \ {0}, inferred : BOOLEAN]

IsPrecise(c) == ~c.inferred /\ c.granularity <= Minute

Apart(a, b) == IF a >= b THEN a - b ELSE b - a

\* window_gap_s: zero inside [start, end), else the way to the nearer edge.
WindowGap(c, at) ==
    IF c.at <= at /\ at < c.at + c.granularity THEN 0
    ELSE LET start == Apart(at, c.at)  end == Apart(at, c.at + c.granularity)
         IN IF start <= end THEN start ELSE end

\* for_claim and gauss: is the similarity at this gap still above the cut?
Within(c, at, cut) ==
    WindowGap(c, at) <= Reach[IF IsPrecise(c) THEN "precise" ELSE "wide"][cut]

\* hour_offset_artifact, inside the range of real UTC offsets.
WholeHours(c, at) == (Apart(c.at, at) + Hour \div 2) \div Hour

HourArtifact(c, at) ==
    /\ IsPrecise(c)
    /\ WholeHours(c, at) \in 1..MaxHourArtifact
    /\ Apart(Apart(c.at, at), WholeHours(c, at) * Hour) <= HourTolerance

\* The timestamp ladder: the first rung whose predicate holds.
TimestampLevel(c, at) ==
    CASE IsPrecise(c) /\ Within(c, at, "tight") -> "TS_TIGHT"
      [] IsPrecise(c) /\ ~Within(c, at, "tight") /\ Within(c, at, "close") -> "TS_CLOSE"
      [] ~IsPrecise(c) /\ Within(c, at, "close") -> "TS_DATE_ONLY"
      [] ~Within(c, at, "close") /\ Within(c, at, "loose") -> "TS_LOOSE"
      [] ~Within(c, at, "loose") /\ HourArtifact(c, at) -> "TS_HOUR_ART"
      [] OTHER -> "TS_ELSE"
=============================================================================
