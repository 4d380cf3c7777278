--------------------------- MODULE MerchantClient ---------------------------
(***************************************************************************)
(* The merchant's browser: the screens and the state of App.tsx, the       *)
(* screenshot held by UploadScreen.tsx, the buttons of the verdict screens *)
(* and the calls of api/client.ts.                                         *)
(*                                                                         *)
(* A handler runs to its end before anything else happens; everything it   *)
(* sends is answered later, in any order, or fails.  The backend is        *)
(* external: it stores a verdict for every submission that reaches it,     *)
(* also when the answer is lost on the way back.  Approvals and resets are *)
(* sent without waiting and their failure is swallowed, so nothing here    *)
(* depends on their fate; what the backend makes of them is the subject of *)
(* VerificationService and ProofStore.                                     *)
(***************************************************************************)
EXTENDS Naturals

CONSTANTS
    Order,          \* the orders the merchant may choose between
    File,           \* screenshots
    Id,             \* verification ids the backend gives out
    Txn,            \* transactions a verdict may name
    Outcomes,       \* what the backend may decide about a submission
    Earlier,        \* the verifications of earlier sessions
    MaxRuns,        \* bound on runRef
    MaxListings,    \* bound on history requests in flight
    None            \* the absent value

Status == {"VERIFIED", "SUSPICIOUS", "DUPLICATE", "NEEDS_REVIEW", "UNMATCHED"}
Outcome == [status : Status, txn : Txn \cup {None}, degraded : BOOLEAN]

VARIABLES
    screen,         \* which screen is shown
    result,         \* the verification on the verdict screen
    error,          \* whether a failure is being told
    history,        \* the checks the client knows of, None before it was told
    orders,         \* the orders the picker offers, None when it was not told
    selected,       \* selectedOrderId
    claim,          \* the screenshot the upload screen holds
    used,           \* usedTxnIds
    run,            \* runRef
    cameFrom,       \* cameFromHistoryRef: where a verdict is left for
    lastLoad,       \* lastLoadRef
    checks,         \* checks in flight
    listings,       \* GET /verifications in flight
    orderLoads,     \* GET /orders in flight
    stored,         \* backend: its verifications
    asked,          \* history: the last question that was not abandoned
    released        \* history: how often each payment was approved as
                    \*          VERIFIED since start over

vars == <<screen, result, error, history, orders, selected, claim, used, run,
          cameFrom, lastLoad, checks, listings, orderLoads, stored, asked,
          released>>
net == <<checks, listings, orderLoads>>
lists == <<history, orders>>
question == <<cameFrom, lastLoad, asked>>
spent == <<used, released>>

-----------------------------------------------------------------------------
\* What a check asks: a screenshot for an order, or a stored verification.
Submission == [kind : {"submit"}, order : Order, file : File]
Replay == [kind : {"replay"}, id : Id]
Load == Submission \cup Replay

Verification == [order : Order, file : File, status : Status,
                 txn : Txn \cup {None}, degraded : BOOLEAN, by : Nat]

\* `reply` is None while the call is out, "failed", or the id of the answer.
Check == [run : Nat, load : Load, reply : Id \cup {None, "failed"}]
Listing == [slot : 1..MaxListings, seen : (SUBSET Id) \cup {None}]
Place == {"upload", "history"}
Asked == [load : Load, from : Place, run : Nat]

ASSUME ClientAssumption ==
    /\ Outcomes \subseteq Outcome
    /\ DOMAIN Earlier \subseteq Id
    /\ \A i \in DOMAIN Earlier : Earlier[i] \in Verification
    /\ MaxRuns \in Nat /\ MaxListings \in Nat \ {0}
    /\ None \notin Id \cup Txn \cup Order \cup File
    /\ None \notin Asked

TypeOK ==
    /\ screen \in Place \cup {"checking", "result"}
    /\ result \in Id \cup {None}
    /\ error \in BOOLEAN
    /\ history \in (SUBSET Id) \cup {None}
    /\ orders \in {Order, None}
    /\ selected \in Order \cup {None}
    /\ claim \in File \cup {None}
    /\ used \subseteq Txn
    /\ run \in Nat
    /\ cameFrom \in Place
    /\ lastLoad \in Load \cup {None}
    /\ checks \subseteq Check
    /\ listings \subseteq Listing
    /\ orderLoads \in Nat
    /\ DOMAIN stored \subseteq Id
    /\ \A i \in DOMAIN stored : stored[i] \in Verification
    /\ asked \in Asked \cup {None}
    /\ released \in [Txn -> Nat]

\* The first commit: the upload screen, and the two lists asked for on mount.
Init ==
    /\ screen = "upload"
    /\ result = None /\ error = FALSE
    /\ history = None /\ orders = None
    /\ selected = None /\ claim = None
    /\ used = {} /\ run = 0
    /\ cameFrom = "upload" /\ lastLoad = None
    /\ checks = {}
    /\ listings = {[slot |-> 1, seen |-> None]} /\ orderLoads = 1
    /\ stored = Earlier
    /\ asked = None /\ released = [t \in Txn |-> 0]

-----------------------------------------------------------------------------
(* Handlers.                                                               *)

\* Leaving the upload screen unmounts it, and its screenshot with it.
Show(s) ==
    /\ screen' = s
    /\ claim' = IF s = "upload" THEN claim ELSE None

FreeSlots == {n \in 1..MaxListings : \A l \in listings : l.slot # n}

\* What every change of place does to a check in the air: its answer is no
\* longer the current one.
Abandon ==
    /\ run < MaxRuns
    /\ run' = run + 1
    /\ asked' = None

\* loadHistory: one more GET /verifications, whatever is already in flight.
LoadHistory ==
    \E n \in FreeSlots : listings' = listings \cup {[slot |-> n, seen |-> None]}

\* loadOrders, with a call in flight at most once per history call.
LoadOrders ==
    /\ orderLoads < MaxListings
    /\ orderLoads' = orderLoads + 1

\* The merchant names the order in the picker, ...
Choose(o) ==
    /\ screen = "upload"
    /\ orders # None /\ o \in orders
    /\ selected' = o
    /\ UNCHANGED <<screen, result, error, claim, run, lists, question, spent, net, stored>>

\* ... takes a screenshot by file, drop or paste, ...
Take(f) ==
    /\ screen = "upload"
    /\ claim' = f
    /\ claim # f
    /\ UNCHANGED <<screen, result, error, run, lists, selected, question, spent, net, stored>>

\* ... and may let go of it.
Clear ==
    /\ screen = "upload"
    /\ claim # None
    /\ claim' = None
    /\ UNCHANGED <<screen, result, error, run, lists, selected, question, spent, net, stored>>

\* runCheck, for a question that was put from `place`.
RunCheck(load, place) ==
    /\ run < MaxRuns
    /\ run' = run + 1
    /\ lastLoad' = load
    /\ error' = FALSE
    /\ result' = None
    /\ Show("checking")
    /\ checks' = checks \cup {[run |-> run + 1, load |-> load, reply |-> None]}
    /\ asked' = [load |-> load, from |-> place, run |-> run + 1]
    /\ UNCHANGED <<lists, selected, spent, listings, orderLoads, stored>>

SubmitKeepsPlace ==
    /\ screen = "upload"
    /\ claim # None /\ selected # None
    /\ UNCHANGED cameFrom
    /\ RunCheck([kind |-> "submit", order |-> selected, file |-> claim], "upload")

\* "Check this payment": both halves are in hand.
Submit ==
    /\ screen = "upload"
    /\ claim # None /\ selected # None
    /\ cameFrom' = "upload"
    /\ RunCheck([kind |-> "submit", order |-> selected, file |-> claim], "upload")

\* The demo rail offers the checks that did not verify, or any when all did.
RailStatus == {"SUSPICIOUS", "DUPLICATE", "UNMATCHED"}
Rail ==
    LET doubtful == {i \in history : stored[i].status \in RailStatus}
    IN  IF doubtful # {} THEN doubtful ELSE history

PlayDemo ==
    /\ screen = "upload"
    /\ history # None
    /\ cameFrom' = "upload"
    /\ \E i \in Rail : RunCheck([kind |-> "replay", id |-> i], "upload")

\* A row of the list.  Each row is in the list of exactly one nav cell.
OpenFromHistory ==
    /\ screen = "history"
    /\ history # None
    /\ cameFrom' = "history"
    /\ \E i \in history : RunCheck([kind |-> "replay", id |-> i], "history")

\* The unreadable screen stands for the answer to a submission whose reader was
\* down; the stored verification, shown again, has lost the degraded note.
Unreadable == result # None /\ lastLoad.kind = "submit" /\ stored[result].degraded

\* Only the unreadable screen offers "Try again", and it repeats lastLoad.
Retry ==
    /\ screen = "result" /\ Unreadable
    /\ lastLoad # None
    /\ RunCheck(lastLoad, asked.from)
    /\ UNCHANGED cameFrom

\* onDismiss, the body shared by every button that leaves a verdict.
Leave ==
    /\ Abandon
    /\ result' = None
    /\ selected' = None
    /\ Show(cameFrom)

Dismiss ==
    /\ screen = "result"
    /\ Leave
    /\ UNCHANGED <<error, lists, cameFrom, lastLoad, spent, net, stored>>

ApprovableAgain(v) ==
    /\ v.status # "UNMATCHED"
    /\ v.status = "VERIFIED" => v.txn # None

\* Which verdicts offer an approve button that is not disabled.
Approvable(v) ==
    /\ v.status # "UNMATCHED"
    /\ v.status = "VERIFIED" => v.txn # None /\ v.txn \notin used

\* onUse and then onDismiss.  The approval is also sent to the backend.
Approve ==
    LET v == stored[result]
    IN  /\ screen = "result" /\ ~Unreadable /\ Approvable(v)
        /\ used' = used \cup ({v.txn} \ {None})
        /\ released' = IF v.status = "VERIFIED" THEN [released EXCEPT ![v.txn] = @ + 1]
                        ELSE released
        /\ Leave
        /\ UNCHANGED <<error, lists, cameFrom, lastLoad, checks, listings, orderLoads, stored>>

\* The reset control, the Escape key and the action cell of the nav strip.
StartOver ==
    /\ Abandon
    /\ cameFrom' = "upload"
    /\ result' = None
    /\ error' = FALSE
    /\ used' = {} /\ released' = [t \in Txn |-> 0]
    /\ selected' = None
    /\ Show("upload")
    /\ LoadOrders
    /\ LoadHistory
    /\ UNCHANGED <<lists, lastLoad, checks, stored>>

\* A count in the nav strip opens its list, from any screen.
OpenList ==
    /\ Abandon
    /\ Show("history")
    /\ LoadHistory
    /\ UNCHANGED <<result, error, lists, selected, spent, cameFrom, lastLoad,
                   checks, orderLoads, stored>>

-----------------------------------------------------------------------------
(* Answers.                                                                *)

AwaitedOrNot(c) == TRUE

\* A settled check is dropped unless its run is still the current one.
Awaited(c) == c.run = run

ShowFailureInPlace ==
    /\ error' = TRUE
    /\ UNCHANGED <<screen, claim, result>>

ShowFailure ==
    /\ error' = TRUE
    /\ Show("upload")
    /\ UNCHANGED result

ShowVerdict(i) ==
    /\ result' = i
    /\ Show("result")
    /\ UNCHANGED error

CheckArrives(c) ==
    /\ c \in checks /\ c.reply # None
    /\ checks' = checks \ {c}
    /\ \/ ~Awaited(c) /\ UNCHANGED <<screen, result, error, claim>>
       \/ Awaited(c) /\ c.reply = "failed" /\ ShowFailure
       \/ Awaited(c) /\ c.reply # "failed" /\ ShowVerdict(c.reply)
    /\ UNCHANGED <<run, lists, selected, spent, question, listings, orderLoads, stored>>

HistoryArrives(l) ==
    /\ l \in listings /\ l.seen # None
    /\ listings' = listings \ {l}
    /\ history' = l.seen
    /\ UNCHANGED <<screen, result, error, orders, claim, run, selected, question, spent,
                   checks, orderLoads, stored>>

HistoryFails(l) ==
    /\ l \in listings
    /\ listings' = listings \ {l}
    /\ error' = TRUE
    /\ UNCHANGED <<screen, result, lists, claim, run, selected, question, spent,
                   checks, orderLoads, stored>>

OrdersEmpty == {}

\* After a failure the picker must not claim an empty order book.
OrdersUnknown == None

\* GET /orders, answered with the backend's fixed list or failed.
OrdersArrive ==
    /\ orderLoads > 0
    /\ orderLoads' = orderLoads - 1
    /\ \/ orders' = Order /\ UNCHANGED error
       \/ orders' = OrdersUnknown /\ error' = TRUE
    /\ UNCHANGED <<screen, result, history, claim, run, selected, question, spent,
                   checks, listings, stored>>

-----------------------------------------------------------------------------
(* The backend and the network.                                            *)

Replied(c, r) == (checks \ {c}) \cup {[c EXCEPT !.reply = r]}
Freed == UNCHANGED <<screen, result, error, claim, run, lists, selected, question, spent>>

FreshId == CHOOSE i \in Id : i \notin DOMAIN stored

\* Every submission carries a fresh idempotency key, so it becomes a new
\* verification; its answer may be lost.
Decide(c) ==
    /\ c \in checks /\ c.reply = None /\ c.load.kind = "submit"
    /\ Id \ DOMAIN stored # {}
    /\ \E o \in Outcomes :
         stored' = [j \in DOMAIN stored \cup {FreshId} |->
                      IF j # FreshId THEN stored[j]
                      ELSE [order |-> c.load.order, file |-> c.load.file,
                            status |-> o.status, txn |-> o.txn,
                            degraded |-> o.degraded, by |-> c.run]]
    /\ checks' \in {Replied(c, FreshId), Replied(c, "failed")}
    /\ Freed /\ UNCHANGED <<listings, orderLoads>>

Fetch(c) ==
    /\ c \in checks /\ c.reply = None /\ c.load.kind = "replay"
    /\ checks' = Replied(c, c.load.id)
    /\ Freed /\ UNCHANGED <<listings, orderLoads, stored>>

\* The call never reaches the backend, or is refused there.
Fail(c) ==
    /\ c \in checks /\ c.reply = None
    /\ checks' = Replied(c, "failed")
    /\ Freed /\ UNCHANGED <<listings, orderLoads, stored>>

List(l) ==
    /\ l \in listings /\ l.seen = None
    /\ listings' = (listings \ {l}) \cup {[l EXCEPT !.seen = DOMAIN stored]}
    /\ Freed /\ UNCHANGED <<checks, orderLoads, stored>>

Merchant ==
    \/ \E o \in Order : Choose(o)
    \/ \E f \in File : Take(f)
    \/ Clear
    \/ Submit
    \/ PlayDemo
    \/ OpenFromHistory
    \/ Retry
    \/ Dismiss
    \/ Approve
    \/ StartOver
    \/ OpenList

Settle ==
    \/ \E c \in checks : CheckArrives(c)
    \/ \E l \in listings : HistoryArrives(l) \/ HistoryFails(l)
    \/ OrdersArrive

World ==
    \/ \E c \in checks : Decide(c) \/ Fetch(c) \/ Fail(c)
    \/ \E l \in listings : List(l)

Next == Merchant \/ Settle \/ World

Spec == Init /\ [][Next]_vars

\* A browser settles every fetch, with an answer or an error, and runs the
\* continuation of the one that is awaited.
Fairness ==
    /\ WF_vars(\E c \in checks : c.run = run /\ (Decide(c) \/ Fetch(c) \/ Fail(c)))
    /\ WF_vars(\E c \in checks : c.run = run /\ CheckArrives(c))

FairSpec == Spec /\ Fairness

-----------------------------------------------------------------------------
(* Properties.                                                             *)

Answers(i, a) ==
    IF a.load.kind = "replay"
      THEN i = a.load.id
      ELSE /\ i \in DOMAIN stored
           /\ stored[i].by = a.run
           /\ stored[i].order = a.load.order /\ stored[i].file = a.load.file

\* The verdict on the wall answers the last question the merchant asked and
\* did not abandon: that stored check, or that very submission of that
\* screenshot for that order.  "Try again" would put the same question again.
VerdictAnswersLastAsk ==
    screen = "result" =>
        /\ asked # None /\ result # None
        /\ Answers(result, asked)
        /\ lastLoad = asked.load

\* The checking screen shows exactly while the answer that will end it is
\* outstanding: it is never left without one, and no answer that could still
\* take over the screen is in the air anywhere else.
CheckingIsAwaited ==
    /\ screen = "checking" <=> \E c \in checks : c.run = run
    /\ \A c, d \in checks : c.run = d.run => c = d

\* Between two resets no payment is used for a VERIFIED verdict twice in this
\* browser, whether or not the backend ever heard of the first time.
OnePaymentOneRelease == \A t \in Txn : released[t] <= 1

\* A verdict is left for the place its question was put from, through any
\* number of retries: the list for a row, the upload screen for the rest.
LeavesForWhereItWasAsked == [][Dismiss \/ Approve => screen' = asked.from]_vars

\* Every check leaves the checking screen.
CheckingEnds == screen = "checking" ~> screen # "checking"
=============================================================================
