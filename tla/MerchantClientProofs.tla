------------------------ MODULE MerchantClientProofs ------------------------
(***************************************************************************)
(* Proofs about MerchantClient: its type invariant, that a verdict on the  *)
(* wall answers the last question, that the checking screen is always      *)
(* awaited, and that no payment is released twice in a session.            *)
(***************************************************************************)
EXTENDS MerchantClient, TLAPS

-----------------------------------------------------------------------------
(* The inductive invariant.                                                *)

\* Checks in flight were numbered by runRef, which only grows.
Numbered == \A c \in checks : c.run <= run

\* What the checking screen waits for is the last question asked, and the
\* question "Try again" would repeat.
Pending ==
    screen = "checking" =>
        /\ asked # None
        /\ lastLoad = asked.load
        /\ \A c \in checks : c.run = run => c.load = asked.load /\ c.run = asked.run

\* An answer in flight answers the question it was sent for.
RepliesAnswer ==
    \A c \in checks :
        c.reply \notin {None, "failed"} =>
            /\ c.reply \in DOMAIN stored
            /\ Answers(c.reply, c)

\* Every id the client holds is one the backend has given out.
ReplayOfStored(load) == load.kind = "replay" => load.id \in DOMAIN stored
IdsAreStored ==
    /\ result # None => result \in DOMAIN stored
    /\ history # None => history \subseteq DOMAIN stored
    /\ \A l \in listings : l.seen # None => l.seen \subseteq DOMAIN stored
    /\ \A c \in checks : ReplayOfStored(c.load)
    /\ lastLoad # None => ReplayOfStored(lastLoad)

\* The remembered place is the one the current question was put from.
PlaceRemembered == screen \in {"checking", "result"} => cameFrom = asked.from

\* A payment that is not greyed out was not released in this session.
Spent ==
    \A t \in Txn : /\ released[t] <= 1
                   /\ t \notin used => released[t] = 0

Inv ==
    /\ TypeOK
    /\ Numbered
    /\ CheckingIsAwaited
    /\ Pending
    /\ RepliesAnswer
    /\ VerdictAnswersLastAsk
    /\ IdsAreStored
    /\ PlaceRemembered
    /\ Spent

LEMMA InvInitially == Init => Inv
<1> SUFFICES ASSUME Init PROVE Inv
  OBVIOUS
<1>0. 1 \in 1..MaxListings
  BY ClientAssumption
<1>1. [slot |-> 1, seen |-> None] \in Listing
  BY <1>0 DEF Listing
<1> USE DEF Init
<1>2. TypeOK
  <2>1. DOMAIN stored \subseteq Id /\ \A i \in DOMAIN stored : stored[i] \in Verification
    BY ClientAssumption
  <2>2. listings \subseteq Listing /\ released \in [Txn -> Nat]
    BY <1>1
  <2> QED
    BY <2>1, <2>2 DEF TypeOK, Place
<1>3. /\ Numbered /\ CheckingIsAwaited /\ Pending /\ RepliesAnswer
      /\ VerdictAnswersLastAsk /\ IdsAreStored /\ PlaceRemembered /\ Spent
  BY DEF Numbered, CheckingIsAwaited, Pending, RepliesAnswer,
         VerdictAnswersLastAsk, IdsAreStored, PlaceRemembered, Spent
<1> QED
  BY <1>2, <1>3 DEF Inv

-----------------------------------------------------------------------------
(* What the handlers share.                                                *)

\* Asking a question, wherever it is asked.
LEMMA Asking ==
    ASSUME Inv, NEW load \in Load, NEW place \in Place,
           RunCheck(load, place), cameFrom' = place, ReplayOfStored(load)
    PROVE  Inv'
<1> DEFINE new == [run |-> run + 1, load |-> load, reply |-> None]
<1> USE DEF RunCheck, Show, lists, spent
<1>1. TypeOK'
  <2>1. new \in Check
    BY DEF Inv, TypeOK, Check
  <2>2. asked' \in Asked
    BY DEF Inv, TypeOK, Asked
  <2>3. /\ run' \in Nat /\ lastLoad' \in Load \cup {None} /\ checks' \subseteq Check
        /\ claim' \in File \cup {None}
    BY <2>1 DEF Inv, TypeOK
  <2> QED
    BY <2>2, <2>3 DEF Inv, TypeOK
<1>2. \A c \in checks : c \in Check /\ c.run <= run /\ c.run # run + 1 /\ c.run \in Nat
  BY DEF Inv, TypeOK, Numbered, Check
<1>3. checks' = checks \cup {new} /\ new.run = run' /\ new.load = load /\ new.reply = None
  OBVIOUS
<1>4. run \in Nat /\ run' = run + 1
  BY DEF Inv, TypeOK
<1>5. Numbered'
  BY <1>2, <1>3, <1>4 DEF Numbered
<1>8. CheckingIsAwaited'
  <2>1. \E c \in checks' : c.run = run'
    BY <1>3
  <2>2. \A c, d \in checks' : c.run = d.run => c = d
    BY <1>2, <1>3, <1>4 DEF Inv, CheckingIsAwaited
  <2> QED
    BY <2>1, <2>2 DEF CheckingIsAwaited
<1>6. Pending'
  <2>1. asked' # None
    BY ClientAssumption DEF Inv, TypeOK, Asked
  <2> QED
    BY <1>2, <1>3, <1>4, <2>1 DEF Pending
<1>7. RepliesAnswer' /\ VerdictAnswersLastAsk' /\ IdsAreStored' /\ PlaceRemembered' /\ Spent'
  BY <1>3 DEF Inv, RepliesAnswer, Answers, VerdictAnswersLastAsk, IdsAreStored,
              ReplayOfStored, PlaceRemembered, Spent
<1> QED
  BY <1>1, <1>5, <1>8, <1>6, <1>7 DEF Inv

\* Leaving a place with runRef raised: no check in the air is current any more.
LEMMA Leaving ==
    ASSUME Inv, TypeOK', Spent', Abandon, UNCHANGED <<checks, stored, lastLoad, history>>,
           screen' \in Place, result' \in {None, result},
           \A l \in listings' : l \in listings \/ l.seen = None
    PROVE  Inv'
<1>1. \A c \in checks : c.run <= run /\ c.run \in Nat
  BY DEF Inv, Numbered, TypeOK, Check
<1>2. run \in Nat /\ run' = run + 1
  BY DEF Inv, TypeOK, Abandon
<1>3. Numbered'
  BY <1>1, <1>2 DEF Numbered
<1>4. CheckingIsAwaited'
  BY <1>1, <1>2 DEF Inv, CheckingIsAwaited, Place
<1>5. Pending' /\ VerdictAnswersLastAsk' /\ PlaceRemembered'
  BY DEF Pending, VerdictAnswersLastAsk, PlaceRemembered, Place
<1>6. RepliesAnswer'
  BY DEF Inv, RepliesAnswer, Answers
<1>7. IdsAreStored'
  BY DEF Inv, IdsAreStored, ReplayOfStored
<1> QED
  BY <1>3, <1>4, <1>5, <1>6, <1>7 DEF Inv

\* A step that leaves the checks, the screen and the session alone.
LEMMA Elsewhere ==
    ASSUME Inv, TypeOK',
           UNCHANGED <<screen, result, run, cameFrom, lastLoad, asked, checks, stored, used,
                       released>>,
           history' # None => history' \subseteq DOMAIN stored,
           \A l \in listings' : l.seen # None => l.seen \subseteq DOMAIN stored
    PROVE  Inv'
BY DEF Inv, Numbered, CheckingIsAwaited, Pending, RepliesAnswer, Answers,
       VerdictAnswersLastAsk, IdsAreStored, ReplayOfStored, PlaceRemembered, Spent

\* The backend answers a check, adding at most to what it has stored.
LEMMA Answering ==
    ASSUME Inv, TypeOK', NEW c \in checks, NEW r, checks' = Replied(c, r), Freed,
           UNCHANGED <<listings, orderLoads>>,
           DOMAIN stored \subseteq DOMAIN stored',
           \A i \in DOMAIN stored : stored'[i] = stored[i],
           r = "failed" \/ (r \in DOMAIN stored' /\ Answers(r, c)')
    PROVE  Inv'
<1> DEFINE d == [c EXCEPT !.reply = r]
<1> USE DEF Freed, lists, question, spent
<1>1. /\ d.run = c.run /\ d.load = c.load /\ d.reply = r
      /\ checks' = (checks \ {c}) \cup {d}
  BY DEF Inv, TypeOK, Check, Replied
<1>2. Numbered'
  BY <1>1 DEF Inv, Numbered
<1>3. CheckingIsAwaited'
  <2>1. (\E e \in checks' : e.run = run') <=> (\E e \in checks : e.run = run)
    BY <1>1
  <2>2. \A e, f \in checks' : e.run = f.run => e = f
    BY <1>1 DEF Inv, CheckingIsAwaited
  <2> QED
    BY <2>1, <2>2 DEF Inv, CheckingIsAwaited
<1>4. Pending'
  BY <1>1 DEF Inv, Pending
<1>5. RepliesAnswer'
  <2>1. r # "failed" => Answers(r, d)'
    BY <1>1 DEF Answers
  <2>2. ASSUME NEW e \in checks, e.reply \notin {None, "failed"}
        PROVE  e.reply \in DOMAIN stored' /\ Answers(e.reply, e)'
    BY <2>2 DEF Inv, RepliesAnswer, Answers
  <2> QED
    BY <1>1, <2>1, <2>2 DEF RepliesAnswer
<1>6. VerdictAnswersLastAsk'
  BY DEF Inv, VerdictAnswersLastAsk, Answers
<1>7. IdsAreStored'
  BY <1>1 DEF Inv, IdsAreStored, ReplayOfStored
<1>8. PlaceRemembered' /\ Spent'
  BY DEF Inv, PlaceRemembered, Spent
<1> QED
  BY <1>2, <1>3, <1>4, <1>5, <1>6, <1>7, <1>8 DEF Inv

-----------------------------------------------------------------------------
(* Every step preserves the invariant.                                     *)

LEMMA MerchantSteps == Inv /\ Merchant => Inv'
<1> SUFFICES ASSUME Inv, Merchant PROVE Inv'
  OBVIOUS
<1> USE DEF lists, question, spent, net
<1>0. TypeOK
  BY DEF Inv
<1>1. ASSUME NEW o \in Order, Choose(o) PROVE Inv'
  <2>1. TypeOK'
    BY <1>0, <1>1 DEF Choose, TypeOK
  <2> QED
    BY <1>1, <2>1, Elsewhere DEF Choose, Inv, IdsAreStored
<1>2. ASSUME NEW f \in File, Take(f) PROVE Inv'
  <2>1. TypeOK'
    BY <1>0, <1>2 DEF Take, TypeOK
  <2> QED
    BY <1>2, <2>1, Elsewhere DEF Take, Inv, IdsAreStored
<1>3. CASE Clear
  <2>1. TypeOK'
    BY <1>0, <1>3 DEF Clear, TypeOK
  <2> QED
    BY <1>3, <2>1, Elsewhere DEF Clear, Inv, IdsAreStored
<1>4. CASE Submit
  <2> DEFINE load == [kind |-> "submit", order |-> selected, file |-> claim]
  <2>1. load \in Load /\ ReplayOfStored(load)
    BY <1>0, <1>4 DEF Submit, TypeOK, Load, Submission, ReplayOfStored
  <2>2. RunCheck(load, "upload") /\ cameFrom' = "upload"
    BY <1>4 DEF Submit
  <2> QED
    BY <2>1, <2>2, Asking DEF Place
<1>5. CASE PlayDemo
  <2>1. PICK i \in Rail : RunCheck([kind |-> "replay", id |-> i], "upload")
    BY <1>5 DEF PlayDemo
  <2>2. i \in DOMAIN stored /\ i \in Id
    BY <1>0, <1>5 DEF PlayDemo, Rail, Inv, IdsAreStored, TypeOK
  <2>3. [kind |-> "replay", id |-> i] \in Load /\ ReplayOfStored([kind |-> "replay", id |-> i])
    BY <2>2 DEF Load, Replay, ReplayOfStored
  <2>4. cameFrom' = "upload" /\ "upload" \in Place
    BY <1>5 DEF PlayDemo, Place
  <2> QED
    BY <2>1, <2>3, <2>4, Asking
<1>6. CASE OpenFromHistory
  <2>1. PICK i \in history : RunCheck([kind |-> "replay", id |-> i], "history")
    BY <1>6 DEF OpenFromHistory
  <2>2. i \in DOMAIN stored /\ i \in Id
    BY <1>0, <1>6 DEF OpenFromHistory, Inv, IdsAreStored, TypeOK
  <2>3. [kind |-> "replay", id |-> i] \in Load /\ ReplayOfStored([kind |-> "replay", id |-> i])
    BY <2>2 DEF Load, Replay, ReplayOfStored
  <2>4. cameFrom' = "history" /\ "history" \in Place
    BY <1>6 DEF OpenFromHistory, Place
  <2> QED
    BY <2>1, <2>3, <2>4, Asking
<1>7. CASE Retry
  <2>1. lastLoad \in Load /\ ReplayOfStored(lastLoad)
    BY <1>0, <1>7 DEF Retry, TypeOK, Inv, IdsAreStored
  <2>2. asked.from \in Place
    BY <1>0, <1>7 DEF Retry, TypeOK, Inv, VerdictAnswersLastAsk, Asked
  <2>3. RunCheck(lastLoad, asked.from) /\ cameFrom' = asked.from
    BY <1>7 DEF Retry, Inv, PlaceRemembered
  <2> QED
    BY <2>1, <2>2, <2>3, Asking
<1>8. CASE Dismiss
  <2>1. TypeOK'
    <3>1. /\ screen' \in Place /\ result' = None /\ run' \in Nat /\ selected' = None
          /\ asked' = None /\ claim' \in File \cup {None}
      BY <1>0, <1>8 DEF Dismiss, Leave, Abandon, Show, TypeOK
    <3>2. UNCHANGED <<error, lists, cameFrom, lastLoad, spent, net, stored>>
      BY <1>8 DEF Dismiss
    <3> QED
      BY <1>0, <3>1, <3>2 DEF TypeOK
  <2>2. Spent'
    BY <1>8 DEF Dismiss, Inv, Spent
  <2> QED
    BY <1>0, <1>8, <2>1, <2>2, Leaving DEF Dismiss, Leave, Show, TypeOK
<1>9. CASE Approve
  <2> DEFINE v == stored[result]
  <2>1. v \in Verification
    BY <1>0, <1>9 DEF Approve, Inv, VerdictAnswersLastAsk, IdsAreStored, TypeOK
  <2>2. v.txn \in Txn \cup {None}
    BY <2>1 DEF Verification
  <2>3. v.status = "VERIFIED" => v.txn \in Txn /\ v.txn \notin used
    BY <1>9, <2>2 DEF Approve, Approvable
  <2>4. released' \in [Txn -> Nat]
    BY <1>0, <1>9, <2>3 DEF Approve, TypeOK
  <2>5. TypeOK'
    <3>1. /\ screen' \in Place /\ result' = None /\ run' \in Nat /\ selected' = None
          /\ asked' = None /\ claim' \in File \cup {None}
      BY <1>0, <1>9 DEF Approve, Leave, Abandon, Show, TypeOK
    <3>2. used' \subseteq Txn
      BY <1>0, <1>9, <2>2 DEF Approve, TypeOK
    <3>3. UNCHANGED <<error, lists, cameFrom, lastLoad, net, stored>>
      BY <1>9 DEF Approve
    <3> QED
      BY <1>0, <2>4, <3>1, <3>2, <3>3 DEF TypeOK
  <2>6. Spent'
    <3> SUFFICES ASSUME NEW t \in Txn
                 PROVE  released'[t] <= 1 /\ (t \notin used' => released'[t] = 0)
      BY DEF Spent
    <3>1. released[t] <= 1 /\ (t \notin used => released[t] = 0) /\ released[t] \in Nat
      BY <1>0 DEF Inv, Spent, TypeOK
    <3>2. CASE v.status = "VERIFIED" /\ v.txn = t
      <4>1. released' = [released EXCEPT ![t] = @ + 1] /\ used' = used \cup ({t} \ {None})
        BY <1>9, <3>2 DEF Approve
      <4>2. released[t] = 0 /\ released'[t] = 1
        BY <1>0, <2>3, <3>1, <3>2, <4>1 DEF TypeOK
      <4>3. t \in used'
        BY <4>1, ClientAssumption
      <4> QED
        BY <4>2, <4>3
    <3>3. CASE ~(v.status = "VERIFIED" /\ v.txn = t)
      <4>1. used \subseteq used'
        BY <1>9 DEF Approve
      <4>2. released'[t] = released[t]
        BY <1>0, <1>9, <3>3 DEF Approve, TypeOK
      <4> QED
        BY <3>1, <4>1, <4>2
    <3> QED
      BY <3>2, <3>3
  <2> QED
    BY <1>0, <1>9, <2>5, <2>6, Leaving DEF Approve, Leave, Show, TypeOK
<1>10. CASE StartOver
  <2>1. PICK n \in FreeSlots : listings' = listings \cup {[slot |-> n, seen |-> None]}
    BY <1>10 DEF StartOver, LoadHistory
  <2>2. TypeOK'
    <3>1. /\ screen' = "upload" /\ cameFrom' = "upload" /\ result' = None /\ error' = FALSE
          /\ selected' = None /\ asked' = None
          /\ used' = {} /\ released' \in [Txn -> Nat]
          /\ UNCHANGED <<history, orders, lastLoad, checks, stored>>
      BY <1>10 DEF StartOver, Abandon, Show
    <3>2. run' \in Nat /\ orderLoads' \in Nat /\ claim' \in File \cup {None}
      BY <1>0, <1>10 DEF StartOver, Abandon, Show, LoadOrders, TypeOK
    <3>3. listings' \subseteq Listing
      BY <1>0, <2>1 DEF FreeSlots, Listing, TypeOK
    <3> QED
      BY <1>0, <3>1, <3>2, <3>3 DEF TypeOK, Place
  <2>3. Spent'
    BY <1>10 DEF StartOver, Spent
  <2> QED
    BY <1>10, <2>1, <2>2, <2>3, Leaving DEF StartOver, Show, Place
<1>11. CASE OpenList
  <2>1. PICK n \in FreeSlots : listings' = listings \cup {[slot |-> n, seen |-> None]}
    BY <1>11 DEF OpenList, LoadHistory
  <2>2. TypeOK'
    BY <1>0, <1>11, <2>1 DEF OpenList, Abandon, Show, FreeSlots, Listing, Place, TypeOK
  <2>3. Spent'
    BY <1>11 DEF OpenList, Inv, Spent
  <2> QED
    BY <1>11, <2>1, <2>2, <2>3, Leaving DEF OpenList, Show, Place
<1> QED
  BY <1>1, <1>2, <1>3, <1>4, <1>5, <1>6, <1>7, <1>8, <1>9, <1>10, <1>11 DEF Merchant

LEMMA SettleSteps == Inv /\ Settle => Inv'
<1> SUFFICES ASSUME Inv, Settle PROVE Inv'
  OBVIOUS
<1> USE DEF lists, question, spent, net
<1>0. TypeOK
  BY DEF Inv
<1>1. ASSUME NEW c \in checks, CheckArrives(c) PROVE Inv'
  <2> USE DEF CheckArrives
  <2>1. /\ c \in Check /\ c.reply # None /\ checks' = checks \ {c}
        /\ UNCHANGED <<run, cameFrom, lastLoad, asked, history, listings, stored, used, released>>
    BY <1>0, <1>1 DEF TypeOK
  <2>2. Numbered' /\ RepliesAnswer' /\ Spent'
    BY <2>1 DEF Inv, Numbered, RepliesAnswer, Answers, Spent
  <2>3. CASE c.run # run
    <3>1. UNCHANGED <<screen, result, error, claim>>
      BY <1>1, <2>3 DEF Awaited
    <3>2. TypeOK'
      BY <1>0, <1>1, <2>1, <3>1 DEF TypeOK
    <3>3. CheckingIsAwaited' /\ Pending'
      BY <2>1, <2>3, <3>1 DEF Inv, CheckingIsAwaited, Pending
    <3>4. VerdictAnswersLastAsk' /\ IdsAreStored' /\ PlaceRemembered'
      BY <2>1, <3>1 DEF Inv, VerdictAnswersLastAsk, Answers, IdsAreStored, ReplayOfStored,
                        PlaceRemembered
    <3> QED
      BY <2>2, <3>2, <3>3, <3>4 DEF Inv
  <2>4. CASE c.run = run
    <3>1. screen = "checking" /\ \A d \in checks' : d.run # run
      BY <2>1, <2>4 DEF Inv, CheckingIsAwaited
    <3>2. CASE c.reply = "failed"
      <4>1. ShowFailure
        BY <1>1, <2>4, <3>2 DEF Awaited
      <4>2. TypeOK'
        BY <1>0, <1>1, <2>1, <4>1 DEF TypeOK, ShowFailure, Show, Place
      <4>3. CheckingIsAwaited' /\ Pending' /\ VerdictAnswersLastAsk' /\ PlaceRemembered'
        BY <2>1, <3>1, <4>1
           DEF Inv, CheckingIsAwaited, Pending, VerdictAnswersLastAsk, PlaceRemembered,
               ShowFailure, Show
      <4>4. IdsAreStored'
        BY <2>1, <4>1 DEF Inv, IdsAreStored, ReplayOfStored, ShowFailure
      <4> QED
        BY <2>2, <4>2, <4>3, <4>4 DEF Inv
    <3>3. CASE c.reply # "failed"
      <4>1. ShowVerdict(c.reply)
        BY <1>1, <2>4, <3>3 DEF Awaited
      <4>2. c.reply \in DOMAIN stored /\ c.reply \in Id /\ Answers(c.reply, c)
        BY <1>0, <2>1, <3>3 DEF Inv, RepliesAnswer, TypeOK
      <4>3. TypeOK'
        <5>1. screen' = "result" /\ claim' = None /\ result' = c.reply
          BY <1>0, <2>1, <4>1, <4>2 DEF ShowVerdict, Show, TypeOK, Verification
        <5> QED
          BY <1>0, <1>1, <2>1, <4>1, <4>2, <5>1 DEF ShowVerdict, TypeOK
      <4>4. CheckingIsAwaited' /\ Pending' /\ PlaceRemembered'
        BY <2>1, <3>1, <4>1
           DEF Inv, CheckingIsAwaited, Pending, PlaceRemembered, ShowVerdict, Show
      <4>5. VerdictAnswersLastAsk'
        <5>1. /\ asked # None /\ lastLoad = asked.load
              /\ c.load = asked.load /\ c.run = asked.run
          BY <2>4, <3>1 DEF Inv, Pending
        <5>2. Answers(c.reply, asked)
          BY <4>2, <5>1 DEF Answers
        <5>3. result' = c.reply /\ c.reply # None
          BY <2>1, <4>1 DEF ShowVerdict
        <5> QED
          BY <2>1, <5>1, <5>2, <5>3 DEF VerdictAnswersLastAsk, Answers
      <4>6. IdsAreStored'
        BY <2>1, <4>1, <4>2 DEF Inv, IdsAreStored, ReplayOfStored, ShowVerdict
      <4> QED
        BY <2>2, <4>3, <4>4, <4>5, <4>6 DEF Inv
    <3> QED
      BY <3>2, <3>3
  <2> QED
    BY <2>3, <2>4
<1>2. ASSUME NEW l \in listings, HistoryArrives(l) PROVE Inv'
  <2>1. TypeOK'
    BY <1>0, <1>2 DEF HistoryArrives, TypeOK, Listing
  <2>2. history' # None => history' \subseteq DOMAIN stored
    BY <1>2 DEF HistoryArrives, Inv, IdsAreStored
  <2> QED
    BY <1>2, <2>1, <2>2, Elsewhere DEF HistoryArrives, Inv, IdsAreStored
<1>3. ASSUME NEW l \in listings, HistoryFails(l) PROVE Inv'
  <2>1. TypeOK'
    BY <1>0, <1>3 DEF HistoryFails, TypeOK
  <2> QED
    BY <1>3, <2>1, Elsewhere DEF HistoryFails, Inv, IdsAreStored
<1>4. CASE OrdersArrive
  <2>1. TypeOK'
    <3>1. orders' \in {Order, None} /\ error' \in BOOLEAN /\ orderLoads' \in Nat
      <4>1. orderLoads' \in Nat
        BY <1>0, <1>4 DEF OrdersArrive, TypeOK
      <4>2. \/ orders' = Order /\ error' = error
            \/ orders' = None /\ error' = TRUE
        BY <1>4 DEF OrdersArrive, OrdersUnknown
      <4>3. error \in BOOLEAN
        BY <1>0 DEF TypeOK
      <4> QED
        BY <4>1, <4>2, <4>3
    <3>2. UNCHANGED <<screen, result, history, claim, run, selected, question, spent,
                      checks, listings, stored>>
      BY <1>4 DEF OrdersArrive
    <3> QED
      BY <1>0, <3>1, <3>2 DEF TypeOK
  <2> QED
    BY <1>4, <2>1, Elsewhere DEF OrdersArrive, Inv, IdsAreStored
<1> QED
  BY <1>1, <1>2, <1>3, <1>4 DEF Settle

LEMMA WorldSteps == Inv /\ World => Inv'
<1> SUFFICES ASSUME Inv, World PROVE Inv'
  OBVIOUS
<1> USE DEF Freed, lists, question, spent
<1>0. TypeOK
  BY DEF Inv
<1>1. ASSUME NEW c \in checks, Decide(c) PROVE Inv'
  <2>1. PICK o \in Outcomes :
          stored' = [j \in DOMAIN stored \cup {FreshId} |->
                       IF j # FreshId THEN stored[j]
                       ELSE [order |-> c.load.order, file |-> c.load.file,
                             status |-> o.status, txn |-> o.txn,
                             degraded |-> o.degraded, by |-> c.run]]
    BY <1>1 DEF Decide
  <2>2. c \in Check /\ c.load \in Submission /\ o \in Outcome
    BY <1>0, <1>1, ClientAssumption DEF Decide, TypeOK, Check, Load, Replay
  <2>3. PICK f : f = FreshId
    OBVIOUS
  <2>4. f \in Id /\ f \notin DOMAIN stored
    BY <1>1, <2>3 DEF Decide, FreshId
  <2> DEFINE new == [order |-> c.load.order, file |-> c.load.file, status |-> o.status,
                     txn |-> o.txn, degraded |-> o.degraded, by |-> c.run]
  <2>5. /\ stored' = [j \in DOMAIN stored \cup {f} |-> IF j # f THEN stored[j] ELSE new]
        /\ checks' \in {Replied(c, f), Replied(c, "failed")}
        /\ Freed /\ UNCHANGED <<listings, orderLoads>>
    BY <1>1, <2>1, <2>3 DEF Decide
  <2>6. new \in Verification
    BY <2>2 DEF Check, Submission, Outcome, Verification
  <2> HIDE DEF new
  <2>7. DOMAIN stored' \subseteq Id /\ \A i \in DOMAIN stored' : stored'[i] \in Verification
    BY <1>0, <2>4, <2>5, <2>6 DEF TypeOK
  <2>8. /\ DOMAIN stored \subseteq DOMAIN stored'
        /\ \A i \in DOMAIN stored : stored'[i] = stored[i]
        /\ f \in DOMAIN stored' /\ stored'[f] = new
    BY <2>4, <2>5
  <2>9. Answers(f, c)'
    BY <2>2, <2>8 DEF Answers, Submission, new
  <2>10. TypeOK'
    <3>1. checks' \subseteq Check
      BY <1>0, <2>2, <2>4, <2>5 DEF Replied, Check, TypeOK
    <3> QED
      BY <1>0, <2>5, <2>7, <3>1 DEF TypeOK
  <2>11. CASE checks' = Replied(c, f)
    BY <2>5, <2>8, <2>9, <2>10, <2>11, Answering
  <2>12. CASE checks' = Replied(c, "failed")
    BY <2>5, <2>8, <2>10, <2>12, Answering
  <2> QED
    BY <2>5, <2>11, <2>12
<1>2. ASSUME NEW c \in checks, Fetch(c) PROVE Inv'
  <2>1. /\ c \in Check /\ c.load \in Replay
        /\ checks' = Replied(c, c.load.id)
        /\ Freed /\ UNCHANGED <<listings, orderLoads, stored>>
    BY <1>0, <1>2 DEF Fetch, TypeOK, Check, Load, Submission
  <2>2. c.load.id \in DOMAIN stored' /\ c.load.id \in Id /\ Answers(c.load.id, c)'
    BY <2>1 DEF Inv, IdsAreStored, ReplayOfStored, Answers, Replay
  <2>3. checks' \subseteq Check
    BY <1>0, <2>1, <2>2 DEF Replied, Check, TypeOK
  <2>4. TypeOK'
    BY <1>0, <2>1, <2>3 DEF TypeOK
  <2> QED
    BY <2>1, <2>2, <2>4, Answering
<1>3. ASSUME NEW c \in checks, Fail(c) PROVE Inv'
  <2>1. /\ checks' = Replied(c, "failed")
        /\ Freed /\ UNCHANGED <<listings, orderLoads, stored>>
    BY <1>3 DEF Fail
  <2>2. checks' \subseteq Check
    BY <1>0, <2>1 DEF Replied, Check, TypeOK
  <2>3. TypeOK'
    BY <1>0, <2>1, <2>2 DEF TypeOK
  <2> QED
    BY <2>1, <2>3, Answering
<1>4. ASSUME NEW l \in listings, List(l) PROVE Inv'
  <2>1. /\ l \in Listing
        /\ listings' = (listings \ {l}) \cup {[l EXCEPT !.seen = DOMAIN stored]}
    BY <1>0, <1>4 DEF List, TypeOK
  <2>2. [l EXCEPT !.seen = DOMAIN stored] \in Listing
    BY <1>0, <2>1 DEF Listing, TypeOK
  <2>3. TypeOK'
    BY <1>0, <1>4, <2>1, <2>2 DEF List, TypeOK
  <2>4. \A m \in listings' : m.seen # None => m.seen \subseteq DOMAIN stored
    BY <2>1 DEF Inv, IdsAreStored, Listing
  <2> QED
    BY <1>4, <2>3, <2>4, Elsewhere DEF List, Inv, IdsAreStored
<1> QED
  BY <1>1, <1>2, <1>3, <1>4 DEF World

LEMMA InvIsInductive == Inv /\ [Next]_vars => Inv'
<1> SUFFICES ASSUME Inv, [Next]_vars PROVE Inv'
  OBVIOUS
<1>1. CASE UNCHANGED vars
  BY <1>1 DEF vars, Inv, TypeOK, Numbered, CheckingIsAwaited, Pending, RepliesAnswer, Answers,
              VerdictAnswersLastAsk, IdsAreStored, ReplayOfStored, PlaceRemembered, Spent
<1> QED
  BY <1>1, MerchantSteps, SettleSteps, WorldSteps DEF Next

-----------------------------------------------------------------------------
(* The theorems.                                                           *)

THEOREM InvAlways == Spec => []Inv
<1>1. Init => Inv
  BY InvInitially
<1>2. Inv /\ [Next]_vars => Inv'
  BY InvIsInductive
<1> QED
  BY <1>1, <1>2, PTL DEF Spec

\* Every variable keeps its type.
THEOREM TypeCorrect == Spec => []TypeOK
<1>1. Inv => TypeOK
  BY DEF Inv
<1> QED
  BY <1>1, InvAlways, PTL

\* The verdict on the wall is the answer to the last question that was not
\* abandoned, however many checks are in the air and in whichever order their
\* answers come.
THEOREM LastAskAnswered == Spec => []VerdictAnswersLastAsk
<1>1. Inv => VerdictAnswersLastAsk
  BY DEF Inv
<1> QED
  BY <1>1, InvAlways, PTL

\* The checking screen shows exactly while its one answer is outstanding.
THEOREM CheckingAwaited == Spec => []CheckingIsAwaited
<1>1. Inv => CheckingIsAwaited
  BY DEF Inv
<1> QED
  BY <1>1, InvAlways, PTL

\* No payment is used twice for a VERIFIED verdict between two resets.
THEOREM ReleasedOnce == Spec => []OnePaymentOneRelease
<1>1. Inv => OnePaymentOneRelease
  BY DEF Inv, Spent, OnePaymentOneRelease
<1> QED
  BY <1>1, InvAlways, PTL

\* A verdict is left for the place its question was put from.
THEOREM LeavesForItsPlace == Spec => LeavesForWhereItWasAsked
<1>1. Inv /\ [Next]_vars => [Dismiss \/ Approve => screen' = asked.from]_vars
  BY DEF Inv, PlaceRemembered, Dismiss, Approve, Leave, Show
<1> QED
  BY <1>1, InvAlways, PTL DEF Spec, LeavesForWhereItWasAsked
=============================================================================
