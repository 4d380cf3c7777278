---------------------------- MODULE SignInProofs ----------------------------
(***************************************************************************)
(* Proofs about SignIn, for any number of calls and restarts: no call acts *)
(* twice, none is rejected by one and the same build, none awaits a        *)
(* sign-in that is not in flight, and a burst of calls shares one sign-in. *)
(***************************************************************************)
EXTENDS SignIn, FiniteSetTheorems, TLAPS

-----------------------------------------------------------------------------
(* The inductive invariant.                                                *)

\* A sign-in is started at most once by each attempt of a call, and only by an
\* attempt that was made.
SignInsAreAttempts ==
    /\ \A s, t \in signIns : s.id = t.id => s = t
    /\ \A s \in signIns, c \in Call :
         /\ s.id = <<c, 1>> => call[c].stage # "idle"
         /\ s.id = <<c, 2>> => call[c].attempt = 2
    /\ \A c \in Call : call[c].stage = "idle" => call[c].attempt = 1

\* Calls wait for sign-ins that are in flight; a retry waits for its own.
WaitsAreInFlight ==
    /\ tokenRequest # None => \E s \in signIns : s.id = tokenRequest
    /\ \A c \in Call :
         /\ call[c].waits # None <=> call[c].stage = "signing in"
         /\ call[c].waits # None => \E s \in signIns : s.id = call[c].waits
         /\ call[c].waits # None /\ call[c].attempt = 2 => call[c].waits = <<c, 2>>

\* No token and no refusal is from a build still to come.
NothingFromTheFuture ==
    /\ token # None => token <= build
    /\ \A s \in signIns : s.token # None => s.token <= build
    /\ \A c \in Call : /\ call[c].token # None => call[c].token <= build
                       /\ call[c].stage = "sent" => call[c].token # None
                       /\ \A m \in refusals[c] : m <= build

\* A retry holds, or waits for, a token no older than the refusal behind it.
RetryIsNewer(c) ==
    /\ call[c].stage = "unauthorized" => refusals[c] # {}
    /\ call[c].attempt = 2 => refusals[c] # {}
    /\ call[c].attempt = 2 /\ call[c].stage = "sent" =>
         \E m \in refusals[c] : m <= call[c].token
    /\ call[c].attempt = 2 /\ call[c].stage \in {"unauthorized", "rejected"} =>
         \E m, n \in refusals[c] : m < n
    /\ call[c].stage = "rejected" => call[c].attempt = 2
    /\ \A s \in signIns : s.id = <<c, 2>> /\ s.token # None =>
         \E m \in refusals[c] : m <= s.token

RetriesAreNewer == \A c \in Call : RetryIsNewer(c)

\* The backend acted on a call only if that call is not sent again.
ActedIsOver ==
    \A c \in Call :
        /\ acts[c] <= 1
        /\ call[c].stage \notin {"accepted", "lost", "done", "failed"} => acts[c] = 0

Inv ==
    /\ TypeOK
    /\ SignInsAreAttempts
    /\ WaitsAreInFlight
    /\ NothingFromTheFuture
    /\ RetriesAreNewer
    /\ ActedIsOver

LEMMA InvInitially == Init => Inv
<1> SUFFICES ASSUME Init PROVE Inv
  OBVIOUS
<1> USE DEF Init, Idle
<1>1. TypeOK
  <2>1. call \in [Call -> CallState]
    BY DEF CallState, Stage, Attempt
  <2>2. token \in Build \cup {None}
    BY DEF Build
  <2> QED
    BY <2>1, <2>2 DEF TypeOK, Build
<1>2. \A c \in Call : /\ call[c].stage = "idle" /\ call[c].attempt = 1
                      /\ call[c].waits = None /\ call[c].token = None
                      /\ refusals[c] = {} /\ acts[c] = 0
  OBVIOUS
<1>3. SignInsAreAttempts /\ WaitsAreInFlight
  BY <1>2 DEF SignInsAreAttempts, WaitsAreInFlight
<1>4. RetriesAreNewer /\ ActedIsOver
  BY <1>2 DEF RetriesAreNewer, RetryIsNewer, ActedIsOver
<1>5. NothingFromTheFuture
  BY <1>2 DEF NothingFromTheFuture
<1> QED
  BY <1>1, <1>3, <1>4, <1>5 DEF Inv

-----------------------------------------------------------------------------
(* Every step preserves the invariant.                                     *)

\* ensureToken, for a first attempt or for a retry that shares nothing.
LEMMA Ensuring ==
    ASSUME Inv, NEW c \in Call, NEW n \in Attempt, NEW stored, NEW shared,
           EnsureToken(c, n, stored, shared),
           UNCHANGED <<build, persists, refusals, acts>>,
           \/ n = 1 /\ stored = token /\ shared = tokenRequest /\ call[c].stage = "idle"
           \/ /\ n = 2 /\ stored = None /\ shared = None
              /\ call[c].stage = "unauthorized" /\ call[c].attempt = 1
    PROVE  Inv'
<1>0. TypeOK
  BY DEF Inv
<1> DEFINE own == [id |-> <<c, n>>, token |-> None]
<1>1. /\ stored \in Build \cup {None} /\ shared \in SignInId \cup {None}
      /\ <<c, n>> \in SignInId /\ own \in Issued
      /\ shared # None => \E s \in signIns : s.id = shared
  BY <1>0 DEF TypeOK, SignInId, Issued, Inv, WaitsAreInFlight
<1>2. \A s \in signIns : s.id # <<c, n>>
  BY DEF Inv, SignInsAreAttempts
<1>3. PICK k \in CallState :
        /\ call' = [call EXCEPT ![c] = k] /\ k.attempt = n
        /\ \/ /\ k.stage = "sent" /\ k.waits = None /\ k.token = stored /\ stored # None
              /\ token' = stored /\ tokenRequest' = shared /\ signIns' = signIns
           \/ /\ k.stage = "signing in" /\ k.waits = shared /\ k.token = None /\ shared # None
              /\ token' = None /\ tokenRequest' = shared /\ signIns' = signIns
           \/ /\ k.stage = "signing in" /\ k.waits = <<c, n>> /\ k.token = None
              /\ token' = None /\ tokenRequest' = <<c, n>> /\ signIns' = signIns \cup {own}
  <2>1. CASE stored # None
    <3>1. /\ Sent(n, stored) \in CallState
          /\ Sent(n, stored).attempt = n /\ Sent(n, stored).stage = "sent"
          /\ Sent(n, stored).waits = None /\ Sent(n, stored).token = stored
      BY <1>1 DEF Sent, CallState, Stage
    <3> QED
      BY <2>1, <3>1 DEF EnsureToken
  <2>2. CASE stored = None
    <3>1. ASSUME NEW w \in SignInId
          PROVE  /\ Waiting(n, w) \in CallState
                 /\ Waiting(n, w).attempt = n /\ Waiting(n, w).stage = "signing in"
                 /\ Waiting(n, w).waits = w /\ Waiting(n, w).token = None
      BY DEF Waiting, CallState, Stage
    <3>2. CASE shared # None
      <4>1. shared \in SignInId
        BY <1>1, <3>2
      <4> QED
        BY <2>2, <3>1, <3>2, <4>1 DEF EnsureToken
    <3>3. CASE shared = None
      BY <1>1, <2>2, <3>1, <3>3 DEF EnsureToken
    <3> QED
      BY <3>2, <3>3
  <2> QED
    BY <2>1, <2>2
<1> HIDE DEF own
<1>n. /\ n = 1 \/ n = 2
      /\ n = 1 => n # 2 /\ call[c].stage = "idle"
      /\ n = 2 => /\ n # 1 /\ stored = None /\ shared = None
                  /\ call[c].stage = "unauthorized"
  OBVIOUS
<1>k. /\ call' \in [Call -> CallState]
      /\ call'[c] = k /\ \A d \in Call : d # c => call'[d] = call[d]
  BY <1>0, <1>3 DEF TypeOK
<1>o. own.id = <<c, n>> /\ own.token = None
  BY DEF own
<1>p. /\ signIns \subseteq signIns'
      /\ \A s \in signIns' : s \in signIns \/ s = own
      /\ \A d \in Call : d # c => own.id # <<d, 1>> /\ own.id # <<d, 2>>
      /\ k.stage \in {"sent", "signing in"}
  <2>1. signIns' = signIns \/ signIns' = signIns \cup {own}
    BY <1>3
  <2>2. \A d \in Call : d # c => own.id # <<d, 1>> /\ own.id # <<d, 2>>
    BY <1>o
  <2>3. k.stage \in {"sent", "signing in"}
    BY <1>3
  <2> QED
    BY <2>1, <2>2, <2>3
<1>q. /\ \A s \in signIns : s.id # <<c, 2>>
      /\ <<c, n>> = <<c, 2>> => n = 2
  BY <1>2, <1>n DEF Inv, SignInsAreAttempts
<1>4. TypeOK'
  <2>1. call' \in [Call -> CallState]
    BY <1>k
  <2>2. token' \in Build \cup {None} /\ tokenRequest' \in SignInId \cup {None}
    BY <1>1, <1>3
  <2>3. signIns' \subseteq Issued
    BY <1>0, <1>1, <1>3 DEF TypeOK
  <2> QED
    BY <1>0, <2>1, <2>2, <2>3 DEF TypeOK
<1>5. SignInsAreAttempts'
  <2>1. \A s, t \in signIns' : s.id = t.id => s = t
    BY <1>2, <1>3, <1>o DEF Inv, SignInsAreAttempts
  <2>2. ASSUME NEW s \in signIns', NEW d \in Call
        PROVE  /\ s.id = <<d, 1>> => call'[d].stage # "idle"
               /\ s.id = <<d, 2>> => call'[d].attempt = 2
    <3>1. CASE d = c
      <4>1. k.stage # "idle"
        BY <1>p
      <4>2. s.id = <<c, 2>> => n = 2
        BY <1>o, <1>p, <1>q
      <4> QED
        BY <1>3, <1>k, <3>1, <4>1, <4>2
    <3>2. CASE d # c
      BY <1>k, <1>p, <3>2 DEF Inv, SignInsAreAttempts
    <3> QED
      BY <3>1, <3>2
  <2>3. \A d \in Call : call'[d].stage = "idle" => call'[d].attempt = 1
    BY <1>k, <1>p DEF Inv, SignInsAreAttempts
  <2> QED
    BY <2>1, <2>2, <2>3 DEF SignInsAreAttempts
<1>6. WaitsAreInFlight'
  <2>1. tokenRequest' # None => \E s \in signIns' : s.id = tokenRequest'
    BY <1>1, <1>3, <1>o
  <2>2. ASSUME NEW d \in Call
        PROVE  /\ call'[d].waits # None <=> call'[d].stage = "signing in"
               /\ call'[d].waits # None => \E s \in signIns' : s.id = call'[d].waits
               /\ call'[d].waits # None /\ call'[d].attempt = 2 => call'[d].waits = <<d, 2>>
    <3>1. CASE d = c
      <4>1. k.stage = "sent" \/ k.waits # None
        BY <1>1, <1>3, SignInAssumption
      <4>2. k.waits # None => \E s \in signIns' : s.id = k.waits
        BY <1>1, <1>3, <1>o
      <4>3. k.waits # None /\ n = 2 => k.waits = <<c, 2>>
        BY <1>3, <1>n
      <4> QED
        BY <1>3, <1>k, <3>1, <4>1, <4>2, <4>3
    <3>2. CASE d # c
      BY <1>3, <1>k, <1>o, <3>2 DEF Inv, WaitsAreInFlight
    <3> QED
      BY <3>1, <3>2
  <2> QED
    BY <2>1, <2>2 DEF WaitsAreInFlight
<1>7. NothingFromTheFuture'
  BY <1>3, <1>k, <1>o DEF Inv, NothingFromTheFuture
<1>8. RetriesAreNewer'
  <2> SUFFICES ASSUME NEW d \in Call PROVE RetryIsNewer(d)'
    BY DEF RetriesAreNewer
  <2>1. CASE d = c
    <3>1. n = 2 => refusals[c] # {}
      BY <1>n DEF Inv, RetriesAreNewer, RetryIsNewer
    <3>2. n = 2 => k.stage = "signing in"
      BY <1>3, <1>n
    <3>3. \A s \in signIns' : s.id = <<c, 2>> => s.token = None
      BY <1>o, <1>p, <1>q
    <3> QED
      BY <1>3, <1>k, <1>p, <2>1, <3>1, <3>2, <3>3 DEF RetryIsNewer
  <2>2. CASE d # c
    BY <1>k, <1>p, <2>2 DEF Inv, RetriesAreNewer, RetryIsNewer
  <2> QED
    BY <2>1, <2>2
<1>9. ActedIsOver'
  BY <1>3, <1>k DEF Inv, ActedIsOver
<1> QED
  BY <1>4, <1>5, <1>6, <1>7, <1>8, <1>9 DEF Inv

LEMMA ClientSteps == ASSUME Inv, NEW c \in Call, ClientStep(c) PROVE Inv'
<1>1. CASE Request(c)
  BY <1>1, Ensuring DEF Request, Shared, Attempt
<1>2. CASE Retry(c)
  BY <1>2, Ensuring DEF Retry, Forgotten, Attempt
<1>3. CASE Settle(c)
  <2>0. TypeOK
    BY DEF Inv
  <2>1. PICK g \in {"done", "failed", "rejected"} :
          /\ call' = [call EXCEPT ![c].stage = g]
          /\ \/ call[c].stage = "accepted" /\ g = "done"
             \/ call[c].stage = "lost" /\ g = "failed"
             \/ call[c].stage = "unauthorized" /\ call[c].attempt = 2 /\ g = "rejected"
    BY <1>3 DEF Settle
  <2>2. /\ call[c] \in CallState
        /\ call'[c] = [call[c] EXCEPT !.stage = g]
        /\ \A d \in Call \ {c} : call'[d] = call[d]
        /\ UNCHANGED <<build, persists, token, tokenRequest, signIns, refusals, acts>>
    BY <1>3, <2>0, <2>1 DEF TypeOK, Settle
  <2>3. /\ call'[c].stage = g /\ call'[c].attempt = call[c].attempt
        /\ call'[c].waits = call[c].waits /\ call'[c].token = call[c].token
        /\ call'[c] \in CallState
    BY <2>2 DEF CallState, Stage
  <2>4. TypeOK'
    BY <2>0, <2>1, <2>2, <2>3 DEF TypeOK
  <2>5. /\ SignInsAreAttempts'
        /\ WaitsAreInFlight'
        /\ NothingFromTheFuture'
    <3>1. SignInsAreAttempts'
      BY <2>1, <2>2, <2>3 DEF Inv, SignInsAreAttempts
    <3>2. WaitsAreInFlight'
      BY <2>1, <2>2, <2>3 DEF Inv, WaitsAreInFlight
    <3>3. NothingFromTheFuture'
      BY <2>1, <2>2, <2>3 DEF Inv, NothingFromTheFuture
    <3> QED
      BY <3>1, <3>2, <3>3
  <2>6. RetriesAreNewer'
    BY <2>1, <2>2, <2>3 DEF Inv, RetriesAreNewer, RetryIsNewer
  <2>7. ActedIsOver'
    BY <2>1, <2>2, <2>3 DEF Inv, ActedIsOver
  <2> QED
    BY <2>4, <2>5, <2>6, <2>7 DEF Inv
<1> QED
  BY <1>1, <1>2, <1>3 DEF ClientStep

LEMMA NetworkSteps == ASSUME Inv, NEW c \in Call, NetworkStep(c) PROVE Inv'
<1>0. TypeOK /\ call[c] \in CallState /\ call[c].stage = "sent"
  BY DEF Inv, TypeOK, NetworkStep, Serve, NeverArrives
<1>1. PICK g \in {"accepted", "lost", "unauthorized"} :
        /\ call' = [call EXCEPT ![c].stage = g]
        /\ UNCHANGED <<build, persists, token, tokenRequest, signIns>>
        /\ \/ /\ g # "unauthorized" /\ UNCHANGED refusals
              /\ acts' = [acts EXCEPT ![c] = @ + 1] \/ UNCHANGED acts
           \/ /\ g = "unauthorized" /\ call[c].token # build
              /\ refusals' = [refusals EXCEPT ![c] = @ \cup {build}] /\ UNCHANGED acts
  BY DEF NetworkStep, Serve, NeverArrives
<1>2. /\ call'[c] = [call[c] EXCEPT !.stage = g]
      /\ \A d \in Call : d # c => call'[d] = call[d]
  BY <1>0, <1>1 DEF TypeOK
<1>3. /\ call'[c].stage = g /\ call'[c].attempt = call[c].attempt
      /\ call'[c].waits = call[c].waits /\ call'[c].token = call[c].token
      /\ call'[c] \in CallState
  BY <1>0, <1>2 DEF CallState, Stage
<1>4. /\ \A d \in Call : d # c => refusals'[d] = refusals[d] /\ acts'[d] = acts[d]
      /\ \/ g # "unauthorized" /\ refusals'[c] = refusals[c]
            /\ acts'[c] \in {acts[c], acts[c] + 1}
         \/ /\ g = "unauthorized" /\ call[c].token # build
            /\ refusals'[c] = refusals[c] \cup {build} /\ acts'[c] = acts[c]
  BY <1>0, <1>1 DEF TypeOK
<1>5. TypeOK'
  <2>1. refusals' \in [Call -> SUBSET Build] /\ acts' \in [Call -> Nat]
    BY <1>0, <1>1 DEF TypeOK, Build
  <2>2. call' \in [Call -> CallState]
    BY <1>0, <1>1, <1>2, <1>3 DEF TypeOK
  <2> QED
    BY <1>0, <1>1, <2>1, <2>2 DEF TypeOK
<1>6. SignInsAreAttempts'
  BY <1>0, <1>1, <1>2, <1>3 DEF Inv, SignInsAreAttempts
<1>7. WaitsAreInFlight'
  BY <1>0, <1>1, <1>2, <1>3 DEF Inv, WaitsAreInFlight
<1>8. NothingFromTheFuture'
  BY <1>0, <1>1, <1>2, <1>3, <1>4 DEF Inv, NothingFromTheFuture, TypeOK, Build
<1>9. RetriesAreNewer'
  <2> SUFFICES ASSUME NEW d \in Call PROVE RetryIsNewer(d)'
    BY DEF RetriesAreNewer
  <2>1. CASE d # c
    BY <1>1, <1>2, <1>4, <2>1 DEF Inv, RetriesAreNewer, RetryIsNewer
  <2>2. CASE d = c /\ g # "unauthorized"
    BY <1>0, <1>1, <1>3, <1>4, <2>2 DEF Inv, RetriesAreNewer, RetryIsNewer
  <2>3. CASE d = c /\ g = "unauthorized"
    <3>1. /\ refusals'[c] = refusals[c] \cup {build} /\ call[c].token # build
          /\ call[c].token \in Nat /\ build \in Nat /\ call[c].token <= build
          /\ refusals[c] \subseteq Nat
      BY <1>0, <1>4, <2>3, SignInAssumption
         DEF Inv, NothingFromTheFuture, TypeOK, CallState, Build
    <3>2. call[c].attempt = 2 => \E m, n \in refusals'[c] : m < n
      <4>1. SUFFICES ASSUME call[c].attempt = 2 PROVE \E m \in refusals[c] : m < build
        BY <3>1
      <4>2. PICK m \in refusals[c] : m <= call[c].token
        BY <1>0, <4>1 DEF Inv, RetriesAreNewer, RetryIsNewer
      <4> QED
        BY <3>1, <4>2
    <3>3. \A s \in signIns : s.id = <<c, 2>> /\ s.token # None =>
             \E m \in refusals[c] : m <= s.token
      BY DEF Inv, RetriesAreNewer, RetryIsNewer
    <3> QED
      BY <1>1, <1>3, <2>3, <3>1, <3>2, <3>3 DEF RetryIsNewer
  <2> QED
    BY <2>1, <2>2, <2>3
<1>10. ActedIsOver'
  BY <1>0, <1>1, <1>2, <1>3, <1>4 DEF Inv, ActedIsOver, TypeOK
<1> QED
  BY <1>5, <1>6, <1>7, <1>8, <1>9, <1>10 DEF Inv

LEMMA Issuing == ASSUME Inv, NEW s \in signIns, Issue(s) PROVE Inv'
<1> DEFINE issued == [s EXCEPT !.token = build]
<1>0. TypeOK /\ s \in Issued
  BY DEF Inv, TypeOK
<1>1. /\ signIns' = (signIns \ {s}) \cup {issued}
      /\ UNCHANGED <<build, persists, token, tokenRequest, call, refusals, acts>>
  BY DEF Issue
<1>2. issued \in Issued /\ issued.id = s.id /\ issued.token = build
  BY <1>0 DEF Issued, TypeOK
<1> HIDE DEF issued
<1>3. \A i : (\E t \in signIns : t.id = i) => \E t \in signIns' : t.id = i
  BY <1>1, <1>2
<1>4. TypeOK'
  BY <1>0, <1>1, <1>2 DEF TypeOK
<1>5. SignInsAreAttempts'
  BY <1>1, <1>2 DEF Inv, SignInsAreAttempts
<1>6. WaitsAreInFlight'
  BY <1>1, <1>3 DEF Inv, WaitsAreInFlight
<1>7. NothingFromTheFuture'
  BY <1>0, <1>1, <1>2 DEF Inv, NothingFromTheFuture, TypeOK, Build
<1>8. RetriesAreNewer'
  <2> SUFFICES ASSUME NEW c \in Call PROVE RetryIsNewer(c)'
    BY DEF RetriesAreNewer
  <2>1. s.id = <<c, 2>> => \E m \in refusals[c] : m <= build
    BY DEF Inv, SignInsAreAttempts, NothingFromTheFuture, RetriesAreNewer, RetryIsNewer
  <2> QED
    BY <1>1, <1>2, <2>1 DEF Inv, RetriesAreNewer, RetryIsNewer
<1>9. ActedIsOver'
  BY <1>1 DEF Inv, ActedIsOver
<1> QED
  BY <1>4, <1>5, <1>6, <1>7, <1>8, <1>9 DEF Inv

\* A sign-in leaves; the calls that awaited it become k[c], the rest do not move.
LEMMA Ending ==
    ASSUME Inv, NEW s \in signIns, SignedIn(s) \/ SignInFails(s) PROVE Inv'
<1>0. TypeOK /\ s \in Issued
  BY DEF Inv, TypeOK
<1>1. /\ signIns' = signIns \ {s} /\ tokenRequest' = None
      /\ UNCHANGED <<build, persists, refusals, acts>>
      /\ token' \in {token, s.token, None}
      /\ token' = s.token => s.token # None \/ token' = token
  BY DEF SignedIn, SignInFails
<1>2. ASSUME NEW c \in Call, call[c].waits # s.id
      PROVE  call'[c] = call[c]
  BY <1>2 DEF SignedIn, SignInFails
<1>3. ASSUME NEW c \in Call, call[c].waits = s.id
      PROVE  /\ call'[c] \in CallState /\ call'[c].waits = None
             /\ call'[c].attempt = call[c].attempt
             /\ \/ call'[c].stage = "sent" /\ s.token # None /\ call'[c].token = s.token
                \/ call'[c].stage = "failed" /\ call'[c].token = call[c].token
  <2>0. call[c] \in CallState /\ s.token \in Build \cup {None}
    BY <1>0 DEF TypeOK, Issued
  <2>1. CASE SignedIn(s)
    <3>1. s.token # None /\ call'[c] = Sent(call[c].attempt, s.token)
      BY <1>3, <2>1 DEF SignedIn
    <3>2. call[c].attempt \in Attempt /\ s.token \in Build \cup {None}
      BY <2>0 DEF CallState
    <3> DEFINE k == Sent(call[c].attempt, s.token)
    <3>3. /\ k \in CallState /\ k.waits = None /\ k.attempt = call[c].attempt
          /\ k.stage = "sent" /\ k.token = s.token
      BY <3>2 DEF Sent, CallState, Stage
    <3> QED
      BY <3>1, <3>3
  <2>2. CASE SignInFails(s)
    <3>1. call'[c] = [call[c] EXCEPT !.stage = "failed", !.waits = None]
      BY <1>3, <2>2 DEF SignInFails
    <3> QED
      BY <2>0, <3>1 DEF CallState, Stage
  <2> QED
    BY <2>1, <2>2
<1>4. s.id \in SignInId /\ s.id # None
  BY <1>0, SignInAssumption DEF Issued
<1>5. \A c \in Call : call[c].waits = s.id => call[c].stage = "signing in"
  BY <1>4 DEF Inv, WaitsAreInFlight
<1>6. TypeOK'
  <2>1. call' \in [Call -> CallState]
    <3>1. \A c \in Call : call'[c] \in CallState
      BY <1>0, <1>2, <1>3 DEF TypeOK
    <3>2. call' = [c \in Call |-> call'[c]]
      BY DEF SignedIn, SignInFails
    <3> QED
      BY <3>1, <3>2
  <2>2. token' \in Build \cup {None}
    BY <1>0, <1>1 DEF TypeOK, Issued
  <2> QED
    BY <1>0, <1>1, <2>1, <2>2 DEF TypeOK
<1>7. SignInsAreAttempts'
  <2>1. \A c \in Call : /\ call'[c].attempt = call[c].attempt
                        /\ call'[c].stage = "idle" => call[c].stage = "idle"
    BY <1>2, <1>3
  <2>2. signIns' \subseteq signIns
    BY <1>1
  <2>3. \A p, t \in signIns' : p.id = t.id => p = t
    BY <2>2 DEF Inv, SignInsAreAttempts
  <2>4. ASSUME NEW p \in signIns', NEW c \in Call
        PROVE  /\ p.id = <<c, 1>> => call'[c].stage # "idle"
               /\ p.id = <<c, 2>> => call'[c].attempt = 2
    <3>1. p \in signIns
      BY <2>2
    <3>2. /\ p.id = <<c, 1>> => call[c].stage # "idle"
          /\ p.id = <<c, 2>> => call[c].attempt = 2
      BY <3>1 DEF Inv, SignInsAreAttempts
    <3>3. /\ call'[c].attempt = call[c].attempt
          /\ call'[c].stage = "idle" => call[c].stage = "idle"
      BY <2>1
    <3> QED
      BY <3>2, <3>3
  <2>5. \A c \in Call : call'[c].stage = "idle" => call'[c].attempt = 1
    <3>1. \A c \in Call : call[c].stage = "idle" => call[c].attempt = 1
      BY DEF Inv, SignInsAreAttempts
    <3> QED
      BY <2>1, <3>1
  <2> QED
    BY <2>3, <2>4, <2>5 DEF SignInsAreAttempts
<1>8. WaitsAreInFlight'
  <2>1. ASSUME NEW c \in Call
        PROVE  /\ call'[c].waits # None <=> call'[c].stage = "signing in"
               /\ call'[c].waits # None => \E t \in signIns' : t.id = call'[c].waits
               /\ call'[c].waits # None /\ call'[c].attempt = 2 => call'[c].waits = <<c, 2>>
    <3>1. CASE call[c].waits = s.id
      BY <1>3, <3>1
    <3>2. CASE call[c].waits # s.id
      BY <1>1, <1>2, <3>2 DEF Inv, WaitsAreInFlight
    <3> QED
      BY <3>1, <3>2
  <2> QED
    BY <1>1, <2>1 DEF WaitsAreInFlight
<1>9. NothingFromTheFuture'
  <2>1. s.token # None => s.token <= build
    BY DEF Inv, NothingFromTheFuture
  <2>2. token' # None => token' <= build
    BY <1>1, <2>1 DEF Inv, NothingFromTheFuture
  <2>3. ASSUME NEW c \in Call
        PROVE  /\ call'[c].token # None => call'[c].token <= build
               /\ call'[c].stage = "sent" => call'[c].token # None
               /\ \A m \in refusals[c] : m <= build
    <3>1. CASE call[c].waits = s.id
      BY <1>3, <2>1, <3>1 DEF Inv, NothingFromTheFuture
    <3>2. CASE call[c].waits # s.id
      BY <1>2, <3>2 DEF Inv, NothingFromTheFuture
    <3> QED
      BY <3>1, <3>2
  <2>4. \A t \in signIns' : t.token # None => t.token <= build
    BY <1>1 DEF Inv, NothingFromTheFuture
  <2> QED
    BY <1>1, <2>2, <2>3, <2>4 DEF NothingFromTheFuture
<1>10. RetriesAreNewer'
  <2> SUFFICES ASSUME NEW c \in Call PROVE RetryIsNewer(c)'
    BY DEF RetriesAreNewer
  <2>1. RetryIsNewer(c)
    BY DEF Inv, RetriesAreNewer
  <2>2. CASE call[c].waits = s.id
    <3>1. call[c].attempt = 2 => s.id = <<c, 2>>
      BY <1>4, <2>2 DEF Inv, WaitsAreInFlight
    <3>2. call[c].attempt = 2 /\ s.token # None => \E m \in refusals[c] : m <= s.token
      BY <2>1, <3>1 DEF RetryIsNewer
    <3> QED
      BY <1>1, <1>3, <2>1, <2>2, <3>2 DEF RetryIsNewer
  <2>3. CASE call[c].waits # s.id
    BY <1>1, <1>2, <2>1, <2>3 DEF RetryIsNewer
  <2> QED
    BY <2>2, <2>3
<1>11. ActedIsOver'
  <2>1. ASSUME NEW c \in Call
        PROVE  /\ acts[c] <= 1
               /\ call'[c].stage \notin {"accepted", "lost", "done", "failed"} => acts[c] = 0
    <3>1. CASE call[c].waits = s.id
      BY <1>3, <1>5, <3>1 DEF Inv, ActedIsOver
    <3>2. CASE call[c].waits # s.id
      BY <1>2, <3>2 DEF Inv, ActedIsOver
    <3> QED
      BY <3>1, <3>2
  <2> QED
    BY <1>1, <2>1 DEF ActedIsOver
<1> QED
  BY <1>6, <1>7, <1>8, <1>9, <1>10, <1>11 DEF Inv

LEMMA Restarting == ASSUME Inv, Restart PROVE Inv'
<1>1. TypeOK'
  BY DEF Inv, TypeOK, Restart, Build
<1>2. NothingFromTheFuture'
  <2>1. \A m : m \in Nat /\ m <= build => m <= build'
    BY DEF Inv, TypeOK, Restart, Build
  <2>2. /\ UNCHANGED <<token, signIns, call, refusals>>
        /\ token \in Nat \cup {None}
        /\ \A s \in signIns : s.token \in Nat \cup {None}
        /\ \A c \in Call : call[c].token \in Nat \cup {None} /\ refusals[c] \subseteq Nat
    BY DEF Restart, Inv, TypeOK, Issued, CallState, Build
  <2> QED
    BY <2>1, <2>2 DEF Inv, NothingFromTheFuture
<1>3. SignInsAreAttempts' /\ WaitsAreInFlight' /\ ActedIsOver'
  BY DEF Inv, Restart, SignInsAreAttempts, WaitsAreInFlight, ActedIsOver
<1>4. RetriesAreNewer'
  BY DEF Inv, Restart, RetriesAreNewer, RetryIsNewer
<1> QED
  BY <1>1, <1>2, <1>3, <1>4 DEF Inv

THEOREM InvAlways == Spec => []Inv
<1>1. Inv /\ [Next]_vars => Inv'
  <2> SUFFICES ASSUME Inv, [Next]_vars PROVE Inv'
    OBVIOUS
  <2>1. CASE \E c \in Call : ClientStep(c) \/ NetworkStep(c)
    BY <2>1, ClientSteps, NetworkSteps
  <2>2. CASE \E s \in signIns : SignInStep(s)
    BY <2>2, Issuing, Ending DEF SignInStep
  <2>3. CASE Restart
    BY <2>3, Restarting
  <2>4. CASE UNCHANGED vars
    BY <2>4 DEF vars, Inv, TypeOK, SignInsAreAttempts, WaitsAreInFlight,
                NothingFromTheFuture, RetriesAreNewer, RetryIsNewer, ActedIsOver
  <2> QED
    BY <2>1, <2>2, <2>3, <2>4 DEF Next
<1> QED
  BY <1>1, InvInitially, PTL DEF Spec

-----------------------------------------------------------------------------
(* The theorems.                                                           *)

\* Every state of the token, the sign-ins and the calls has its type.
THEOREM TypeCorrect == Spec => []TypeOK
<1>1. Inv => TypeOK
  BY DEF Inv
<1> QED
  BY <1>1, InvAlways, PTL

\* A call is turned away for good only by two different builds: however stale
\* the token and however many calls share it, one build never refuses twice.
THEOREM RejectedByTwoBuilds == Spec => []RejectedOnlyAcrossRestart
<1>1. Inv => RejectedOnlyAcrossRestart
  BY DEF Inv, RetriesAreNewer, RetryIsNewer, RejectedOnlyAcrossRestart
<1> QED
  BY <1>1, InvAlways, PTL

\* The retry after a 401 never makes the backend act a second time.
THEOREM ActedOnce == Spec => []ActsAtMostOnce
<1>1. Inv => ActsAtMostOnce
  BY DEF Inv, ActedIsOver, ActsAtMostOnce
<1> QED
  BY <1>1, InvAlways, PTL

\* Clearing the shared promise, whichever it is by now, strands no call.
THEOREM NoneStranded == Spec => []NoCallAwaitsNothing
<1>1. Inv => NoCallAwaitsNothing
  BY DEF Inv, WaitsAreInFlight, NoCallAwaitsNothing
<1> QED
  BY <1>1, InvAlways, PTL

-----------------------------------------------------------------------------
(* A burst shares its sign-in.  While nothing has been refused nothing has *)
(* been forgotten, so the shared promise is the one sign-in there is.      *)

NoRefusal == \A c \in Call : refusals[c] = {}

SharedIsTheSignIn == NoRefusal => \A s \in signIns : s.id = tokenRequest

\* A refusal is never taken back.
LEMMA RefusalsGrow ==
    ASSUME TypeOK, [Next]_vars, NoRefusal'
    PROVE  NoRefusal
<1>1. ASSUME NEW c \in Call, NetworkStep(c) PROVE NoRefusal
  BY <1>1 DEF NetworkStep, Serve, NeverArrives, NoRefusal, TypeOK
<1>2. ASSUME NEW c \in Call, ClientStep(c) PROVE UNCHANGED refusals
  BY <1>2 DEF ClientStep, Request, Retry, Settle
<1>3. ASSUME NEW s \in signIns, SignInStep(s) PROVE UNCHANGED refusals
  BY <1>3 DEF SignInStep, Issue, SignedIn, SignInFails
<1>4. CASE Restart \/ UNCHANGED vars
  BY <1>4 DEF Restart, vars, NoRefusal
<1> QED
  BY <1>1, <1>2, <1>3, <1>4 DEF Next, NoRefusal

LEMMA NextSharedIsTheSignIn ==
    ASSUME Inv, SharedIsTheSignIn, [Next]_vars
    PROVE  SharedIsTheSignIn'
<1> SUFFICES ASSUME NoRefusal', NEW t \in signIns' PROVE t.id = tokenRequest'
  BY DEF SharedIsTheSignIn
<1>1. TypeOK /\ NoRefusal /\ \A s \in signIns : s.id = tokenRequest
  BY RefusalsGrow DEF Inv, SharedIsTheSignIn
<1>2. \A s \in signIns : s.id # None
  BY <1>1, SignInAssumption DEF TypeOK, Issued
<1>3. ASSUME NEW c \in Call, Request(c) PROVE t.id = tokenRequest'
  <2>1. CASE signIns' = signIns /\ tokenRequest' = tokenRequest
    BY <1>1, <2>1
  <2>2. CASE /\ tokenRequest = None /\ tokenRequest' = <<c, 1>>
             /\ signIns' = signIns \cup {[id |-> <<c, 1>>, token |-> None]}
    BY <1>1, <1>2, <2>2
  <2> QED
    BY <1>3, <2>1, <2>2 DEF Request, EnsureToken, Shared
<1>4. ASSUME NEW c \in Call, Retry(c) PROVE t.id = tokenRequest'
  <2>1. refusals[c] # {}
    BY <1>4 DEF Retry, Inv, RetriesAreNewer, RetryIsNewer
  <2> QED
    BY <1>1, <2>1 DEF NoRefusal
<1>5. ASSUME NEW c \in Call, Settle(c) \/ NetworkStep(c) PROVE t.id = tokenRequest'
  BY <1>1, <1>5 DEF Settle, NetworkStep, Serve, NeverArrives
<1>6. ASSUME NEW s \in signIns, Issue(s) PROVE t.id = tokenRequest'
  <2>1. s \in Issued
    BY <1>1 DEF TypeOK
  <2>2. [s EXCEPT !.token = build].id = s.id
    BY <2>1 DEF Issued
  <2> QED
    BY <1>1, <1>6, <2>2 DEF Issue
<1>7. ASSUME NEW s \in signIns, SignedIn(s) \/ SignInFails(s)
      PROVE  t.id = tokenRequest'
  <2>1. t \in signIns /\ t # s
    BY <1>7 DEF SignedIn, SignInFails
  <2>2. t.id = s.id
    BY <1>1, <2>1
  <2> QED
    BY <2>1, <2>2 DEF Inv, SignInsAreAttempts
<1>8. CASE Restart \/ UNCHANGED vars
  BY <1>1, <1>8 DEF Restart, vars
<1> QED
  BY <1>3, <1>4, <1>5, <1>6, <1>7, <1>8 DEF Next, ClientStep, SignInStep

\* Until a token is refused, any number of calls, made at whatever moment, has
\* at most one sign-in in flight.
THEOREM BurstsShare == Spec => []BurstSharesSignIn
<1>1. Init => SharedIsTheSignIn
  BY DEF Init, SharedIsTheSignIn
<1>2. Inv /\ SharedIsTheSignIn /\ [Next]_vars => SharedIsTheSignIn'
  BY NextSharedIsTheSignIn
<1>3. Inv /\ SharedIsTheSignIn => BurstSharesSignIn
  <2> SUFFICES ASSUME Inv, SharedIsTheSignIn, NoRefusal PROVE Cardinality(signIns) <= 1
    BY DEF BurstSharesSignIn, NoRefusal
  <2>1. \A s, t \in signIns : s = t
    BY DEF SharedIsTheSignIn, Inv, SignInsAreAttempts
  <2>2. CASE signIns = {}
    BY <2>2, FS_EmptySet
  <2>3. ASSUME NEW s \in signIns PROVE Cardinality(signIns) <= 1
    <3>1. signIns = {s}
      BY <2>1
    <3> QED
      BY <3>1, FS_Singleton
  <2> QED
    BY <2>2, <2>3
<1> QED
  BY <1>1, <1>2, <1>3, InvAlways, PTL DEF Spec
=============================================================================
