------------------------------- MODULE SignIn -------------------------------
(***************************************************************************)
(* The token of the merchant's browser: ensureToken, forgetToken and       *)
(* request of api/client.ts against the sign-in route and the bearer check *)
(* of api/v1/auth.py.                                                      *)
(*                                                                         *)
(* Any number of calls run at once.  They share the token in local storage *)
(* and the promise of a sign-in in flight; a call refused with 401 drops   *)
(* both, signs in again and is retried once.  A backend recognises the     *)
(* tokens of its own build; a restart may replace the build.               *)
(***************************************************************************)
EXTENDS Naturals, FiniteSets

CONSTANTS
    Call,           \* the calls of a session
    MaxRestarts,    \* bound on restarts that replace the build
    None            \* the absent value

\* A sign-in is named by the call and the attempt that started it.
Attempt == {1, 2}
SignInId == Call \X Attempt
Build == Nat

VARIABLES
    build,          \* backend: the build whose tokens it recognises
    persists,       \* local storage works (it does not in private browsing)
    token,          \* the stored token, by the build that issued it
    tokenRequest,   \* the sign-in whose promise calls share
    signIns,        \* sign-ins in flight, with the token once it is issued
    call,           \* each call of the session
    refusals,       \* history: the builds that refused each call
    acts            \* history: how often the backend acted on each call

vars == <<build, persists, token, tokenRequest, signIns, call, refusals, acts>>

-----------------------------------------------------------------------------
Stage == {"idle", "signing in", "sent", "accepted", "unauthorized", "lost",
          "done", "rejected", "failed"}
CallState == [stage : Stage, attempt : Attempt, waits : SignInId \cup {None},
              token : Build \cup {None}]
Issued == [id : SignInId, token : Build \cup {None}]

ASSUME SignInAssumption ==
    /\ MaxRestarts \in Nat
    /\ None \notin Build
    /\ None \notin SignInId

TypeOK ==
    /\ build \in Build
    /\ persists \in BOOLEAN
    /\ token \in Build \cup {None}
    /\ tokenRequest \in SignInId \cup {None}
    /\ signIns \subseteq Issued
    /\ call \in [Call -> CallState]
    /\ refusals \in [Call -> SUBSET Build]
    /\ acts \in [Call -> Nat]

Idle == [stage |-> "idle", attempt |-> 1, waits |-> None, token |-> None]

\* The browser may still hold the token of an earlier build.
Init ==
    /\ build = 1
    /\ persists \in BOOLEAN
    /\ token \in IF persists THEN {None, 0, 1} ELSE {None}
    /\ tokenRequest = None
    /\ signIns = {}
    /\ call = [c \in Call |-> Idle]
    /\ refusals = [c \in Call |-> {}]
    /\ acts = [c \in Call |-> 0]

-----------------------------------------------------------------------------
(* The client.                                                             *)

Sent(n, t) == [stage |-> "sent", attempt |-> n, waits |-> None, token |-> t]
Waiting(n, s) == [stage |-> "signing in", attempt |-> n, waits |-> s, token |-> None]

\* ensureToken, for attempt n of call c: the stored token, or the sign-in that
\* is already shared, or one of its own.
EnsureToken(c, n, stored, shared) ==
    \/ /\ stored # None
       /\ token' = stored /\ tokenRequest' = shared
       /\ call' = [call EXCEPT ![c] = Sent(n, stored)]
       /\ UNCHANGED signIns
    \/ /\ stored = None /\ shared # None
       /\ token' = None /\ tokenRequest' = shared
       /\ call' = [call EXCEPT ![c] = Waiting(n, shared)]
       /\ UNCHANGED signIns
    \/ /\ stored = None /\ shared = None
       /\ token' = None /\ tokenRequest' = <<c, n>>
       /\ call' = [call EXCEPT ![c] = Waiting(n, <<c, n>>)]
       /\ signIns' = signIns \cup {[id |-> <<c, n>>, token |-> None]}

SharedNever == None

Shared == tokenRequest

Request(c) ==
    /\ call[c].stage = "idle"
    /\ EnsureToken(c, 1, token, Shared)
    /\ UNCHANGED <<build, persists, refusals, acts>>

SignedInForOwner(s) ==
    /\ s \in signIns /\ s.token # None
    /\ signIns' = signIns \ {s}
    /\ token' = IF persists THEN s.token ELSE None
    /\ tokenRequest' = None
    /\ call' = [call EXCEPT ![s.id[1]] = Sent(s.id[2], s.token)]
    /\ UNCHANGED <<build, persists, refusals, acts>>

\* The sign-in settles: its token is stored, the shared promise is cleared,
\* whichever it is by now, and every call that awaited it is sent.
SignedIn(s) ==
    /\ s \in signIns /\ s.token # None
    /\ signIns' = signIns \ {s}
    /\ token' = IF persists THEN s.token ELSE None
    /\ tokenRequest' = None
    /\ call' = [c \in Call |->
                  IF call[c].waits = s.id THEN Sent(call[c].attempt, s.token) ELSE call[c]]
    /\ UNCHANGED <<build, persists, refusals, acts>>

SignInFailsQuietly(s) ==
    /\ s \in signIns
    /\ signIns' = signIns \ {s}
    /\ tokenRequest' = None
    /\ UNCHANGED <<build, persists, token, call, refusals, acts>>

SignInFails(s) ==
    /\ s \in signIns
    /\ signIns' = signIns \ {s}
    /\ tokenRequest' = None
    /\ call' = [c \in Call |->
                  IF call[c].waits = s.id
                    THEN [call[c] EXCEPT !.stage = "failed", !.waits = None]
                    ELSE call[c]]
    /\ UNCHANGED <<build, persists, token, refusals, acts>>

ForgottenTokenOnly == tokenRequest

\* forgetToken leaves nothing to share.
Forgotten == None

RetryAgain(c) ==
    /\ call[c].stage = "unauthorized"
    /\ EnsureToken(c, call[c].attempt + 1, None, Forgotten)
    /\ UNCHANGED <<build, persists, refusals, acts>>

RetryAnyFailure(c) ==
    /\ call[c].stage \in {"unauthorized", "lost"} /\ call[c].attempt = 1
    /\ EnsureToken(c, 2, None, Forgotten)
    /\ UNCHANGED <<build, persists, refusals, acts>>

\* The first 401: forget the token, whoever stored it, and try once more.
Retry(c) ==
    /\ call[c].stage = "unauthorized" /\ call[c].attempt = 1
    /\ EnsureToken(c, 2, None, Forgotten)
    /\ UNCHANGED <<build, persists, refusals, acts>>

Settle(c) ==
    /\ \/ call[c].stage = "accepted" /\ call' = [call EXCEPT ![c].stage = "done"]
       \/ call[c].stage = "lost" /\ call' = [call EXCEPT ![c].stage = "failed"]
       \/ /\ call[c].stage = "unauthorized" /\ call[c].attempt = 2
          /\ call' = [call EXCEPT ![c].stage = "rejected"]
    /\ UNCHANGED <<build, persists, token, tokenRequest, signIns, refusals, acts>>

-----------------------------------------------------------------------------
(* The backend and the network.                                            *)

Issue(s) ==
    /\ s \in signIns /\ s.token = None
    /\ signIns' = (signIns \ {s}) \cup {[s EXCEPT !.token = build]}
    /\ UNCHANGED <<build, persists, token, tokenRequest, call, refusals, acts>>

\* The bearer check, and the act it admits; the answer to it may be lost.
Serve(c) ==
    /\ call[c].stage = "sent"
    /\ \/ /\ call[c].token = build
          /\ acts' = [acts EXCEPT ![c] = @ + 1]
          /\ \E answer \in {"accepted", "lost"} : call' = [call EXCEPT ![c].stage = answer]
          /\ UNCHANGED refusals
       \/ /\ call[c].token # build
          /\ refusals' = [refusals EXCEPT ![c] = @ \cup {build}]
          /\ call' = [call EXCEPT ![c].stage = "unauthorized"]
          /\ UNCHANGED acts
    /\ UNCHANGED <<build, persists, token, tokenRequest, signIns>>

NeverArrives(c) ==
    /\ call[c].stage = "sent"
    /\ call' = [call EXCEPT ![c].stage = "lost"]
    /\ UNCHANGED <<build, persists, token, tokenRequest, signIns, refusals, acts>>

Restart ==
    /\ build <= MaxRestarts
    /\ build' = build + 1
    /\ UNCHANGED <<persists, token, tokenRequest, signIns, call, refusals, acts>>

ClientStep(c) == Request(c) \/ Retry(c) \/ Settle(c)
NetworkStep(c) == Serve(c) \/ NeverArrives(c)
SignInStep(s) == Issue(s) \/ SignedIn(s) \/ SignInFails(s)

Next ==
    \/ \E c \in Call : ClientStep(c) \/ NetworkStep(c)
    \/ \E s \in signIns : SignInStep(s)
    \/ Restart

Spec == Init /\ [][Next]_vars

\* The browser settles every fetch and runs every continuation.
Fairness ==
    /\ \A c \in Call : WF_vars(Retry(c) \/ Settle(c) \/ NetworkStep(c))
    /\ \A i \in SignInId : WF_vars(\E s \in signIns : s.id = i /\ SignInStep(s))

FairSpec == Spec /\ Fairness

-----------------------------------------------------------------------------
(* Properties.                                                             *)

\* A call is turned away for good only when the backend was replaced between
\* its two refusals: a stale token, a burst of refusals or another call's late
\* sign-in never costs a call its one retry.
RejectedOnlyAcrossRestart ==
    \A c \in Call :
        call[c].stage = "rejected" => \E m, n \in refusals[c] : m < n

\* However often it is retried, the backend acts on a call at most once.
ActsAtMostOnce == \A c \in Call : acts[c] <= 1

\* Until a token is refused, a burst of calls shares one sign-in.
BurstSharesSignIn ==
    (\A c \in Call : refusals[c] = {}) => Cardinality(signIns) <= 1

\* No call awaits a sign-in that is not in flight.
NoCallAwaitsNothing ==
    \A c \in Call :
        call[c].stage = "signing in" => \E s \in signIns : s.id = call[c].waits

\* Every call that was made settles.
CallsSettle ==
    \A c \in Call :
        call[c].stage # "idle" ~> call[c].stage \in {"done", "rejected", "failed"}
=============================================================================
