---------------------------- MODULE BrokerSession ----------------------------
(***************************************************************************)
(* The one Tradovate session of a process, and the supervisor that keeps   *)
(* it.  Every TradovateBroker instance shares a token, a circuit breaker   *)
(* and a lock (execution/tradovate_broker.py); the supervisor              *)
(* (execution/tradovate_supervisor.py) authenticates every minute, reads   *)
(* the account now and then, and opens the gate that entries ask.  Other   *)
(* instances authenticate before their own calls, and the preflight runs   *)
(* the same heartbeat.                                                     *)
(*                                                                         *)
(* The broker may be out of reach, limit the rate, reject the login, or    *)
(* drop the session.  A minute is the unit of time; a call outlasts at     *)
(* most one, since every request times out in seconds.                     *)
(***************************************************************************)
EXTENDS Integers

CONSTANTS
  Others,      \* the instances besides the supervisor's
  None,        \* nobody, no token
  Life,        \* minutes a new token lasts (90 in practice)
  Buffer,      \* token_refresh_buffer (15)
  MaxFails,    \* _AUTH_MAX_FAILURES (3)
  Cooldown,    \* _AUTH_COOLDOWN_SECONDS (15)
  RetryAfter,  \* what a rate-limited answer asks for
  Every,       \* HEARTBEAT_INTERVAL_SECONDS (5)
  Freshness,   \* HEARTBEAT_FRESH_SECONDS (6)
  MaxDrops     \* bound on sessions the broker drops

Sup   == "supervisor"
Users == Others \cup {Sup}

ASSUME UserAssumption == None \notin Users /\ Sup \notin Others
ASSUME TimeAssumption ==
  /\ {Life, Buffer, MaxFails, Cooldown, RetryAfter, Every, Freshness, MaxDrops} \subseteq Nat
  /\ Buffer < Life /\ None \notin 0..Life /\ MaxFails > 0 /\ Every <= Freshness

VARIABLES
  \* the broker and the market
  reach,      \* it answers: neither out of reach nor limiting the rate
  accepts,    \* it accepts the credentials
  live,       \* it honours the shared token
  drops,      \* sessions dropped
  active,     \* the futures session is open
  \* _SharedAuth
  left,       \* minutes to the token's expiry, as stored; None without a token
  fails, cooldown, lock,
  \* the instances
  at,         \* where each one is in its call
  goal,       \* authenticate, or authenticate and read the account
  bound,      \* its header carries a token of the current session
  late,       \* a minute passed since it started; idle, since it finished
  \* ReliabilitySnapshot
  state, age, wait, seenActive,
  wasActive,  \* market_active, as read at the start of the step
  \* history
  answered    \* minutes since the broker answered the supervisor's heartbeat

broker   == <<reach, accepts, live, drops, active>>
auth     == <<left, fails, cooldown, lock>>
calls    == <<at, goal, bound, late>>
snapshot == <<state, age, wait, seenActive, wasActive>>
vars     == <<broker, auth, calls, snapshot, answered>>

\* Ages are not told apart beyond this.
Old == Freshness + 1

Init ==
  /\ reach = TRUE /\ accepts = TRUE /\ live = FALSE /\ drops = 0 /\ active = FALSE
  /\ left = None /\ fails = 0 /\ cooldown = 0 /\ lock = None
  /\ at = [u \in Users |-> "idle"] /\ goal = [u \in Users |-> "auth"]
  /\ bound = [u \in Users |-> FALSE] /\ late = [u \in Users |-> FALSE]
  /\ state = "STARTING" /\ age = Old /\ wait = 0 /\ seenActive = FALSE /\ wasActive = FALSE
  /\ answered = Old

(***************************************************************************)
(* The gate.                                                               *)
(***************************************************************************)
OrderReady == state = "HEALTHY" /\ age <= Freshness

HeartbeatDue ==
  \/ state = "STARTING"
  \/ seenActive /\ (~wasActive \/ state # "HEALTHY" \/ age >= Every)

MarkHealthy ==
  /\ state' = "HEALTHY" /\ age' = (IF late[Sup] THEN 1 ELSE 0) /\ wait' = 0
  /\ UNCHANGED <<seenActive, wasActive>>

MarkFailure(result) ==
  /\ state' = (IF result \in {"rejected", "cooldown"} THEN "ACTION_REQUIRED" ELSE "DEGRADED")
  /\ wait' = CASE result = "limited" -> RetryAfter [] result = "cooldown" -> cooldown [] OTHER -> 0
  /\ UNCHANGED <<age, seenActive, wasActive>>

(***************************************************************************)
(* How a call goes on and ends.                                            *)
(***************************************************************************)
Goes(u, where) == at' = [at EXCEPT ![u] = where] /\ UNCHANGED <<goal, late>>

Ends(u) ==
  /\ at' = [at EXCEPT ![u] = "idle"] /\ late' = [late EXCEPT ![u] = u # Sup]
  /\ UNCHANGED goal

\* A call that failed: the supervisor's step ends with it.
Fails(u, result) ==
  /\ Ends(u) /\ IF u = Sup THEN MarkFailure(result) ELSE UNCHANGED snapshot

Outage(u) == \E result \in {"down", "limited"} : Fails(u, result)

\* Mutant: a token that authenticates is taken for a healthy broker.
AuthIsHealthy(u) ==
  \/ goal[u] = "heart" /\ Goes(u, "heart") /\ UNCHANGED snapshot
  \/ /\ goal[u] = "auth" /\ Ends(u)
     /\ IF u = Sup THEN MarkHealthy ELSE UNCHANGED snapshot
\* authenticate_result was healthy: the supervisor goes on to its heartbeat,
\* which authenticates again.
Authenticated(u) ==
  /\ UNCHANGED snapshot
  /\ \/ goal[u] = "heart" /\ Goes(u, "heart")
     \/ /\ goal[u] = "auth" /\ u = Sup /\ HeartbeatDue
        /\ at' = [at EXCEPT ![u] = "lock"] /\ goal' = [goal EXCEPT ![u] = "heart"]
        /\ UNCHANGED late
     \/ goal[u] = "auth" /\ ~(u = Sup /\ HeartbeatDue) /\ Ends(u)

(***************************************************************************)
(* authenticate_result, under the lock.                                    *)
(***************************************************************************)
\* Mutant: the lock does not exclude the other instances.
AnyoneEnters(u) == at[u] = "lock"
Enters(u) == at[u] = "lock" /\ lock = None

Valid == left # None /\ left > Buffer

\* A valid token is used as it is.
UseToken(u) ==
  /\ Enters(u) /\ Valid
  /\ bound' = [bound EXCEPT ![u] = TRUE] /\ Authenticated(u)
  /\ UNCHANGED <<broker, auth, answered>>

\* The breaker holds calls back.
HeldBack(u) ==
  /\ Enters(u) /\ ~Valid /\ cooldown > 0
  /\ Fails(u, "cooldown")
  /\ UNCHANGED <<broker, auth, bound, answered>>

\* Mutant: the breaker is not asked.
AskAnyway(u) ==
  /\ Enters(u) /\ ~Valid
  /\ lock' = u /\ Goes(u, IF left = None THEN "login" ELSE "renew")
  /\ UNCHANGED <<broker, left, fails, cooldown, bound, snapshot, answered>>
Ask(u) ==
  /\ Enters(u) /\ ~Valid /\ cooldown = 0
  /\ lock' = u /\ Goes(u, IF left = None THEN "login" ELSE "renew")
  /\ UNCHANGED <<broker, left, fails, cooldown, bound, snapshot, answered>>

NewToken(u) ==
  /\ left' = Life /\ fails' = 0 /\ cooldown' = 0 /\ lock' = None /\ Authenticated(u)
  /\ UNCHANGED answered

\* A renewal keeps the session, and every header that carries it.
Renews(u) ==
  /\ at[u] = "renew" /\ reach /\ live
  /\ NewToken(u) /\ bound' = [bound EXCEPT ![u] = TRUE]
  /\ UNCHANGED broker

\* Mutant: a refused renewal ends the call.
NoLoginAfterRefusal(u) ==
  /\ at[u] = "renew" /\ reach /\ ~live
  /\ lock' = None /\ Fails(u, "invalid")
  /\ UNCHANGED <<broker, left, fails, cooldown, bound, answered>>
\* Only an answer that the token is invalid leads on to a login.
RenewalRefused(u) ==
  /\ at[u] = "renew" /\ reach /\ ~live
  /\ Goes(u, "login")
  /\ UNCHANGED <<broker, auth, bound, snapshot, answered>>

\* Mutant: any renewal that fails leads on to a login.
LoginAfterOutage(u) ==
  /\ at[u] = "renew" /\ ~reach
  /\ Goes(u, "login")
  /\ UNCHANGED <<broker, auth, bound, snapshot, answered>>
RenewalFails(u) ==
  /\ at[u] = "renew" /\ ~reach
  /\ lock' = None /\ Outage(u)
  /\ UNCHANGED <<broker, left, fails, cooldown, bound, answered>>

\* A login opens a session: the headers of the dead one stay behind.
LogsIn(u) ==
  /\ at[u] = "login" /\ reach /\ accepts
  /\ live' = TRUE /\ NewToken(u) /\ bound' = [v \in Users |-> v = u]
  /\ UNCHANGED <<reach, accepts, drops, active>>

\* Only a rejection counts for the breaker.
LoginRejected(u) ==
  /\ at[u] = "login" /\ reach /\ ~accepts
  /\ fails' = (IF fails < MaxFails THEN fails + 1 ELSE fails)
  /\ cooldown' = (IF fails' = MaxFails THEN Cooldown ELSE cooldown)
  /\ lock' = None /\ Fails(u, "rejected") /\ bound' = [bound EXCEPT ![u] = FALSE]
  /\ UNCHANGED <<broker, left, answered>>

LoginFails(u) ==
  /\ at[u] = "login" /\ ~reach
  /\ lock' = None /\ Outage(u) /\ bound' = [bound EXCEPT ![u] = FALSE]
  /\ UNCHANGED <<broker, left, fails, cooldown, answered>>

(***************************************************************************)
(* reliability_heartbeat, without the lock.                                *)
(***************************************************************************)
HeartAnswers(u) ==
  /\ at[u] = "heart" /\ reach /\ live /\ bound[u]
  /\ Ends(u)
  /\ IF u = Sup THEN MarkHealthy /\ answered' = 0 ELSE UNCHANGED <<snapshot, answered>>
  /\ UNCHANGED <<broker, auth, bound>>

\* Whatever token is shared by now is marked expired.
HeartRefused(u) ==
  /\ at[u] = "heart" /\ reach /\ ~(live /\ bound[u])
  /\ left' = (IF left = None THEN None ELSE 0) /\ Fails(u, "invalid")
  /\ UNCHANGED <<broker, fails, cooldown, lock, bound, answered>>

HeartFails(u) ==
  /\ at[u] = "heart" /\ ~reach
  /\ Outage(u)
  /\ UNCHANGED <<broker, auth, bound, answered>>

Call(u) ==
  \/ UseToken(u) \/ HeldBack(u) \/ Ask(u) \/ Renews(u) \/ RenewalRefused(u) \/ RenewalFails(u)
  \/ LogsIn(u) \/ LoginRejected(u) \/ LoginFails(u)
  \/ HeartAnswers(u) \/ HeartRefused(u) \/ HeartFails(u)

(***************************************************************************)
(* The supervisor's loop, the other callers, the broker and time.          *)
(***************************************************************************)
Starts(u, aim) ==
  /\ at' = [at EXCEPT ![u] = "lock"] /\ goal' = [goal EXCEPT ![u] = aim]
  /\ late' = [late EXCEPT ![u] = FALSE]

\* One minute after the last step; a wait the broker asked for is kept.
SupervisorStep ==
  /\ at[Sup] = "idle" /\ late[Sup]
  /\ wasActive' = seenActive /\ seenActive' = active
  /\ IF wait > 0 THEN late' = [late EXCEPT ![Sup] = FALSE] /\ UNCHANGED <<at, goal>>
                 ELSE Starts(Sup, "auth")
  /\ UNCHANGED <<broker, auth, bound, state, age, wait, answered>>

OtherCall(u, aim) ==
  /\ u \in Others /\ at[u] = "idle" /\ ~late[u] /\ Starts(u, aim)
  /\ UNCHANGED <<broker, auth, bound, snapshot, answered>>

Weather ==
  /\ reach' \in BOOLEAN /\ accepts' \in BOOLEAN /\ active' \in BOOLEAN
  /\ UNCHANGED <<live, drops, auth, calls, snapshot, answered>>

\* Another login evicts the session.
Dropped ==
  /\ live /\ drops < MaxDrops
  /\ live' = FALSE /\ drops' = drops + 1
  /\ UNCHANGED <<reach, accepts, active, auth, calls, snapshot, answered>>

\* Mutant: a wait that is over goes on.
PastZero(n) == n - 1
Less(n) == IF n > 0 THEN n - 1 ELSE 0
Older(n) == IF n < Old THEN n + 1 ELSE n

\* No call outlasts two minutes, and the supervisor sleeps one.
Minute ==
  /\ \A u \in Users : at[u] # "idle" \/ u = Sup => ~late[u]
  /\ late' = [u \in Users |-> at[u] # "idle" \/ u = Sup]
  /\ left' = (IF left = None THEN None ELSE Less(left))
  /\ live' = (live /\ left # 1)
  /\ cooldown' = Less(cooldown) /\ wait' = Less(wait)
  /\ age' = Older(age) /\ answered' = Older(answered)
  /\ UNCHANGED <<reach, accepts, drops, active, fails, lock, at, goal, bound,
                 state, seenActive, wasActive>>

Next ==
  \/ \E u \in Users : Call(u)
  \/ SupervisorStep \/ Weather \/ Dropped \/ Minute
  \/ \E u \in Others, aim \in {"auth", "heart"} : OtherCall(u, aim)

\* Threads run, requests time out and the event loop wakes the supervisor.
Fairness == WF_vars(SupervisorStep) /\ WF_vars(Minute) /\ \A u \in Users : WF_vars(Call(u))

Spec == Init /\ [][Next]_vars /\ Fairness

(***************************************************************************)
(* Properties.                                                             *)
(***************************************************************************)
TypeOK ==
  /\ {reach, accepts, live, active} \subseteq BOOLEAN
  /\ drops \in 0..MaxDrops
  /\ left \in {None} \cup 0..Life /\ fails \in 0..MaxFails /\ cooldown \in 0..Cooldown
  /\ lock \in Users \cup {None}
  /\ at \in [Users -> {"idle", "lock", "renew", "login", "heart"}]
  /\ goal \in [Users -> {"auth", "heart"}] /\ {bound, late} \subseteq [Users -> BOOLEAN]
  /\ state \in {"STARTING", "HEALTHY", "DEGRADED", "ACTION_REQUIRED"}
  /\ age \in 0..Old /\ wait \in 0..(IF RetryAfter > Cooldown THEN RetryAfter ELSE Cooldown)
  /\ {seenActive, wasActive} \subseteq BOOLEAN /\ answered \in 0..Old

\* No session is opened while the broker still honours the shared one, whoever
\* else renews, logs in or marks the token at the same time.
NoNeedlessSession == \A u \in Users : at[u] = "login" => ~live

\* No login and no renewal is asked for while the breaker holds calls back.
BreakerHolds == \A u \in Users : at[u] \in {"renew", "login"} => cooldown = 0

\* The gate is open only while the broker's answer to the whole heartbeat is
\* recent, whatever outage, eviction or closed market came in between.
GateIsBacked == OrderReady => answered <= Freshness

\* Once the broker can be reached, accepts the login and drops nothing more, in
\* an open market, the gate opens again and again.
GateReopens ==
  <>[](reach /\ accepts /\ active) => []<>OrderReady
=============================================================================
