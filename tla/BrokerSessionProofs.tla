------------------------- MODULE BrokerSessionProofs -------------------------
(***************************************************************************)
(* Proofs about BrokerSession, for any other instances, any times and any  *)
(* number of dropped sessions.                                             *)
(***************************************************************************)
EXTENDS BrokerSession, TLAPS

\* Whoever asks the broker for a token holds the lock.
AskerHoldsLock == \A u \in Users : at[u] \in {"renew", "login"} => lock = u

\* A session the broker honours left a token behind.
LiveLeavesToken == live => left # None

\* A healthy snapshot is no younger than the answer it stands for.
HealthyIsBacked == state = "HEALTHY" => answered <= age

AuthInv == AskerHoldsLock /\ LiveLeavesToken /\ NoNeedlessSession /\ BreakerHolds

\* TypeOK by the part of the state it is about.
Instants == {"idle", "lock", "renew", "login", "heart"}
Flags == /\ reach \in BOOLEAN /\ accepts \in BOOLEAN /\ live \in BOOLEAN /\ active \in BOOLEAN
         /\ seenActive \in BOOLEAN /\ wasActive \in BOOLEAN
AuthTyped == /\ left \in {None} \cup 0..Life /\ fails \in 0..MaxFails
             /\ cooldown \in 0..Cooldown /\ lock \in Users \cup {None}
CallsTyped == at \in [Users -> Instants] /\ goal \in [Users -> {"auth", "heart"}]
MarksTyped == bound \in [Users -> BOOLEAN] /\ late \in [Users -> BOOLEAN]
LongestWait == IF RetryAfter > Cooldown THEN RetryAfter ELSE Cooldown
States == {"STARTING", "HEALTHY", "DEGRADED", "ACTION_REQUIRED"}
SnapshotTyped == state \in States /\ age \in 0..Old /\ wait \in 0..LongestWait
CountsTyped == drops \in 0..MaxDrops /\ answered \in 0..Old
Typed == Flags /\ AuthTyped /\ CallsTyped /\ MarksTyped /\ SnapshotTyped /\ CountsTyped

SessionInv == Typed /\ AuthInv /\ HealthyIsBacked

LEMMA TimeFacts == /\ Life \in Nat /\ Buffer \in Nat /\ MaxFails \in Nat /\ Cooldown \in Nat
                   /\ RetryAfter \in Nat /\ Every \in Nat /\ Freshness \in Nat /\ MaxDrops \in Nat
                   /\ MaxFails > 0 /\ Every <= Freshness /\ None \notin 0..Life
                   /\ Old \in Nat /\ Old > Freshness
BY TimeAssumption DEF Old

LEMMA Names == Sup \in Users /\ None \notin Users
BY UserAssumption DEF Users

LEMMA TypedIsTypeOK == Typed <=> TypeOK
<1>1. TypeOK <=> /\ Flags /\ MarksTyped
                 /\ AuthTyped /\ CallsTyped /\ SnapshotTyped /\ CountsTyped
  BY Zenon DEF TypeOK, Flags, AuthTyped, CallsTyped, MarksTyped, SnapshotTyped, CountsTyped,
               Instants, LongestWait, States
<1> QED
  BY <1>1, Zenon DEF Typed

LEMMA InitHolds == Init => SessionInv
<1> SUFFICES ASSUME Init PROVE SessionInv
  OBVIOUS
<1>1. Flags
  BY Zenon DEF Init, Flags
<1>2. MarksTyped /\ CallsTyped
  BY DEF Init, MarksTyped, CallsTyped, Instants
<1>3. AuthTyped
  BY TimeFacts DEF Init, AuthTyped
<1>4. SnapshotTyped
  <2>1. age = Old /\ wait = 0 /\ state = "STARTING"
    BY Zenon DEF Init
  <2> QED
    BY <2>1, TimeFacts DEF SnapshotTyped, LongestWait, States
<1>5. CountsTyped
  BY TimeFacts DEF Init, CountsTyped
<1>6. AuthInv
  BY DEF Init, AuthInv, AskerHoldsLock, LiveLeavesToken, NoNeedlessSession, BreakerHolds
<1>7. HealthyIsBacked
  BY DEF Init, HealthyIsBacked
<1> QED
  BY <1>1, <1>2, <1>3, <1>4, <1>5, <1>6, <1>7 DEF SessionInv, Typed

Results == {"down", "limited", "rejected", "cooldown", "invalid"}

\* A call that fails ends, and never makes the snapshot healthy.
LEMMA FailsEffect ==
  ASSUME Typed, NEW u \in Users, NEW r \in Results, Fails(u, r)
  PROVE  /\ CallsTyped' /\ late' \in [Users -> BOOLEAN] /\ SnapshotTyped'
         /\ at' = [at EXCEPT ![u] = "idle"]
         /\ UNCHANGED <<age, seenActive, wasActive>>
         /\ state' = "HEALTHY" => state = "HEALTHY"
<1>1. Ends(u) /\ (MarkFailure(r) \/ UNCHANGED snapshot)
  BY Zenon DEF Fails
<1>2. CallsTyped' /\ at' = [at EXCEPT ![u] = "idle"]
  BY <1>1 DEF Ends, Typed, CallsTyped, Instants
<1>3. late' \in [Users -> BOOLEAN]
  <2>1. (u # Sup) \in BOOLEAN
    OBVIOUS
  <2>2. late' = [late EXCEPT ![u] = u # Sup] /\ late \in [Users -> BOOLEAN]
    BY <1>1, Zenon DEF Ends, Typed, MarksTyped
  <2> QED
    BY <2>1, <2>2, Zenon
<1>4. CASE UNCHANGED snapshot
  BY <1>2, <1>3, <1>4 DEF snapshot, Typed, SnapshotTyped
<1>5. CASE MarkFailure(r)
  <2>1. state' \in {"ACTION_REQUIRED", "DEGRADED"}
    BY <1>5, Zenon DEF MarkFailure
  <2>2. wait' \in 0..LongestWait
    <3>1. wait' \in {RetryAfter, cooldown, 0}
      BY <1>5, Zenon DEF MarkFailure, Results
    <3> QED
      BY <3>1, TimeFacts DEF Typed, AuthTyped, LongestWait
  <2>3. UNCHANGED <<age, seenActive, wasActive>>
    BY <1>5, Zenon DEF MarkFailure
  <2> QED
    BY <1>2, <1>3, <2>1, <2>2, <2>3 DEF Typed, SnapshotTyped, States
<1> QED
  BY <1>1, <1>4, <1>5, Zenon

LEMMA OutageEffect ==
  ASSUME Typed, NEW u \in Users, Outage(u)
  PROVE  /\ CallsTyped' /\ late' \in [Users -> BOOLEAN] /\ SnapshotTyped'
         /\ at' = [at EXCEPT ![u] = "idle"]
         /\ UNCHANGED <<age, seenActive, wasActive>>
         /\ state' = "HEALTHY" => state = "HEALTHY"
<1>1. PICK r \in {"down", "limited"} : Fails(u, r)
  BY Zenon DEF Outage
<1>2. r \in Results
  BY <1>1, Zenon DEF Results
<1> QED
  BY <1>1, <1>2, FailsEffect, Zenon

\* A caller that is authenticated asks no more.
LEMMA AuthenticatedEffect ==
  ASSUME Typed, NEW u \in Users, Authenticated(u)
  PROVE  /\ CallsTyped' /\ late' \in [Users -> BOOLEAN]
         /\ UNCHANGED snapshot
         /\ \E w \in {"idle", "lock", "heart"} : at' = [at EXCEPT ![u] = w]
<1>1. (u # Sup) \in BOOLEAN /\ late \in [Users -> BOOLEAN]
  BY Zenon DEF Typed, MarksTyped
<1>2. UNCHANGED snapshot
  BY Zenon DEF Authenticated
<1>3. CASE Goes(u, "heart")
  BY <1>1, <1>2, <1>3 DEF Goes, Typed, CallsTyped, Instants
<1>4. CASE /\ at' = [at EXCEPT ![u] = "lock"] /\ goal' = [goal EXCEPT ![u] = "heart"]
           /\ UNCHANGED late
  BY <1>1, <1>2, <1>4 DEF Typed, CallsTyped, Instants
<1>5. CASE Ends(u)
  <2>1. late' = [late EXCEPT ![u] = u # Sup]
    BY <1>5, Zenon DEF Ends
  <2>2. late' \in [Users -> BOOLEAN]
    BY <1>1, <2>1, Zenon
  <2>3. CallsTyped' /\ at' = [at EXCEPT ![u] = "idle"]
    BY <1>5 DEF Ends, Typed, CallsTyped, Instants
  <2> QED
    BY <1>2, <2>2, <2>3, Zenon
<1> QED
  BY <1>3, <1>4, <1>5, Zenon DEF Authenticated

\* A step after which u asks for nothing keeps what is known of the others.
LEMMA AsksNoMore ==
  ASSUME Typed, AuthInv, NEW u \in Users, NEW w \in {"idle", "lock", "heart"},
         at' = [at EXCEPT ![u] = w]
  PROVE  \A v \in Users : at'[v] \in {"renew", "login"} => v # u /\ at'[v] = at[v] /\ lock = v
BY DEF Typed, CallsTyped, AuthInv, AskerHoldsLock

LEMMA KeepsAuthInv ==
  ASSUME Typed, AuthInv, NEW u \in Users, NEW w \in {"idle", "lock", "heart"},
         at' = [at EXCEPT ![u] = w],
         lock' = lock \/ lock = u, cooldown' = cooldown \/ lock = u, live' = live \/ lock = u,
         live' => left' # None
  PROVE  AuthInv'
<1>1. \A v \in Users : at'[v] \in {"renew", "login"} =>
        v # u /\ at'[v] = at[v] /\ lock = v /\ lock' = lock /\ cooldown' = cooldown /\ live' = live
  BY AsksNoMore
<1>2. AskerHoldsLock' /\ LiveLeavesToken'
  BY <1>1, Zenon DEF AskerHoldsLock, LiveLeavesToken
<1>3. NoNeedlessSession' /\ BreakerHolds'
  BY <1>1, Zenon DEF AuthInv, NoNeedlessSession, BreakerHolds
<1> QED
  BY <1>2, <1>3, Zenon DEF AuthInv

LEMMA KeepsBacking ==
  ASSUME HealthyIsBacked, state' = "HEALTHY" => state = "HEALTHY", UNCHANGED <<age, answered>>
  PROVE  HealthyIsBacked'
BY DEF HealthyIsBacked

\* A call that fails under the lock, or before it took it.
LEMMA FailedCall ==
  ASSUME SessionInv, NEW u \in Users,
         /\ CallsTyped' /\ late' \in [Users -> BOOLEAN] /\ SnapshotTyped'
         /\ at' = [at EXCEPT ![u] = "idle"]
         /\ UNCHANGED <<age, seenActive, wasActive>>
         /\ state' = "HEALTHY" => state = "HEALTHY",
         UNCHANGED <<broker, answered>>, AuthTyped', bound' \in [Users -> BOOLEAN],
         lock' = lock \/ lock = u, cooldown' = cooldown \/ lock = u,
         left # None => left' # None
  PROVE  SessionInv'
<1>1. UNCHANGED <<reach, accepts, live, drops, active>>
  BY Zenon DEF broker
<1>2. Flags' /\ MarksTyped'
  BY <1>1, Zenon DEF SessionInv, Typed, Flags, MarksTyped
<1>3. CountsTyped'
  BY <1>1 DEF SessionInv, Typed, CountsTyped
<1>4. live' => left' # None
  BY <1>1, Zenon DEF SessionInv, AuthInv, LiveLeavesToken
<1>5. AuthInv'
  <2>1. "idle" \in {"idle", "lock", "heart"}
    OBVIOUS
  <2> QED
    BY <1>1, <1>4, <2>1, KeepsAuthInv, Zenon DEF SessionInv
<1>6. HealthyIsBacked'
  BY KeepsBacking, Zenon DEF SessionInv
<1> QED
  BY <1>2, <1>3, <1>5, <1>6, Zenon DEF SessionInv, Typed

\* A call that is authenticated, with the token it found or with a new one.
LEMMA AuthenticatedCall ==
  ASSUME SessionInv, NEW u \in Users, Authenticated(u),
         UNCHANGED <<reach, accepts, drops, active, answered>>,
         AuthTyped', bound' \in [Users -> BOOLEAN], live' \in BOOLEAN,
         lock' = lock \/ lock = u, cooldown' = cooldown \/ lock = u, live' = live \/ lock = u,
         live' => left' # None
  PROVE  SessionInv'
<1>1. /\ CallsTyped' /\ late' \in [Users -> BOOLEAN] /\ UNCHANGED snapshot
      /\ \E w \in {"idle", "lock", "heart"} : at' = [at EXCEPT ![u] = w]
  BY AuthenticatedEffect, Zenon DEF SessionInv
<1>2. UNCHANGED <<state, age, wait, seenActive, wasActive>>
  BY <1>1, Zenon DEF snapshot
<1>3. Flags' /\ MarksTyped'
  BY <1>1, <1>2, Zenon DEF SessionInv, Typed, Flags, MarksTyped
<1>4. CountsTyped' /\ SnapshotTyped'
  BY <1>2 DEF SessionInv, Typed, CountsTyped, SnapshotTyped
<1>5. AuthInv'
  <2>1. PICK w \in {"idle", "lock", "heart"} : at' = [at EXCEPT ![u] = w]
    BY <1>1, Zenon
  <2> QED
    BY <2>1, KeepsAuthInv, Zenon DEF SessionInv
<1>6. HealthyIsBacked'
  BY <1>2, KeepsBacking, Zenon DEF SessionInv
<1> QED
  BY <1>1, <1>3, <1>4, <1>5, <1>6, Zenon DEF SessionInv, Typed

LEMMA UseTokenStep == ASSUME SessionInv, NEW u \in Users, UseToken(u) PROVE SessionInv'
<1>1. Authenticated(u) /\ UNCHANGED <<broker, auth, answered>>
      /\ bound' = [bound EXCEPT ![u] = TRUE]
  BY Zenon DEF UseToken
<1>2. UNCHANGED <<reach, accepts, live, drops, active, left, fails, cooldown, lock>>
  BY <1>1, Zenon DEF broker, auth
<1>3. AuthTyped'
  BY <1>2 DEF SessionInv, Typed, AuthTyped
<1>4. bound' \in [Users -> BOOLEAN]
  BY <1>1, Zenon DEF SessionInv, Typed, MarksTyped
<1>5. live' \in BOOLEAN /\ (live' => left' # None)
  BY <1>2, Zenon DEF SessionInv, Typed, Flags, AuthInv, LiveLeavesToken
<1> QED
  BY <1>1, <1>2, <1>3, <1>4, <1>5, AuthenticatedCall, Zenon

LEMMA HeldBackStep == ASSUME SessionInv, NEW u \in Users, HeldBack(u) PROVE SessionInv'
<1>1. Fails(u, "cooldown") /\ UNCHANGED <<broker, auth, bound, answered>>
  BY Zenon DEF HeldBack
<1>2. UNCHANGED <<left, fails, cooldown, lock>>
  BY <1>1, Zenon DEF auth
<1>3. AuthTyped'
  BY <1>2 DEF SessionInv, Typed, AuthTyped
<1>4. "cooldown" \in Results /\ bound' \in [Users -> BOOLEAN] /\ Typed
  BY <1>1, Zenon DEF Results, SessionInv, Typed, MarksTyped
<1>5. /\ CallsTyped' /\ late' \in [Users -> BOOLEAN] /\ SnapshotTyped'
      /\ at' = [at EXCEPT ![u] = "idle"] /\ UNCHANGED <<age, seenActive, wasActive>>
      /\ state' = "HEALTHY" => state = "HEALTHY"
  BY <1>1, <1>4, FailsEffect, Zenon
<1> QED
  BY <1>1, <1>2, <1>3, <1>4, <1>5, FailedCall, Zenon

LEMMA AskStep == ASSUME SessionInv, NEW u \in Users, Ask(u) PROVE SessionInv'
<1>1. /\ at[u] = "lock" /\ lock = None /\ cooldown = 0 /\ lock' = u
      /\ at' = [at EXCEPT ![u] = IF left = None THEN "login" ELSE "renew"]
      /\ UNCHANGED <<goal, late, broker, left, fails, cooldown, bound, snapshot, answered>>
  BY Zenon DEF Ask, Enters, Goes
<1>2. UNCHANGED <<reach, accepts, live, drops, active, state, age, wait, seenActive, wasActive>>
  BY <1>1, Zenon DEF broker, snapshot
<1>3. Flags' /\ MarksTyped'
  BY <1>1, <1>2, Zenon DEF SessionInv, Typed, Flags, MarksTyped
<1>4. AuthTyped' /\ CallsTyped'
  BY <1>1 DEF SessionInv, Typed, AuthTyped, CallsTyped, Instants
<1>5. CountsTyped' /\ SnapshotTyped'
  BY <1>1, <1>2 DEF SessionInv, Typed, CountsTyped, SnapshotTyped
<1>6. AuthInv'
  <2>1. \A v \in Users : v # u => at'[v] = at[v] /\ at[v] \notin {"renew", "login"}
    BY <1>1, Names DEF SessionInv, Typed, CallsTyped, AuthInv, AskerHoldsLock
  <2>2. at'[u] = IF left = None THEN "login" ELSE "renew"
    BY <1>1 DEF SessionInv, Typed, CallsTyped
  <2>3. AskerHoldsLock' /\ BreakerHolds'
    BY <1>1, <2>1, <2>2 DEF AskerHoldsLock, BreakerHolds
  <2>4. LiveLeavesToken'
    BY <1>1, <1>2, Zenon DEF SessionInv, AuthInv, LiveLeavesToken
  <2>5. NoNeedlessSession'
    <3>1. live' = live /\ (live => left # None)
      BY <1>2, Zenon DEF SessionInv, AuthInv, LiveLeavesToken
    <3>2. \A v \in Users : at'[v] = "login" => v = u
      BY <2>1
    <3>3. at'[u] = "login" => left = None
      BY <2>2
    <3> QED
      BY <3>1, <3>2, <3>3, Zenon DEF NoNeedlessSession
  <2> QED
    BY <2>3, <2>4, <2>5, Zenon DEF AuthInv
<1>7. HealthyIsBacked'
  BY <1>1, <1>2, KeepsBacking, Zenon DEF SessionInv
<1> QED
  BY <1>3, <1>4, <1>5, <1>6, <1>7, Zenon DEF SessionInv, Typed

\* Who is past the lock has it.
LEMMA HoldsLock ==
  ASSUME SessionInv, NEW u \in Users, at[u] \in {"renew", "login"}
  PROVE  lock = u /\ cooldown = 0
BY Zenon DEF SessionInv, AuthInv, AskerHoldsLock, BreakerHolds

LEMMA RenewsStep == ASSUME SessionInv, NEW u \in Users, Renews(u) PROVE SessionInv'
<1>1. /\ at[u] = "renew" /\ Authenticated(u) /\ UNCHANGED <<broker, answered>>
      /\ left' = Life /\ fails' = 0 /\ cooldown' = 0 /\ lock' = None
      /\ bound' = [bound EXCEPT ![u] = TRUE]
  BY Zenon DEF Renews, NewToken
<1>2. UNCHANGED <<reach, accepts, live, drops, active>>
  BY <1>1, Zenon DEF broker
<1>3. lock = u
  BY <1>1, HoldsLock
<1>4. AuthTyped' /\ left' # None
  BY <1>1, TimeFacts DEF AuthTyped
<1>5. bound' \in [Users -> BOOLEAN] /\ live' \in BOOLEAN
  BY <1>1, <1>2, Zenon DEF SessionInv, Typed, MarksTyped, Flags
<1> QED
  BY <1>1, <1>2, <1>3, <1>4, <1>5, AuthenticatedCall, Zenon

LEMMA RenewalRefusedStep ==
  ASSUME SessionInv, NEW u \in Users, RenewalRefused(u) PROVE SessionInv'
<1>1. /\ at[u] = "renew" /\ ~live /\ at' = [at EXCEPT ![u] = "login"]
      /\ UNCHANGED <<goal, late, broker, auth, bound, snapshot, answered>>
  BY Zenon DEF RenewalRefused, Goes
<1>2. UNCHANGED <<reach, accepts, live, drops, active, left, fails, cooldown, lock,
                  state, age, wait, seenActive, wasActive>>
  BY <1>1, Zenon DEF broker, auth, snapshot
<1>3. Flags' /\ MarksTyped'
  BY <1>1, <1>2, Zenon DEF SessionInv, Typed, Flags, MarksTyped
<1>4. AuthTyped' /\ CallsTyped' /\ CountsTyped' /\ SnapshotTyped'
  BY <1>1, <1>2 DEF SessionInv, Typed, AuthTyped, CallsTyped, Instants, CountsTyped, SnapshotTyped
<1>5. AuthInv'
  <2>1. ~live' /\ lock = u /\ cooldown = 0
    BY <1>1, <1>2, HoldsLock, Zenon
  <2>2. \A v \in Users : v # u => at'[v] = at[v]
    BY <1>1 DEF SessionInv, Typed, CallsTyped
  <2>3. AskerHoldsLock' /\ BreakerHolds'
    BY <1>2, <2>1, <2>2, Zenon DEF SessionInv, AuthInv, AskerHoldsLock, BreakerHolds
  <2> QED
    BY <2>1, <2>3, Zenon DEF AuthInv, LiveLeavesToken, NoNeedlessSession
<1>6. HealthyIsBacked'
  BY <1>1, <1>2, KeepsBacking, Zenon DEF SessionInv
<1> QED
  BY <1>3, <1>4, <1>5, <1>6, Zenon DEF SessionInv, Typed

LEMMA RenewalFailsStep == ASSUME SessionInv, NEW u \in Users, RenewalFails(u) PROVE SessionInv'
<1>1. /\ at[u] = "renew" /\ lock' = None /\ Outage(u) /\ Typed
      /\ UNCHANGED <<broker, left, fails, cooldown, bound, answered>>
  BY Zenon DEF RenewalFails, SessionInv
<1>2. lock = u /\ bound' \in [Users -> BOOLEAN]
  BY <1>1, HoldsLock, Zenon DEF Typed, MarksTyped
<1>3. AuthTyped'
  BY <1>1 DEF Typed, AuthTyped
<1>4. /\ CallsTyped' /\ late' \in [Users -> BOOLEAN] /\ SnapshotTyped'
      /\ at' = [at EXCEPT ![u] = "idle"] /\ UNCHANGED <<age, seenActive, wasActive>>
      /\ state' = "HEALTHY" => state = "HEALTHY"
  BY <1>1, OutageEffect, Zenon
<1> QED
  BY <1>1, <1>2, <1>3, <1>4, FailedCall, Zenon

LEMMA LogsInStep == ASSUME SessionInv, NEW u \in Users, LogsIn(u) PROVE SessionInv'
<1>1. /\ at[u] = "login" /\ Authenticated(u) /\ live' = TRUE
      /\ UNCHANGED <<reach, accepts, drops, active, answered>>
      /\ left' = Life /\ fails' = 0 /\ cooldown' = 0 /\ lock' = None
      /\ bound' = [v \in Users |-> v = u]
  BY Zenon DEF LogsIn, NewToken
<1>2. lock = u
  BY <1>1, HoldsLock
<1>3. AuthTyped' /\ left' # None
  BY <1>1, TimeFacts DEF AuthTyped
<1>4. bound' \in [Users -> BOOLEAN] /\ live' \in BOOLEAN
  BY <1>1, Zenon
<1> QED
  BY <1>1, <1>2, <1>3, <1>4, AuthenticatedCall, Zenon

LEMMA LoginRejectedStep == ASSUME SessionInv, NEW u \in Users, LoginRejected(u) PROVE SessionInv'
<1>1. /\ at[u] = "login" /\ lock' = None /\ Fails(u, "rejected") /\ Typed
      /\ fails' = (IF fails < MaxFails THEN fails + 1 ELSE fails)
      /\ cooldown' = (IF fails' = MaxFails THEN Cooldown ELSE cooldown)
      /\ bound' = [bound EXCEPT ![u] = FALSE]
      /\ UNCHANGED <<broker, left, answered>>
  BY Zenon DEF LoginRejected, SessionInv
<1>2. lock = u /\ "rejected" \in Results /\ bound' \in [Users -> BOOLEAN]
  BY <1>1, HoldsLock, Zenon DEF Typed, MarksTyped, Results
<1>3. AuthTyped'
  <2>1. fails' \in 0..MaxFails /\ cooldown' \in 0..Cooldown
    BY <1>1, TimeFacts DEF Typed, AuthTyped
  <2> QED
    BY <1>1, <2>1 DEF Typed, AuthTyped
<1>4. /\ CallsTyped' /\ late' \in [Users -> BOOLEAN] /\ SnapshotTyped'
      /\ at' = [at EXCEPT ![u] = "idle"] /\ UNCHANGED <<age, seenActive, wasActive>>
      /\ state' = "HEALTHY" => state = "HEALTHY"
  BY <1>1, <1>2, FailsEffect, Zenon
<1> QED
  BY <1>1, <1>2, <1>3, <1>4, FailedCall, Zenon

LEMMA LoginFailsStep == ASSUME SessionInv, NEW u \in Users, LoginFails(u) PROVE SessionInv'
<1>1. /\ at[u] = "login" /\ lock' = None /\ Outage(u) /\ Typed
      /\ bound' = [bound EXCEPT ![u] = FALSE]
      /\ UNCHANGED <<broker, left, fails, cooldown, answered>>
  BY Zenon DEF LoginFails, SessionInv
<1>2. lock = u /\ bound' \in [Users -> BOOLEAN]
  BY <1>1, HoldsLock, Zenon DEF Typed, MarksTyped
<1>3. AuthTyped'
  BY <1>1 DEF Typed, AuthTyped
<1>4. /\ CallsTyped' /\ late' \in [Users -> BOOLEAN] /\ SnapshotTyped'
      /\ at' = [at EXCEPT ![u] = "idle"] /\ UNCHANGED <<age, seenActive, wasActive>>
      /\ state' = "HEALTHY" => state = "HEALTHY"
  BY <1>1, OutageEffect, Zenon
<1> QED
  BY <1>1, <1>2, <1>3, <1>4, FailedCall, Zenon

LEMMA HeartRefusedStep == ASSUME SessionInv, NEW u \in Users, HeartRefused(u) PROVE SessionInv'
<1>1. /\ left' = (IF left = None THEN None ELSE 0) /\ Fails(u, "invalid") /\ Typed
      /\ UNCHANGED <<broker, fails, cooldown, lock, bound, answered>>
  BY Zenon DEF HeartRefused, SessionInv
<1>2. "invalid" \in Results /\ bound' \in [Users -> BOOLEAN]
  BY <1>1, Zenon DEF Typed, MarksTyped, Results
<1>3. AuthTyped' /\ (left # None => left' # None)
  BY <1>1, TimeFacts DEF Typed, AuthTyped
<1>4. /\ CallsTyped' /\ late' \in [Users -> BOOLEAN] /\ SnapshotTyped'
      /\ at' = [at EXCEPT ![u] = "idle"] /\ UNCHANGED <<age, seenActive, wasActive>>
      /\ state' = "HEALTHY" => state = "HEALTHY"
  BY <1>1, <1>2, FailsEffect, Zenon
<1> QED
  BY <1>1, <1>2, <1>3, <1>4, FailedCall, Zenon

LEMMA HeartFailsStep == ASSUME SessionInv, NEW u \in Users, HeartFails(u) PROVE SessionInv'
<1>1. Outage(u) /\ Typed /\ UNCHANGED <<broker, auth, bound, answered>>
  BY Zenon DEF HeartFails, SessionInv
<1>2. UNCHANGED <<left, fails, cooldown, lock>> /\ bound' \in [Users -> BOOLEAN]
  BY <1>1, Zenon DEF auth, Typed, MarksTyped
<1>3. AuthTyped'
  BY <1>2 DEF SessionInv, Typed, AuthTyped
<1>4. /\ CallsTyped' /\ late' \in [Users -> BOOLEAN] /\ SnapshotTyped'
      /\ at' = [at EXCEPT ![u] = "idle"] /\ UNCHANGED <<age, seenActive, wasActive>>
      /\ state' = "HEALTHY" => state = "HEALTHY"
  BY <1>1, OutageEffect, Zenon
<1> QED
  BY <1>1, <1>2, <1>3, <1>4, FailedCall, Zenon

LEMMA HeartAnswersStep == ASSUME SessionInv, NEW u \in Users, HeartAnswers(u) PROVE SessionInv'
<1>1. /\ Ends(u) /\ Typed /\ UNCHANGED <<broker, auth, bound>>
      /\ IF u = Sup THEN MarkHealthy /\ answered' = 0 ELSE UNCHANGED <<snapshot, answered>>
  BY Zenon DEF HeartAnswers, SessionInv
<1>2. UNCHANGED <<reach, accepts, live, drops, active, left, fails, cooldown, lock>>
  BY <1>1, Zenon DEF broker, auth
<1>3. CallsTyped' /\ at' = [at EXCEPT ![u] = "idle"]
  BY <1>1 DEF Ends, Typed, CallsTyped, Instants
<1>4. MarksTyped'
  <2>1. (u # Sup) \in BOOLEAN /\ late' = [late EXCEPT ![u] = u # Sup]
    BY <1>1, Zenon DEF Ends
  <2> QED
    BY <1>1, <2>1, Zenon DEF Typed, MarksTyped
<1>5. AuthTyped'
  BY <1>2 DEF SessionInv, Typed, AuthTyped
<1>6. AuthInv'
  <2>1. "idle" \in {"idle", "lock", "heart"} /\ (live' => left' # None)
    BY <1>2, Zenon DEF SessionInv, AuthInv, LiveLeavesToken
  <2> QED
    BY <1>1, <1>2, <1>3, <2>1, KeepsAuthInv, Zenon DEF SessionInv
<1>7. UNCHANGED <<seenActive, wasActive>>
  BY <1>1, Zenon DEF MarkHealthy, snapshot
<1>8. Flags'
  BY <1>1, <1>2, <1>7, Zenon DEF Typed, Flags
<1>9. SnapshotTyped' /\ CountsTyped' /\ HealthyIsBacked'
  <2>1. CASE u = Sup
    <3>1. state' = "HEALTHY" /\ age' = (IF late[Sup] THEN 1 ELSE 0) /\ wait' = 0 /\ answered' = 0
      BY <1>1, <2>1, Zenon DEF MarkHealthy
    <3>2. age' \in {0, 1}
      BY <3>1, Zenon
    <3> QED
      BY <1>1, <1>2, <3>1, <3>2, TimeFacts
         DEF Typed, SnapshotTyped, CountsTyped, States, LongestWait, HealthyIsBacked
  <2>2. CASE u # Sup
    <3>1. UNCHANGED <<state, age, wait, answered>>
      BY <1>1, <2>2, Zenon DEF snapshot
    <3> QED
      BY <1>1, <1>2, <3>1 DEF SessionInv, Typed, SnapshotTyped, CountsTyped, HealthyIsBacked
  <2> QED
    BY <2>1, <2>2, Zenon
<1> QED
  BY <1>3, <1>4, <1>5, <1>6, <1>8, <1>9, Zenon DEF SessionInv, Typed

LEMMA CallStep == ASSUME SessionInv, NEW u \in Users, Call(u) PROVE SessionInv'
BY UseTokenStep, HeldBackStep, AskStep, RenewsStep, RenewalRefusedStep, RenewalFailsStep,
   LogsInStep, LoginRejectedStep, LoginFailsStep, HeartAnswersStep, HeartRefusedStep,
   HeartFailsStep, Zenon DEF Call

\* A step that asks for nothing and opens no session.
LEMMA QuietStep ==
  ASSUME AuthInv, UNCHANGED <<at, lock>>, cooldown = 0 => cooldown' = 0, live' => live,
         left # None => left' # None
  PROVE  AuthInv'
BY Zenon DEF AuthInv, AskerHoldsLock, LiveLeavesToken, NoNeedlessSession, BreakerHolds

LEMMA SupervisorStepStep == ASSUME SessionInv, SupervisorStep PROVE SessionInv'
<1>1. /\ Typed /\ at[Sup] = "idle" /\ wasActive' = seenActive /\ seenActive' = active
      /\ UNCHANGED <<broker, auth, bound, state, age, wait, answered>>
      /\ \/ late' = [late EXCEPT ![Sup] = FALSE] /\ UNCHANGED <<at, goal>>
         \/ Starts(Sup, "auth")
  BY Zenon DEF SupervisorStep, SessionInv
<1>2. UNCHANGED <<reach, accepts, live, drops, active, left, fails, cooldown, lock>>
  BY <1>1, Zenon DEF broker, auth
<1>3. /\ late' = [late EXCEPT ![Sup] = FALSE]
      /\ \/ UNCHANGED <<at, goal>>
         \/ at' = [at EXCEPT ![Sup] = "lock"] /\ goal' = [goal EXCEPT ![Sup] = "auth"]
  BY <1>1, Zenon DEF Starts
<1>4. Flags' /\ MarksTyped'
  BY <1>1, <1>2, <1>3, Zenon DEF Typed, Flags, MarksTyped
<1>5. AuthTyped' /\ CallsTyped' /\ CountsTyped' /\ SnapshotTyped'
  BY <1>1, <1>2, <1>3
     DEF Typed, AuthTyped, CallsTyped, Instants, CountsTyped, SnapshotTyped
<1>6. AuthInv'
  <2>1. "lock" \in {"idle", "lock", "heart"} /\ (live' => left' # None)
    BY <1>2, Zenon DEF SessionInv, AuthInv, LiveLeavesToken
  <2>2. CASE UNCHANGED <<at, goal>>
    BY <1>2, <2>2, QuietStep, Zenon DEF SessionInv
  <2>3. CASE at' = [at EXCEPT ![Sup] = "lock"]
    BY <1>1, <1>2, <2>1, <2>3, Names, KeepsAuthInv, Zenon DEF SessionInv
  <2> QED
    BY <1>3, <2>2, <2>3, Zenon
<1>7. HealthyIsBacked'
  BY <1>1, KeepsBacking, Zenon DEF SessionInv
<1> QED
  BY <1>4, <1>5, <1>6, <1>7, Zenon DEF SessionInv, Typed

LEMMA OtherCallStep ==
  ASSUME SessionInv, NEW u \in Others, NEW aim \in {"auth", "heart"}, OtherCall(u, aim)
  PROVE  SessionInv'
<1>1. /\ Typed /\ u \in Users /\ at' = [at EXCEPT ![u] = "lock"]
      /\ goal' = [goal EXCEPT ![u] = aim] /\ late' = [late EXCEPT ![u] = FALSE]
      /\ UNCHANGED <<broker, auth, bound, snapshot, answered>>
  BY Zenon DEF OtherCall, Starts, SessionInv, Users
<1>2. UNCHANGED <<reach, accepts, live, drops, active, left, fails, cooldown, lock,
                  state, age, wait, seenActive, wasActive>>
  BY <1>1, Zenon DEF broker, auth, snapshot
<1>3. Flags' /\ MarksTyped'
  BY <1>1, <1>2, Zenon DEF Typed, Flags, MarksTyped
<1>4. AuthTyped' /\ CallsTyped' /\ CountsTyped' /\ SnapshotTyped'
  BY <1>1, <1>2 DEF Typed, AuthTyped, CallsTyped, Instants, CountsTyped, SnapshotTyped
<1>5. AuthInv'
  <2>1. "lock" \in {"idle", "lock", "heart"} /\ (live' => left' # None)
    BY <1>2, Zenon DEF SessionInv, AuthInv, LiveLeavesToken
  <2> QED
    BY <1>1, <1>2, <2>1, KeepsAuthInv, Zenon DEF SessionInv
<1>6. HealthyIsBacked'
  BY <1>1, <1>2, KeepsBacking, Zenon DEF SessionInv
<1> QED
  BY <1>3, <1>4, <1>5, <1>6, Zenon DEF SessionInv, Typed

LEMMA WeatherStep == ASSUME SessionInv, Weather \/ Dropped PROVE SessionInv'
<1> Typed /\ Flags
  BY Zenon DEF SessionInv, Typed
<1>1. /\ UNCHANGED <<auth, calls, snapshot, answered>>
      /\ reach' \in BOOLEAN /\ accepts' \in BOOLEAN /\ active' \in BOOLEAN /\ live' \in BOOLEAN
      /\ live' => live
  <2>1. CASE Weather
    BY <2>1, Zenon DEF Weather, Flags
  <2>2. CASE Dropped
    BY <2>2, Zenon DEF Dropped, Flags
  <2> QED
    BY <2>1, <2>2, Zenon
<1>2. UNCHANGED <<left, fails, cooldown, lock, at, goal, bound, late,
                  state, age, wait, seenActive, wasActive>>
  BY <1>1, Zenon DEF auth, calls, snapshot
<1>3. Flags' /\ MarksTyped'
  BY <1>1, <1>2, Zenon DEF Typed, Flags, MarksTyped
<1>4. AuthTyped' /\ CallsTyped' /\ SnapshotTyped'
  BY <1>1, <1>2 DEF Typed, AuthTyped, CallsTyped, SnapshotTyped
<1>5. drops' = drops \/ (drops < MaxDrops /\ drops' = drops + 1)
  BY Zenon DEF Weather, Dropped
<1>6. CountsTyped'
  BY <1>1, <1>5, TimeFacts DEF Typed, CountsTyped
<1>7. AuthInv'
  BY <1>1, <1>2, QuietStep, Zenon DEF SessionInv
<1>8. HealthyIsBacked'
  BY <1>1, <1>2, KeepsBacking, Zenon DEF SessionInv
<1> QED
  BY <1>3, <1>4, <1>6, <1>7, <1>8, Zenon DEF SessionInv, Typed

LEMMA MinuteStep == ASSUME SessionInv, Minute PROVE SessionInv'
<1>1. /\ Typed /\ UNCHANGED <<reach, accepts, drops, active, fails, lock, at, goal, bound,
                              state, seenActive, wasActive>>
      /\ late' = [u \in Users |-> at[u] # "idle" \/ u = Sup]
      /\ left' = (IF left = None THEN None ELSE Less(left))
      /\ live' = (live /\ left # 1)
      /\ cooldown' = Less(cooldown) /\ wait' = Less(wait)
      /\ age' = Older(age) /\ answered' = Older(answered)
  BY Zenon DEF Minute, SessionInv
<1>2. Flags' /\ MarksTyped'
  <2>1. live' \in BOOLEAN /\ late' \in [Users -> BOOLEAN]
    BY <1>1
  <2> QED
    BY <1>1, <2>1, Zenon DEF Typed, Flags, MarksTyped
<1>3. CallsTyped'
  BY <1>1, Zenon DEF Typed, CallsTyped
<1>4. AuthTyped' /\ (left # None => left' # None) /\ (cooldown = 0 => cooldown' = 0)
  BY <1>1, TimeFacts DEF Typed, AuthTyped, Less
<1>5. SnapshotTyped'
  <2>1. wait' \in 0..LongestWait
    BY <1>1, TimeFacts DEF Typed, SnapshotTyped, LongestWait, Less
  <2>2. age' \in 0..Old
    BY <1>1, TimeFacts DEF Typed, SnapshotTyped, Older
  <2> QED
    BY <1>1, <2>1, <2>2, Zenon DEF Typed, SnapshotTyped
<1>6. CountsTyped'
  BY <1>1, TimeFacts DEF Typed, CountsTyped, Older
<1>7. AuthInv'
  BY <1>1, <1>4, QuietStep, Zenon DEF SessionInv
<1>8. HealthyIsBacked'
  <2>1. state = "HEALTHY" => answered <= age
    BY Zenon DEF SessionInv, HealthyIsBacked
  <2> QED
    BY <1>1, <2>1, TimeFacts DEF Typed, CountsTyped, SnapshotTyped, Older, HealthyIsBacked
<1> QED
  BY <1>2, <1>3, <1>4, <1>5, <1>6, <1>7, <1>8, Zenon DEF SessionInv, Typed

LEMMA StutterStep == ASSUME SessionInv, UNCHANGED vars PROVE SessionInv'
<1>1. UNCHANGED <<reach, accepts, live, drops, active, left, fails, cooldown, lock, at, goal,
                  bound, late, state, age, wait, seenActive, wasActive, answered>>
  BY Zenon DEF vars, broker, auth, calls, snapshot
<1>2. Typed'
  BY <1>1, Zenon DEF SessionInv, Typed, Flags, AuthTyped, CallsTyped, MarksTyped, SnapshotTyped,
                     CountsTyped
<1>3. AuthInv' /\ HealthyIsBacked'
  BY <1>1, QuietStep, KeepsBacking, Zenon DEF SessionInv
<1> QED
  BY <1>2, <1>3, Zenon DEF SessionInv

LEMMA NextKeepsInv == SessionInv /\ [Next]_vars => SessionInv'
<1> SUFFICES ASSUME SessionInv, [Next]_vars PROVE SessionInv'
  OBVIOUS
<1> QED
  BY CallStep, SupervisorStepStep, WeatherStep, MinuteStep, OtherCallStep, StutterStep, Zenon
     DEF Next

LEMMA AlwaysSessionInv == Spec => []SessionInv
BY InitHolds, NextKeepsInv, PTL DEF Spec

\* The stored expiry, the breaker and the waits stay within their bounds
\* (_SharedAuth, ReliabilitySnapshot).
THEOREM TypesHold == Spec => []TypeOK
<1>1. SessionInv => TypeOK
  BY TypedIsTypeOK, Zenon DEF SessionInv
<1> QED
  BY <1>1, AlwaysSessionInv, PTL

\* authenticate_result logs in only with no token or after the broker said the
\* token is invalid, so it never opens a session beside one that is honoured.
THEOREM NoSessionIsNeedless == Spec => []NoNeedlessSession
<1>1. SessionInv => NoNeedlessSession
  BY Zenon DEF SessionInv, AuthInv
<1> QED
  BY <1>1, AlwaysSessionInv, PTL

\* After _AUTH_MAX_FAILURES rejections authenticate_result asks for no token
\* until the cooldown is over, whichever instance calls it.
THEOREM BreakerIsKept == Spec => []BreakerHolds
<1>1. SessionInv => BreakerHolds
  BY Zenon DEF SessionInv, AuthInv
<1> QED
  BY <1>1, AlwaysSessionInv, PTL

\* require_ready lets an entry through only on a heartbeat the broker answered
\* within HEARTBEAT_FRESH_SECONDS.
THEOREM OpenGateIsBacked == Spec => []GateIsBacked
<1>1. SessionInv => GateIsBacked
  BY TimeFacts DEF SessionInv, Typed, SnapshotTyped, CountsTyped, HealthyIsBacked, GateIsBacked,
                   OrderReady
<1> QED
  BY <1>1, AlwaysSessionInv, PTL
=============================================================================
