---------------------------- MODULE DayBookProofs ----------------------------
(***************************************************************************)
(* Theorems of DayBook, for any bars, any limits, any look-back and any    *)
(* number of days, deliveries, failed writes and restarts.                 *)
(***************************************************************************)
EXTENDS DayBook, TLAPS, WellFoundedInduction

(***************************************************************************)
(* Types, part by part.                                                    *)
(***************************************************************************)
DayTotals == [count : Nat, streak : Nat, open : Bars \cup {None}]
Jobs == [at : {"idle", "claim", "resolve", "gate", "send"}, bar : Bars \cup {None},
         today : Days, pos : Bars \cup {None}, posDay : Days, count : Nat, streak : Nat]

WorldTyped   == day \in Days /\ age \in [Bars -> {"open", "fresh", "late", "stale"}] /\ delivered \in Nat
ProcessTyped == seen \subseteq Bars /\ queue \in Seq(Bars) /\ epoch \in Nat
LatchTyped   == latched \in BOOLEAN
WorkTyped    == work \in Jobs /\ (work.at # "idle" => work.bar \in Bars)
FilesTyped   == /\ claims \in [Days -> SUBSET Bars] /\ book \in [Days -> DayTotals]
                /\ unreadable \subseteq Days /\ faults \in Nat
HistoryTyped == /\ decided \in [Bars -> SUBSET (Days \X Nat)]
                /\ taken \in [Days -> Nat] /\ lost \in [Days -> Nat]
                /\ closed \in [Days -> Nat] /\ lossRun \in [Days -> Nat]

LEMMA TypeParts ==
  TypeOK <=> WorldTyped /\ ProcessTyped /\ LatchTyped /\ WorkTyped /\ FilesTyped /\ HistoryTyped
BY DEF TypeOK, WorldTyped, ProcessTyped, LatchTyped, WorkTyped, FilesTyped, HistoryTyped, Jobs, DayTotals

LEMMA TypePartsNext ==
  TypeOK' <=> WorldTyped' /\ ProcessTyped' /\ LatchTyped' /\ WorkTyped' /\ FilesTyped' /\ HistoryTyped'
BY DEF TypeOK, WorldTyped, ProcessTyped, LatchTyped, WorkTyped, FilesTyped, HistoryTyped, Jobs, DayTotals

LEMMA Limits ==
  /\ LastDay \in Nat /\ LastDay > 0 /\ Capacity \in Nat /\ LossLimit \in Nat /\ Lookback \in Nat
  /\ None \notin Bars /\ 1 \in Days
BY LimitAssumption, BarAssumption DEF Days

LEMMA DayIsNat == ASSUME NEW d \in Days PROVE d \in Nat
BY Limits DEF Days

LEMMA IdleIsTyped == Idle \in Jobs /\ Idle.at = "idle"
BY Limits DEF Idle, Jobs

LEMMA InitTyped == Init => TypeOK
<1> SUFFICES ASSUME Init PROVE TypeOK
  OBVIOUS
<1>1. WorldTyped BY Limits DEF Init, WorldTyped
<1>2. ProcessTyped BY DEF Init, ProcessTyped
<1>3. LatchTyped BY DEF Init, LatchTyped
<1>4. WorkTyped BY IdleIsTyped DEF Init, WorkTyped
<1>5. FilesTyped BY DEF Init, FilesTyped, EmptyDay, DayTotals
<1>6. HistoryTyped BY DEF Init, HistoryTyped
<1> QED BY <1>1, <1>2, <1>3, <1>4, <1>5, <1>6, TypeParts

(***************************************************************************)
(* What a row does to the totals of a day.                                 *)
(***************************************************************************)
LEMMA TotalsTyped ==
  ASSUME NEW t \in DayTotals, NEW bar \in Bars, NEW result \in Results
  PROVE  /\ AddTrade(t, bar) \in DayTotals /\ AddResult(t, result) \in DayTotals
         /\ AddCancelled(t) \in DayTotals
<1>0. t.count \in Nat /\ t.streak \in Nat BY DEF DayTotals
<1>1. StreakAfter(t.streak, result) \in Nat BY DEF StreakAfter, DayTotals
<1>2. AddResult(t, result) \in DayTotals BY <1>1 DEF AddResult, DayTotals
<1>3. AddTrade(t, bar) \in DayTotals
  <2> DEFINE n == t.count + 1
  <2>1. AddTrade(t, bar) = [t EXCEPT !.count = n, !.open = bar] BY DEF AddTrade
  <2>2. n \in Nat BY <1>0
  <2> HIDE DEF n
  <2> QED BY <2>1, <2>2 DEF DayTotals
<1>4. AddCancelled(t) \in DayTotals
  <2> DEFINE n == IF t.open # None /\ t.count > 0 THEN t.count - 1 ELSE t.count
  <2>1. AddCancelled(t) = [t EXCEPT !.count = n, !.open = None] BY DEF AddCancelled
  <2>2. n \in Nat BY <1>0
  <2> HIDE DEF n
  <2> QED BY <2>1, <2>2 DEF DayTotals
<1> QED BY <1>2, <1>3, <1>4

LEMMA SomeResult == "WIN" \in Results
BY DEF Results

LEMMA RowFields ==
  ASSUME NEW t \in DayTotals, NEW bar \in Bars, NEW result \in Results
  PROVE  /\ AddTrade(t, bar).count = t.count + 1 /\ AddTrade(t, bar).open = bar
         /\ AddResult(t, result).count = t.count /\ AddResult(t, result).open = None
         /\ t.open = None => AddCancelled(t).count = t.count
         /\ AddCancelled(t).open = None
BY DEF AddTrade, AddResult, AddCancelled, DayTotals

LEMMA WriteRowTyped ==
  ASSUME FilesTyped, LatchTyped, NEW d \in Days, NEW w \in Writes, NEW totals \in DayTotals,
         WriteRow(d, w, totals)
  PROVE  FilesTyped' /\ LatchTyped'
<1>1. claims' = claims /\ faults' \in Nat BY DEF WriteRow, FilesTyped
<1>2. book' \in [Days -> DayTotals] BY DEF WriteRow, FilesTyped
<1>3. unreadable' \subseteq Days BY DEF WriteRow, FilesTyped
<1>4. latched' \in BOOLEAN BY DEF WriteRow, Latch, Raises, LatchTyped
<1> QED BY <1>1, <1>2, <1>3, <1>4 DEF FilesTyped, LatchTyped

(***************************************************************************)
(* The type invariant, action by action.                                   *)
(***************************************************************************)
LEMMA WorldSteps ==
  ASSUME TypeOK,
         \/ Midnight
         \/ \E b \in Bars : BarCloses(b) \/ GoesStale(b) \/ Deliver(b) \/ Expire(b)
  PROVE  TypeOK'
<1>0. WorldTyped /\ ProcessTyped /\ LatchTyped /\ WorkTyped /\ FilesTyped /\ HistoryTyped
  BY TypeParts
<1>1. UNCHANGED <<work, latched, files, history>> /\ epoch' = epoch
  BY DEF Midnight, BarCloses, GoesStale, Deliver, Expire, process
<1>2. WorldTyped'
  BY <1>0, Limits DEF Midnight, BarCloses, GoesStale, Deliver, Expire, world, WorldTyped, Days
<1>3. ProcessTyped'
  <2>1. CASE UNCHANGED process BY <1>0, <2>1 DEF process, ProcessTyped
  <2>2. ASSUME NEW b \in Bars, Deliver(b) PROVE ProcessTyped'
    BY <1>0, <2>2 DEF Deliver, ProcessTyped
  <2>3. ASSUME NEW b \in Bars, Expire(b) PROVE ProcessTyped'
    BY <1>0, <2>3 DEF Expire, ProcessTyped
  <2> QED BY <2>1, <2>2, <2>3 DEF Midnight, BarCloses, GoesStale
<1>4. LatchTyped' /\ WorkTyped' /\ FilesTyped' /\ HistoryTyped'
  BY <1>0, <1>1 DEF files, history, LatchTyped, WorkTyped, FilesTyped, HistoryTyped
<1> QED BY <1>2, <1>3, <1>4, TypePartsNext

LEMMA CrashTyped == ASSUME TypeOK, Crash PROVE TypeOK'
<1>0. WorldTyped /\ ProcessTyped /\ FilesTyped /\ HistoryTyped BY TypeParts
<1>1. WorldTyped' /\ FilesTyped' /\ HistoryTyped'
  BY <1>0 DEF Crash, world, files, history, WorldTyped, FilesTyped, HistoryTyped
<1>2. ProcessTyped' BY <1>0 DEF Crash, ProcessTyped
<1>3. LatchTyped' BY DEF Crash, LatchTyped
<1>4. WorkTyped' BY IdleIsTyped DEF Crash, WorkTyped
<1> QED BY <1>1, <1>2, <1>3, <1>4, TypePartsNext

\* What the handler leaves alone, whatever it does.
LEMMA HandlerFrame ==
  ASSUME Handler PROVE UNCHANGED <<day, age, delivered, seen, epoch>>
BY DEF Handler, TurnAway, KeepInLane, Begin, ClaimBar, AlreadyClaimed, ClaimFails, NotResolved, NoEntry, Intend,
       NotFilled, Open, Resolve, Evidence, world

LEMMA RebuiltTyped ==
  ASSUME FilesTyped, NEW bar \in Bars, NEW today \in Days
  PROVE  Rebuilt(bar, today) \in Jobs /\ Rebuilt(bar, today).bar = bar
<1> DEFINE from == IF OpenDay(today) = {} THEN today ELSE CHOOSE d \in OpenDay(today) : TRUE
<1>1. OpenDay(today) \subseteq Days BY DEF OpenDay, Searched, Reach
<1>2. from \in Days BY <1>1
<1> HIDE DEF from
<1>3. book[from] \in DayTotals /\ book[today] \in DayTotals BY <1>2 DEF FilesTyped
<1>4. Rebuilt(bar, today) =
        [at |-> "claim", bar |-> bar, today |-> today, pos |-> book[from].open, posDay |-> from,
         count |-> book[today].count, streak |-> book[today].streak]
  BY DEF Rebuilt, from
<1> QED BY <1>2, <1>3, <1>4 DEF Jobs, DayTotals

\* The bar at the head of the queue is handed over.
LEMMA LockTyped ==
  ASSUME ProcessTyped, TakeLock, UNCHANGED <<seen, epoch>>
  PROVE  ProcessTyped' /\ Head(queue) \in Bars
<1>1. queue \in Seq(Bars) /\ queue # <<>> /\ queue' = Tail(queue) BY DEF ProcessTyped, TakeLock
<1>2. Head(queue) \in Bars BY <1>1
<1>3. ProcessTyped' BY <1>1 DEF ProcessTyped
<1> QED BY <1>2, <1>3

LEMMA PlainRowTyped ==
  ASSUME FilesTyped, NEW d \in Days, PlainRow(d)
  PROVE  FilesTyped' /\ unreadable \subseteq unreadable'
<1>1. unreadable' \subseteq Days /\ faults' \in Nat BY DEF FilesTyped, PlainRow
<1>2. UNCHANGED <<claims, book>> /\ unreadable \subseteq unreadable' BY DEF PlainRow
<1> QED BY <1>1, <1>2 DEF FilesTyped

LEMMA LockedTyped == ASSUME TypeOK, TurnAway \/ KeepInLane \/ Begin PROVE TypeOK'
<1>0. WorldTyped /\ ProcessTyped /\ LatchTyped /\ WorkTyped /\ FilesTyped /\ HistoryTyped
  BY TypeParts
<1>1. TakeLock /\ UNCHANGED <<world, seen, latched, epoch, history>>
  BY DEF TurnAway, KeepInLane, Begin
<1>2. WorldTyped' /\ LatchTyped' /\ HistoryTyped'
  BY <1>0, <1>1 DEF world, history, WorldTyped, LatchTyped, HistoryTyped
<1>3. ProcessTyped' /\ Head(queue) \in Bars BY <1>0, <1>1, LockTyped
<1>4. FilesTyped'
  <2>1. CASE TurnAway BY <1>0, <2>1, PlainRowTyped DEF TurnAway, WorldTyped
  <2>2. CASE UNCHANGED files BY <1>0, <2>2 DEF files, FilesTyped
  <2> QED BY <2>1, <2>2 DEF KeepInLane, Begin
<1>5. Rebuilt(Head(queue), day) \in Jobs /\ Rebuilt(Head(queue), day).bar \in Bars
  BY <1>0, <1>3, RebuiltTyped DEF WorldTyped
<1>6. work' \in {work, Idle, Rebuilt(Head(queue), day)} BY DEF TurnAway, KeepInLane, Begin
<1>7. WorkTyped' BY <1>0, <1>5, <1>6, IdleIsTyped DEF WorkTyped
<1> QED BY <1>2, <1>3, <1>4, <1>7, TypePartsNext

LEMMA EndsTyped ==
  ASSUME TypeOK, AlreadyClaimed \/ NotResolved
  PROVE  TypeOK'
<1>0. WorldTyped /\ ProcessTyped /\ LatchTyped /\ WorkTyped /\ FilesTyped /\ HistoryTyped
  BY TypeParts
<1>1. UNCHANGED <<world, seen, queue, latched, epoch, files, history>>
  BY DEF AlreadyClaimed, NotResolved
<1>2. WorldTyped' /\ ProcessTyped' /\ LatchTyped' /\ FilesTyped' /\ HistoryTyped'
  BY <1>0, <1>1 DEF world, files, history, WorldTyped, ProcessTyped, LatchTyped, FilesTyped, HistoryTyped
<1>3. CASE AlreadyClaimed
  <2>1. WorkTyped' BY <1>3, IdleIsTyped DEF AlreadyClaimed, WorkTyped
  <2> QED BY <1>2, <2>1, TypePartsNext
<1>4. CASE NotResolved
  <2>1. WorkTyped' BY <1>0, <1>4 DEF NotResolved, WorkTyped, Jobs
  <2> QED BY <1>2, <2>1, TypePartsNext
<1> QED BY <1>3, <1>4

LEMMA ClaimTyped == ASSUME TypeOK, ClaimBar PROVE TypeOK'
<1>0. WorldTyped /\ ProcessTyped /\ LatchTyped /\ WorkTyped /\ FilesTyped /\ HistoryTyped
  BY TypeParts
<1>1. work.bar \in Bars /\ work.today \in Days /\ epoch \in Nat
  BY <1>0 DEF ClaimBar, WorkTyped, Jobs, ProcessTyped
<1>2. WorldTyped' /\ ProcessTyped' /\ LatchTyped'
  BY <1>0 DEF ClaimBar, world, WorldTyped, ProcessTyped, LatchTyped
<1>3. FilesTyped' BY <1>0, <1>1 DEF ClaimBar, FilesTyped
<1>4. HistoryTyped' BY <1>0, <1>1 DEF ClaimBar, HistoryTyped
<1>5. WorkTyped' BY <1>0 DEF ClaimBar, WorkTyped, Jobs
<1> QED BY <1>2, <1>3, <1>4, <1>5, TypePartsNext

LEMMA FaultTyped == ASSUME TypeOK, ClaimFails \/ NoEntry PROVE TypeOK'
<1>0. WorldTyped /\ ProcessTyped /\ LatchTyped /\ WorkTyped /\ FilesTyped /\ HistoryTyped
  BY TypeParts
<1>1. UNCHANGED <<world, seen, queue, latched, epoch, claims, book, history>> /\ work' = Idle
  BY DEF ClaimFails, NoEntry, PlainRow
<1>2. WorldTyped' /\ ProcessTyped' /\ LatchTyped' /\ HistoryTyped'
  BY <1>0, <1>1 DEF world, history, WorldTyped, ProcessTyped, LatchTyped, HistoryTyped
<1>3. WorkTyped' BY <1>1, IdleIsTyped DEF WorkTyped
<1>4. work.today \in Days BY <1>0 DEF WorkTyped, Jobs
<1>5. unreadable' \subseteq Days /\ faults' \in Nat
  BY <1>0, <1>4 DEF ClaimFails, NoEntry, PlainRow, FilesTyped
<1>6. FilesTyped' BY <1>0, <1>1, <1>5 DEF FilesTyped
<1> QED BY <1>2, <1>3, <1>6, TypePartsNext

\* The steps that write a row: which day, which totals, and what follows.
LEMMA ResolveTyped ==
  ASSUME TypeOK, NEW w \in Writes, NEW result \in Results, Resolve(result, w)
  PROVE  TypeOK'
<1>0. WorldTyped /\ ProcessTyped /\ LatchTyped /\ WorkTyped /\ FilesTyped /\ HistoryTyped
  BY TypeParts
<1>1. /\ work.posDay \in Days /\ work.today \in Days /\ work.streak \in Nat
      /\ work.bar \in Bars
  BY <1>0 DEF Resolve, WorkTyped, Jobs
<1>2. book[work.posDay] \in DayTotals BY <1>0, <1>1 DEF FilesTyped
<1>3. FilesTyped' /\ LatchTyped'
  BY <1>0, <1>1, <1>2, TotalsTyped, WriteRowTyped DEF Resolve
<1>4. WorldTyped' /\ ProcessTyped'
  BY <1>0 DEF Resolve, world, WorldTyped, ProcessTyped, WriteRow
<1>5. StreakAfter(work.streak, result) \in Nat BY <1>1 DEF StreakAfter
<1>6. WorkTyped' BY <1>0, <1>5 DEF Resolve, WorkTyped, Jobs
<1>7. StreakAfter(lossRun[work.today], result) \in Nat
  BY <1>0, <1>1 DEF StreakAfter, HistoryTyped
<1>8. HistoryTyped' BY <1>0, <1>1, <1>7 DEF Resolve, HistoryTyped
<1> QED BY <1>3, <1>4, <1>6, <1>8, TypePartsNext

LEMMA SendTyped ==
  ASSUME TypeOK, NEW w \in Writes,
         \/ Intend(w) \/ NotFilled(w) \/ Open(w)
         \/ \E result \in Results : Evidence(result, w)
  PROVE  TypeOK'
<1>0. WorldTyped /\ ProcessTyped /\ LatchTyped /\ WorkTyped /\ FilesTyped /\ HistoryTyped
  BY TypeParts
<1>1. work.today \in Days /\ work.bar \in Bars
  BY <1>0 DEF Intend, NotFilled, Open, Evidence, WorkTyped, Jobs
<1>2. book[work.today] \in DayTotals BY <1>0, <1>1 DEF FilesTyped
<1>3. PICK totals \in DayTotals : WriteRow(work.today, w, totals)
  <2>1. CASE Intend(w) BY <1>2, <2>1 DEF Intend
  <2>2. CASE NotFilled(w)
    <3>1. AddCancelled(book[work.today]) \in DayTotals BY <1>1, <1>2, TotalsTyped, SomeResult
    <3> QED BY <2>2, <3>1 DEF NotFilled
  <2>3. CASE Open(w)
    <3>1. AddTrade(book[work.today], work.bar) \in DayTotals BY <1>1, <1>2, TotalsTyped, SomeResult
    <3> QED BY <2>3, <3>1 DEF Open
  <2>4. ASSUME NEW result \in Results, Evidence(result, w)
        PROVE  \E totals \in DayTotals : WriteRow(work.today, w, totals)
    <3>1. AddResult(book[work.today], result) \in DayTotals
      BY <1>1, <1>2, TotalsTyped
    <3> QED BY <2>4, <3>1 DEF Evidence
  <2> QED BY <2>1, <2>2, <2>3, <2>4
<1>4. FilesTyped' /\ LatchTyped' BY <1>0, <1>1, <1>3, WriteRowTyped
<1>5. WorldTyped' /\ ProcessTyped'
  BY <1>0 DEF Intend, NotFilled, Open, Evidence, world, WorldTyped, ProcessTyped
<1>6. WorkTyped'
  <2>1. work' \in {Idle, [work EXCEPT !.at = "send"]} BY DEF Intend, NotFilled, Open, Evidence
  <2>2. [work EXCEPT !.at = "send"] \in Jobs BY <1>0 DEF WorkTyped, Jobs
  <2>3. [work EXCEPT !.at = "send"].bar = work.bar BY <1>0 DEF WorkTyped, Jobs
  <2> QED BY <1>1, <2>1, <2>2, <2>3, IdleIsTyped DEF WorkTyped
<1>7. HistoryTyped'
  <2>1. CASE UNCHANGED history BY <1>0, <2>1 DEF history, HistoryTyped
  <2>2. CASE Open(w) BY <1>0, <1>1, <2>2 DEF Open, HistoryTyped
  <2>3. ASSUME NEW result \in Results, Evidence(result, w) PROVE HistoryTyped'
    <3>1. StreakAfter(lossRun[work.today], result) \in Nat
      BY <1>0, <1>1 DEF StreakAfter, HistoryTyped
    <3> QED BY <1>0, <1>1, <2>3, <3>1 DEF Evidence, HistoryTyped
  <2> QED BY <2>1, <2>2, <2>3 DEF Intend, NotFilled
<1> QED BY <1>4, <1>5, <1>6, <1>7, TypePartsNext

LEMMA NextTyped == TypeOK /\ [Next]_vars => TypeOK'
<1> SUFFICES ASSUME TypeOK, [Next]_vars PROVE TypeOK'
  OBVIOUS
<1>1. CASE Environment BY <1>1, WorldSteps, CrashTyped DEF Environment
<1>2. CASE Handler
  BY <1>2, LockedTyped, EndsTyped, ClaimTyped, FaultTyped, ResolveTyped, SendTyped DEF Handler
<1>3. CASE UNCHANGED vars
  BY <1>3 DEF vars, world, process, files, history, TypeOK
<1> QED BY <1>1, <1>2, <1>3 DEF Next

LEMMA AlwaysTyped == Spec => []TypeOK
<1> QED BY InitTyped, NextTyped, PTL DEF Spec

(***************************************************************************)
(* A bar is decided once.  Within a process a bar that is not stale is in  *)
(* one place at most, the queue, the handler or the decided ones, and its  *)
(* key is in the window; across processes there is only the claim.         *)
(***************************************************************************)
Queued(b)     == \E i \in 1..Len(queue) : queue[i] = b
Held(b)       == work.at # "idle" /\ work.bar = b
DecidedNow(b) == \E p \in decided[b] : p[2] = epoch

ClaimedInv == \A b \in Bars : \A p \in decided[b] : b \in claims[p[1]] /\ p[2] <= epoch
SeenInv ==
  \A b \in Bars : age[b] # "stale" /\ (Queued(b) \/ Held(b) \/ DecidedNow(b)) => b \in seen
PlaceInv ==
  \A b \in Bars : age[b] # "stale" =>
    /\ \A i, j \in 1..Len(queue) : queue[i] = b /\ queue[j] = b => i = j
    /\ Held(b) \/ DecidedNow(b) => ~Queued(b)
NewInv == work.at = "claim" => ~DecidedNow(work.bar)

IntakeInv == ClaimedInv /\ SeenInv /\ PlaceInv /\ NewInv /\ DecidedAgainOnlyAfterBoth

LEMMA InitIntake == Init => IntakeInv
<1> SUFFICES ASSUME Init PROVE IntakeInv
  OBVIOUS
<1>1. queue = <<>> /\ work.at = "idle" /\ \A b \in Bars : decided[b] = {}
  BY DEF Init, Idle
<1>2. Len(queue) = 0 BY <1>1
<1>4. 1..Len(queue) = {} BY <1>2
<1>a. \A b \in Bars : ~Queued(b) BY <1>4 DEF Queued
<1>b. \A b \in Bars : ~Held(b) BY <1>1 DEF Held
<1>c. \A b \in Bars : ~DecidedNow(b) BY <1>1 DEF DecidedNow
<1>3. \A b \in Bars : ~Queued(b) /\ ~Held(b) /\ ~DecidedNow(b) /\ decided[b] = {}
  BY <1>1, <1>a, <1>b, <1>c
<1>5. SeenInv /\ PlaceInv BY <1>3, <1>4 DEF SeenInv, PlaceInv
<1>6. ClaimedInv /\ NewInv BY <1>1, <1>3 DEF ClaimedInv, NewInv
<1>7. DecidedAgainOnlyAfterBoth BY <1>3 DEF DecidedAgainOnlyAfterBoth
<1> QED BY <1>5, <1>6, <1>7 DEF IntakeInv

\* A step that moves no bar: none gets fresh again, none is handed over.
LEMMA NothingMoves ==
  ASSUME TypeOK, IntakeInv, UNCHANGED <<queue, seen, claims, decided, epoch>>,
         \A b \in Bars : age'[b] # "stale" => age[b] # "stale",
         work'.at # "idle" => work.at # "idle" /\ work'.bar = work.bar,
         work'.at = "claim" => work.at = "claim" /\ work'.bar = work.bar
  PROVE  IntakeInv'
<1>a. \A b \in Bars : Queued(b)' <=> Queued(b) BY DEF Queued
<1>b. \A b \in Bars : DecidedNow(b)' <=> DecidedNow(b) BY DEF DecidedNow
<1>c. \A b \in Bars : Held(b)' => Held(b) BY DEF Held
<1>1. \A b \in Bars : /\ Queued(b)' <=> Queued(b)
                      /\ DecidedNow(b)' <=> DecidedNow(b)
                      /\ Held(b)' => Held(b)
  BY <1>a, <1>b, <1>c
<1>2. SeenInv' BY <1>1 DEF IntakeInv, SeenInv
<1>3. PlaceInv' BY <1>1 DEF IntakeInv, PlaceInv
<1>4. ClaimedInv' BY DEF IntakeInv, ClaimedInv
<1>5. NewInv' BY DEF IntakeInv, NewInv, DecidedNow
<1>6. DecidedAgainOnlyAfterBoth' BY DEF IntakeInv, DecidedAgainOnlyAfterBoth
<1> QED BY <1>2, <1>3, <1>4, <1>5, <1>6 DEF IntakeInv

LEMMA TimeIntake ==
  ASSUME TypeOK, IntakeInv, Midnight \/ \E b \in Bars : BarCloses(b) \/ GoesStale(b)
  PROVE  IntakeInv'
<1>1. UNCHANGED <<queue, seen, claims, decided, epoch, work>>
  BY DEF Midnight, BarCloses, GoesStale, process, files, history
<1>2. \A b \in Bars : age'[b] # "stale" => age[b] # "stale"
  BY DEF Midnight, BarCloses, GoesStale, Fresh, TypeOK
<1> QED BY <1>1, <1>2, NothingMoves

LEMMA DeliverIntake ==
  ASSUME TypeOK, IntakeInv, NEW b \in Bars, Deliver(b)
  PROVE  IntakeInv'
<1>1. /\ UNCHANGED <<claims, decided, epoch, work, age>>
      /\ seen' = seen \cup {b} /\ queue' = IF b \in seen THEN queue ELSE Append(queue, b)
  BY DEF Deliver, files, history
<1>2. queue \in Seq(Bars) BY DEF TypeOK
<1>3. CASE b \in seen
  <2>1. seen' = seen /\ queue' = queue BY <1>1, <1>3
  <2> QED BY <1>1, <2>1, NothingMoves
<1>4. CASE b \notin seen
  <2>1. /\ queue' = Append(queue, b) /\ Len(queue') = Len(queue) + 1 /\ Len(queue) \in Nat
        /\ \A i \in 1..Len(queue) : queue'[i] = queue[i]
        /\ queue'[Len(queue) + 1] = b
    BY <1>1, <1>2, <1>4
  <2>2. \A c \in Bars : /\ DecidedNow(c)' <=> DecidedNow(c)
                        /\ Held(c)' <=> Held(c)
    BY <1>1 DEF DecidedNow, Held
  <2>3. \A c \in Bars : Queued(c)' => Queued(c) \/ c = b
    BY <2>1 DEF Queued
  <2>4. age[b] # "stale" => ~Queued(b) /\ ~Held(b) /\ ~DecidedNow(b)
    BY <1>4 DEF IntakeInv, SeenInv
  <2>5. SeenInv' BY <1>1, <2>2, <2>3 DEF IntakeInv, SeenInv
  <2>6. ASSUME NEW c \in Bars, age[c] # "stale"
        PROVE  /\ \A i, j \in 1..Len(queue') : queue'[i] = c /\ queue'[j] = c => i = j
               /\ Held(c) \/ DecidedNow(c) => ~Queued(c)'
    <3>1. CASE c = b
      <4>1. \A i \in 1..Len(queue) : queue[i] # b BY <2>4, <2>6, <3>1 DEF Queued
      <4>2. \A i \in 1..Len(queue') : queue'[i] = b => i = Len(queue) + 1
        BY <2>1, <4>1
      <4>3. ~Held(c) /\ ~DecidedNow(c) BY <2>4, <2>6, <3>1
      <4> QED BY <3>1, <4>2, <4>3
    <3>2. CASE c # b
      <4>1. \A i \in 1..Len(queue') : queue'[i] = c => i \in 1..Len(queue) /\ queue[i] = c
        BY <2>1, <3>2
      <4>2. \A i, j \in 1..Len(queue) : queue[i] = c /\ queue[j] = c => i = j
        BY <2>6 DEF IntakeInv, PlaceInv
      <4>3. Held(c) \/ DecidedNow(c) => ~Queued(c) BY <2>6 DEF IntakeInv, PlaceInv
      <4> QED BY <4>1, <4>2, <4>3, <2>3, <3>2
    <3> QED BY <3>1, <3>2
  <2>7. PlaceInv' BY <1>1, <2>2, <2>6 DEF PlaceInv
  <2>8. ClaimedInv' BY <1>1 DEF IntakeInv, ClaimedInv
  <2>9. NewInv' BY <1>1 DEF IntakeInv, NewInv, DecidedNow
  <2>10. DecidedAgainOnlyAfterBoth' BY <1>1 DEF IntakeInv, DecidedAgainOnlyAfterBoth
  <2> QED BY <2>5, <2>7, <2>8, <2>9, <2>10 DEF IntakeInv
<1> QED BY <1>3, <1>4

LEMMA ExpireIntake ==
  ASSUME TypeOK, IntakeInv, NEW b \in Bars, Expire(b)
  PROVE  IntakeInv'
<1>1. /\ UNCHANGED <<claims, decided, epoch, work, age, queue>>
      /\ seen' = seen \ {b} /\ age[b] = "stale"
  BY DEF Expire, world, files, history
<1>2. \A c \in Bars : /\ Queued(c)' <=> Queued(c)
                      /\ DecidedNow(c)' <=> DecidedNow(c)
                      /\ Held(c)' <=> Held(c)
  BY <1>1 DEF Queued, DecidedNow, Held
<1>3. SeenInv' BY <1>1, <1>2 DEF IntakeInv, SeenInv
<1>4. PlaceInv' BY <1>1, <1>2 DEF IntakeInv, PlaceInv
<1>5. ClaimedInv' BY <1>1 DEF IntakeInv, ClaimedInv
<1>6. NewInv' BY <1>1 DEF IntakeInv, NewInv, DecidedNow
<1>7. DecidedAgainOnlyAfterBoth' BY <1>1 DEF IntakeInv, DecidedAgainOnlyAfterBoth
<1> QED BY <1>3, <1>4, <1>5, <1>6, <1>7 DEF IntakeInv

\* A restart forgets everything but the claims; nobody has decided in the new
\* process yet.
LEMMA CrashIntake == ASSUME TypeOK, IntakeInv, Crash PROVE IntakeInv'
<1>1. /\ UNCHANGED <<claims, decided>> /\ epoch' = epoch + 1 /\ queue' = <<>> /\ work'.at = "idle"
  BY IdleIsTyped DEF Crash, files, history
<1>2. epoch \in Nat /\ decided \in [Bars -> SUBSET (Days \X Nat)] BY DEF TypeOK
<1>3. Len(queue') = 0 /\ 1..Len(queue') = {} BY <1>1
<1>4. \A b \in Bars : \A p \in decided[b] : p[2] \in Nat /\ p[2] < epoch'
  <2> SUFFICES ASSUME NEW b \in Bars, NEW p \in decided[b] PROVE p[2] \in Nat /\ p[2] < epoch'
    OBVIOUS
  <2>1. p[2] \in Nat BY <1>2
  <2>2. p[2] <= epoch BY DEF IntakeInv, ClaimedInv
  <2> QED BY <1>1, <1>2, <2>1, <2>2
<1>5. \A b \in Bars : ~DecidedNow(b)' BY <1>1, <1>2, <1>4 DEF DecidedNow
<1>6. \A b \in Bars : ~Queued(b)' /\ ~Held(b)' BY <1>1, <1>3 DEF Queued, Held
<1>7. SeenInv' /\ PlaceInv' BY <1>3, <1>5, <1>6 DEF SeenInv, PlaceInv
<1>8. ClaimedInv' BY <1>1, <1>2, <1>4 DEF IntakeInv, ClaimedInv
<1>9. NewInv' BY <1>1 DEF NewInv
<1>10. DecidedAgainOnlyAfterBoth' BY <1>1 DEF IntakeInv, DecidedAgainOnlyAfterBoth
<1> QED BY <1>7, <1>8, <1>9, <1>10 DEF IntakeInv

LEMMA LockedIntake ==
  ASSUME TypeOK, IntakeInv, TurnAway \/ KeepInLane \/ Begin PROVE IntakeInv'
<1>0. PICK b : b = Head(queue) OBVIOUS
<1>1. /\ UNCHANGED <<claims, decided, epoch, seen, age>> /\ queue # <<>> /\ queue' = Tail(queue)
      /\ work.at = "idle" /\ (work'.at = "idle" \/ (work' = Rebuilt(b, day) /\ Fresh(b)))
  BY <1>0, IdleIsTyped DEF TurnAway, KeepInLane, Begin, TakeLock, PlainRow, world, files, history
<1>2. queue \in Seq(Bars) BY DEF TypeOK
<1>3. /\ Len(queue) \in Nat /\ Len(queue) > 0 /\ b = queue[1] /\ b \in Bars
      /\ Len(queue') = Len(queue) - 1
      /\ \A i \in 1..Len(queue') : queue'[i] = queue[i + 1]
  BY <1>0, <1>1, <1>2
<1>4. work'.at # "idle" => work'.bar = b /\ age[b] # "stale"
  <2>1. Rebuilt(b, day).bar = b BY DEF Rebuilt
  <2>2. Fresh(b) => age[b] # "stale" BY DEF Fresh
  <2> QED BY <1>1, <2>1, <2>2
<1>5. Queued(b) BY <1>3 DEF Queued
<1>6. \A c \in Bars : Queued(c)' => Queued(c)
  <2> SUFFICES ASSUME NEW c \in Bars, NEW i \in 1..Len(queue'), queue'[i] = c PROVE Queued(c)
    BY DEF Queued
  <2>1. i + 1 \in 1..Len(queue) /\ queue[i + 1] = c BY <1>3
  <2> QED BY <2>1 DEF Queued
<1>7. \A c \in Bars : DecidedNow(c)' <=> DecidedNow(c) BY <1>1 DEF DecidedNow
<1>8. \A c \in Bars : Held(c)' => c = b /\ age[b] # "stale" BY <1>4 DEF Held
<1>9. age[b] # "stale" => ~Queued(b)' /\ ~DecidedNow(b)
  <2> SUFFICES ASSUME age[b] # "stale" PROVE ~Queued(b)' /\ ~DecidedNow(b)
    OBVIOUS
  <2>1. \A i, j \in 1..Len(queue) : queue[i] = b /\ queue[j] = b => i = j
    BY <1>3 DEF IntakeInv, PlaceInv
  <2>2. \A i \in 1..Len(queue') : queue'[i] # b
    <3> SUFFICES ASSUME NEW i \in 1..Len(queue'), queue'[i] = b PROVE FALSE
      OBVIOUS
    <3>1. i + 1 \in 1..Len(queue) /\ 1 \in 1..Len(queue) /\ queue[i + 1] = b /\ queue[1] = b
      BY <1>3
    <3>2. i + 1 = 1 BY <2>1, <3>1
    <3> QED BY <3>2
  <2>3. ~DecidedNow(b) BY <1>3, <1>5 DEF IntakeInv, PlaceInv
  <2> QED BY <2>2, <2>3 DEF Queued
<1>10. SeenInv' BY <1>1, <1>3, <1>5, <1>6, <1>7, <1>8 DEF IntakeInv, SeenInv
<1>11. ASSUME NEW c \in Bars, age[c] # "stale"
       PROVE  /\ \A i, j \in 1..Len(queue') : queue'[i] = c /\ queue'[j] = c => i = j
              /\ Held(c)' \/ DecidedNow(c) => ~Queued(c)'
  <2>1. \A i, j \in 1..Len(queue) : queue[i] = c /\ queue[j] = c => i = j
    BY <1>11 DEF IntakeInv, PlaceInv
  <2>2. ASSUME NEW i \in 1..Len(queue'), NEW j \in 1..Len(queue'), queue'[i] = c, queue'[j] = c
        PROVE  i = j
    <3>1. /\ i + 1 \in 1..Len(queue) /\ queue[i + 1] = c
          /\ j + 1 \in 1..Len(queue) /\ queue[j + 1] = c
      BY <1>3, <2>2
    <3>2. i + 1 = j + 1 BY <2>1, <3>1
    <3> QED BY <3>2
  <2>3. DecidedNow(c) => ~Queued(c)' BY <1>6, <1>11 DEF IntakeInv, PlaceInv
  <2>4. Held(c)' => ~Queued(c)' BY <1>8, <1>9
  <2> QED BY <2>2, <2>3, <2>4
<1>12. PlaceInv' BY <1>1, <1>7, <1>11 DEF PlaceInv
<1>13. ClaimedInv' BY <1>1 DEF IntakeInv, ClaimedInv
<1>14. NewInv'
  <2>1. work'.at = "claim" => work'.bar = b /\ ~DecidedNow(b) BY <1>4, <1>9
  <2> QED BY <1>1, <2>1 DEF NewInv, DecidedNow
<1>15. DecidedAgainOnlyAfterBoth' BY <1>1 DEF IntakeInv, DecidedAgainOnlyAfterBoth
<1> QED BY <1>10, <1>12, <1>13, <1>14, <1>15 DEF IntakeInv

LEMMA ClaimIntake == ASSUME TypeOK, IntakeInv, ClaimBar PROVE IntakeInv'
<1> DEFINE b == work.bar
           t == work.today
<1>1. /\ work.at = "claim" /\ b \notin claims[t] /\ UNCHANGED <<epoch, seen, age, queue>>
      /\ claims' = [claims EXCEPT ![t] = @ \cup {b}]
      /\ decided' = [decided EXCEPT ![b] = @ \cup {<<t, epoch>>}]
      /\ work' = [work EXCEPT !.at = "resolve"]
  BY DEF ClaimBar, world
<1>2. /\ b \in Bars /\ t \in Days /\ epoch \in Nat /\ claims \in [Days -> SUBSET Bars]
      /\ decided \in [Bars -> SUBSET (Days \X Nat)] /\ work.bar = b
      /\ work'.at = "resolve" /\ work'.bar = b
  BY <1>1 DEF TypeOK
<1>3. ~DecidedNow(b) /\ Held(b) BY <1>1 DEF IntakeInv, NewInv, Held
<1> HIDE DEF b, t
<1>4. \A c \in Bars : \A p \in decided'[c] : p \in decided[c] \/ (c = b /\ p = <<t, epoch>>)
  BY <1>1, <1>2
<1>5. \A c \in Bars : DecidedNow(c)' => DecidedNow(c) \/ Held(c)
  BY <1>1, <1>3, <1>4 DEF DecidedNow
<1>6. \A c \in Bars : (Queued(c)' <=> Queued(c)) /\ (Held(c)' => Held(c))
  <2>1. \A c \in Bars : Held(c)' => c = b BY <1>2 DEF Held
  <2> QED BY <1>1, <1>3, <2>1 DEF Queued
<1>7. SeenInv' BY <1>1, <1>5, <1>6 DEF IntakeInv, SeenInv
<1>8. PlaceInv' BY <1>1, <1>5, <1>6 DEF IntakeInv, PlaceInv
<1>9. NewInv' BY <1>2 DEF NewInv
<1>10. ClaimedInv'
  <2> SUFFICES ASSUME NEW c \in Bars, NEW p \in decided'[c]
               PROVE  c \in claims'[p[1]] /\ p[2] <= epoch'
    BY DEF ClaimedInv
  <2>1. CASE p \in decided[c]
    <3>1. c \in claims[p[1]] /\ p[2] <= epoch /\ p[1] \in Days
      BY <1>2, <2>1 DEF IntakeInv, ClaimedInv
    <3> QED BY <1>1, <1>2, <3>1
  <2>2. CASE c = b /\ p = <<t, epoch>>
    BY <1>1, <1>2, <2>2
  <2> QED BY <1>4, <2>1, <2>2
<1>11. DecidedAgainOnlyAfterBoth'
  <2> SUFFICES ASSUME NEW c \in Bars, NEW p \in decided'[c], NEW q \in decided'[c], p # q
               PROVE  p[1] # q[1] /\ p[2] # q[2]
    BY DEF DecidedAgainOnlyAfterBoth
  <2>1. ASSUME NEW r \in decided[b] PROVE r[1] # t /\ r[2] # epoch
    <3>1. b \in claims[r[1]] BY <1>2 DEF IntakeInv, ClaimedInv
    <3>2. r[2] # epoch BY <1>3 DEF DecidedNow
    <3> QED BY <1>1, <3>1, <3>2
  <2>2. CASE p \in decided[c] /\ q \in decided[c]
    BY <2>2 DEF IntakeInv, DecidedAgainOnlyAfterBoth
  <2>3. CASE p \in decided[c] /\ c = b /\ q = <<t, epoch>> BY <2>1, <2>3
  <2>4. CASE q \in decided[c] /\ c = b /\ p = <<t, epoch>> BY <2>1, <2>4
  <2> QED BY <1>4, <2>2, <2>3, <2>4
<1> QED BY <1>7, <1>8, <1>9, <1>10, <1>11 DEF IntakeInv

LEMMA RestIntake ==
  ASSUME TypeOK, IntakeInv,
         \/ AlreadyClaimed \/ ClaimFails \/ NotResolved \/ NoEntry
         \/ \E w \in Writes : Intend(w) \/ NotFilled(w) \/ Open(w)
         \/ \E w \in Writes, result \in Results : Resolve(result, w) \/ Evidence(result, w)
  PROVE  IntakeInv'
<1>1. UNCHANGED <<queue, seen, epoch, age>>
  BY DEF AlreadyClaimed, ClaimFails, NotResolved, NoEntry, Intend, NotFilled, Open, Resolve,
         Evidence, world
<1>2. UNCHANGED <<claims, decided>>
  BY DEF AlreadyClaimed, ClaimFails, NotResolved, NoEntry, Intend, NotFilled, Open, Resolve,
         Evidence, WriteRow, PlainRow, files, history
<1>3. work \in Jobs BY TypeParts DEF WorkTyped
<1>4. work'.at # "idle" => work.at # "idle" /\ work'.bar = work.bar /\ work'.at # "claim"
  BY <1>3, IdleIsTyped DEF Jobs, AlreadyClaimed, ClaimFails, NotResolved, NoEntry, Intend,
         NotFilled, Open, Resolve, Evidence
<1> QED BY <1>1, <1>2, <1>4, NothingMoves

LEMMA NextIntake == TypeOK /\ IntakeInv /\ [Next]_vars => IntakeInv'
<1> SUFFICES ASSUME TypeOK, IntakeInv, [Next]_vars PROVE IntakeInv'
  OBVIOUS
<1>1. CASE Environment
  BY <1>1, TimeIntake, CrashIntake, DeliverIntake, ExpireIntake DEF Environment
<1>2. CASE Handler BY <1>2, LockedIntake, ClaimIntake, RestIntake DEF Handler
<1>3. CASE UNCHANGED vars
  BY <1>3, NothingMoves DEF vars, world, process, files, history
<1> QED BY <1>1, <1>2, <1>3 DEF Next

(***************************************************************************)
(* The day.  What the handler carries agrees with the files it came from   *)
(* until its last row, or the latch or the cut line shows that it does not.*)
(***************************************************************************)
Below == {ss \in Nat \X Nat : ss[1] < ss[2]}

LEMMA BelowIsWellFounded == IsWellFoundedOn(Below, Nat)
BY NatLessThanWellFounded, Zenon DEF OpToRel, Below

LEMMA LatestDay ==
  ASSUME NEW T \in SUBSET Days, T # {}
  PROVE  \E d \in T : \A e \in T : e <= d
<1>1. LastDay \in Nat BY LimitAssumption
<1> DEFINE U == {LastDay - d : d \in T}
<1>a. \A d \in T : LastDay - d \in Nat BY <1>1 DEF Days
<1>2. U \subseteq Nat /\ U # {} BY <1>a
<1>3. PICK x \in U : \A y \in U : <<y, x>> \notin Below
  <2> HIDE DEF U
  <2> QED BY <1>2, BelowIsWellFounded, WFMin, Zenon
<1>4. PICK d \in T : x = LastDay - d OBVIOUS
<1>5. ASSUME NEW e \in T, e > d PROVE FALSE
  <2>1. LastDay - e \in U /\ LastDay - e \in Nat /\ x \in Nat BY <1>2
  <2>2. <<LastDay - e, x>> \in Below BY <2>1, <1>1, <1>4, <1>5 DEF Below, Days
  <2> QED BY <2>1, <2>2, <1>3
<1> QED BY <1>5 DEF Days

\* No file of a day to come has a position.
FutureInv ==
  /\ \A e \in Days : e > day => book[e].open = None
  /\ work.at # "idle" =>
       work.today <= day /\ \A e \in Days : e > work.today => book[e].open = None

TotalsInv == \A d \in Days \ unreadable : taken[d] = book[d].count + lost[d]

\* The day a handler was rebuilt from.
Carried ==
  work.at # "idle" =>
    /\ taken[work.today] = work.count + lost[work.today]
    /\ work.pos # None => book[work.posDay].open # None
    /\ latched \/ \A d \in Reach(work.today) \ unreadable :
                    book[d].open # None => work.pos # None /\ d = work.posDay

Sending == work.at = "send" => work.pos = None /\ ~latched /\ work.count < Capacity

DayInv == FutureInv /\ TotalsInv /\ Carried /\ Sending /\ OnePosition /\ DailyCapacity /\ BookBalances

LEMMA InitDay == Init => DayInv
<1> SUFFICES ASSUME Init PROVE DayInv
  OBVIOUS
<1>1. /\ work.at = "idle"
      /\ \A d \in Days : /\ book[d].count = 0 /\ book[d].open = None
                          /\ taken[d] = 0 /\ lost[d] = 0 /\ closed[d] = 0
  BY DEF Init, Idle, EmptyDay
<1>2. FutureInv /\ Carried /\ Sending BY <1>1 DEF FutureInv, Carried, Sending
<1>3. TotalsInv /\ OnePosition /\ BookBalances BY <1>1 DEF TotalsInv, OnePosition, BookBalances
<1>4. DailyCapacity BY <1>1, Limits DEF DailyCapacity
<1> QED BY <1>2, <1>3, <1>4 DEF DayInv

\* A step that writes no row: files may only get unreadable.
LEMMA NoRow ==
  ASSUME TypeOK, DayInv, UNCHANGED <<book, taken, lost, closed>>,
         unreadable \subseteq unreadable', day' \in Nat, day' >= day,
         work'.at # "idle" =>
           /\ work.at # "idle" /\ latched' = latched
           /\ work'.today = work.today /\ work'.pos = work.pos /\ work'.posDay = work.posDay
           /\ work'.count = work.count,
         work'.at = "send" => work.pos = None /\ ~latched /\ work.count < Capacity
  PROVE  DayInv'
<1>0. day \in Nat BY DayIsNat DEF TypeOK
<1>1. FutureInv'
  <2>1. \A e \in Days : e > day' => book'[e].open = None
    BY <1>0, DayIsNat DEF DayInv, FutureInv
  <2>2. ASSUME work'.at # "idle"
        PROVE  work'.today <= day' /\ \A e \in Days : e > work'.today => book'[e].open = None
    <3>1. /\ work.today <= day /\ \A e \in Days : e > work.today => book[e].open = None
          /\ work.today \in Nat /\ work'.today = work.today
      BY <2>2, DayIsNat DEF DayInv, FutureInv, TypeOK
    <3> QED BY <3>1, <1>0
  <2> QED BY <2>1, <2>2 DEF FutureInv
<1>2. TotalsInv' /\ OnePosition' /\ BookBalances'
  BY DEF DayInv, TotalsInv, OnePosition, BookBalances
<1>3. DailyCapacity' BY DEF DayInv, DailyCapacity
<1>4. Carried'
  <2> SUFFICES ASSUME work'.at # "idle"
               PROVE  /\ taken'[work'.today] = work'.count + lost'[work'.today]
                      /\ work'.pos # None => book'[work'.posDay].open # None
                      /\ latched' \/ \A d \in Reach(work'.today) \ unreadable' :
                           book'[d].open # None => work'.pos # None /\ d = work'.posDay
    BY DEF Carried, Reach
  <2>1. /\ taken[work.today] = work.count + lost[work.today]
        /\ work.pos # None => book[work.posDay].open # None
    BY DEF DayInv, Carried
  <2>2. latched \/ \A d \in Reach(work.today) \ unreadable :
                     book[d].open # None => work.pos # None /\ d = work.posDay
    BY DEF DayInv, Carried
  <2>3. Reach(work'.today) = Reach(work.today) BY DEF Reach
  <2>4. latched' \/ \A d \in Reach(work'.today) \ unreadable' :
                      book'[d].open # None => work'.pos # None /\ d = work'.posDay
    BY <2>2, <2>3
  <2> QED BY <2>1, <2>4
<1>5. Sending' BY DEF Sending
<1> QED BY <1>1, <1>2, <1>3, <1>4, <1>5 DEF DayInv

LEMMA WorldDay ==
  ASSUME TypeOK, DayInv,
         \/ Midnight \/ Crash
         \/ \E b \in Bars : BarCloses(b) \/ GoesStale(b) \/ Deliver(b) \/ Expire(b)
  PROVE  DayInv'
<1>1. UNCHANGED <<book, unreadable, taken, lost, closed>>
  BY DEF Midnight, Crash, BarCloses, GoesStale, Deliver, Expire, files, history
<1>2. day' \in Nat /\ day' >= day
  <2>1. day \in Nat BY DayIsNat DEF TypeOK
  <2>2. day' = day \/ day' = day + 1
    BY DEF Midnight, Crash, BarCloses, GoesStale, Deliver, Expire, world
  <2> QED BY <2>1, <2>2
<1>3. CASE UNCHANGED <<work, latched>> BY <1>1, <1>2, <1>3, NoRow DEF DayInv, Sending
<1>4. CASE Crash
  <2>1. work'.at = "idle" BY <1>4, IdleIsTyped DEF Crash
  <2> QED BY <1>1, <1>2, <2>1, NoRow
<1> QED BY <1>3, <1>4 DEF Midnight, BarCloses, GoesStale, Deliver, Expire, process

LEMMA QuietDay ==
  ASSUME TypeOK, DayInv, AlreadyClaimed \/ NotResolved \/ ClaimBar \/ ClaimFails \/ NoEntry
  PROVE  DayInv'
<1>1. UNCHANGED <<book, taken, lost, closed, latched, day>> /\ unreadable \subseteq unreadable'
  BY DEF AlreadyClaimed, NotResolved, ClaimBar, ClaimFails, NoEntry, PlainRow, world, files, history
<1>2. day' \in Nat /\ day' >= day BY <1>1, DayIsNat DEF TypeOK
<1>3. work \in Jobs BY TypeParts DEF WorkTyped
<1>4. \/ work'.at = "idle"
      \/ /\ work.at # "idle" /\ work'.at \in {"resolve", "gate"}
         /\ work'.today = work.today /\ work'.pos = work.pos /\ work'.posDay = work.posDay
         /\ work'.count = work.count
  BY <1>3, IdleIsTyped DEF AlreadyClaimed, NotResolved, ClaimBar, ClaimFails, NoEntry, Jobs
<1> QED BY <1>1, <1>2, <1>4, NoRow

(***************************************************************************)
(* The day is rebuilt.                                                     *)
(***************************************************************************)
LEMMA TodayIsSearched ==
  ASSUME NEW today \in Days PROVE today \in Searched(today)
<1>1. today \in Nat /\ Lookback \in Nat BY DayIsNat, Limits
<1>2. \A e \in Reach(today) : ~(e > today) BY <1>1, DayIsNat DEF Reach
<1>3. today \in Reach(today) BY <1>1 DEF Reach
<1> QED BY <1>2, <1>3 DEF Searched, Reach

\* What the rebuilt state says of every day in reach that can be read.
LEMMA RebuiltKnows ==
  ASSUME TypeOK, OnePosition, Readable(day), NEW bar
  PROVE  LET r == Rebuilt(bar, day)
         IN /\ day \notin unreadable /\ r.at = "claim" /\ r.today = day
            /\ r.count = book[day].count /\ r.pos = book[r.posDay].open
            /\ \A d \in Reach(day) \ unreadable :
                 book[d].open # None => r.pos # None /\ d = r.posDay
<1> DEFINE from == IF OpenDay(day) = {} THEN day ELSE CHOOSE d \in OpenDay(day) : TRUE
<1>1. Rebuilt(bar, day) =
        [at |-> "claim", bar |-> bar, today |-> day, pos |-> book[from].open, posDay |-> from,
         count |-> book[day].count, streak |-> book[day].streak]
  BY DEF Rebuilt
<1>2. day \in Days /\ day \in Nat /\ Lookback \in Nat BY DayIsNat, Limits DEF TypeOK
<1>3. day \notin unreadable BY <1>2, TodayIsSearched DEF Readable
<1>4. Reach(day) \subseteq Days BY DEF Reach
<1>5. OpenDay(day) # {} => from \in OpenDay(day) OBVIOUS
<1> HIDE DEF from
<1>6. CASE OpenDay(day) # {}
  <2>1. /\ from \in Reach(day) /\ from \notin unreadable /\ book[from].open # None
        /\ \A e \in Reach(day) : e > from => book[e].open = None
    BY <1>5, <1>6 DEF OpenDay, Searched, Readable, Reach
  <2>2. ASSUME NEW d \in Reach(day) \ unreadable, book[d].open # None PROVE d = from
    <3>1. d \in Nat /\ from \in Nat /\ day - Lookback <= d /\ from <= day
      BY <2>1, <1>4, DayIsNat DEF Reach
    <3>2. ~(d > from) BY <2>1, <2>2
    <3>3. ~(d < from)
      <4> SUFFICES ASSUME d < from PROVE FALSE
        OBVIOUS
      <4>1. from - d > Lookback
        BY <2>1, <2>2, <1>4 DEF OnePosition
      <4> QED BY <4>1, <3>1, <1>2
    <3> QED BY <3>1, <3>2, <3>3
  <2> QED BY <1>1, <1>3, <2>1, <2>2
<1>7. CASE OpenDay(day) = {}
  <2> DEFINE T == {d \in Reach(day) : book[d].open # None}
  <2>1. T = {}
    <3> SUFFICES ASSUME T # {} PROVE FALSE
      OBVIOUS
    <3>1. PICK d \in T : \A e \in T : e <= d BY <1>4, LatestDay
    <3>2. \A e \in Reach(day) : e > d => book[e].open = None
      BY <3>1, <1>4, DayIsNat
    <3>3. d \in OpenDay(day) BY <3>2 DEF OpenDay, Searched, Reach
    <3> QED BY <3>3, <1>7
  <2> QED BY <1>1, <1>3, <2>1
<1> QED BY <1>6, <1>7

LEMMA TurnedAwayDay == ASSUME TypeOK, DayInv, TurnAway \/ KeepInLane PROVE DayInv'
<1>1. /\ UNCHANGED <<book, taken, lost, closed, day>> /\ unreadable \subseteq unreadable'
      /\ work' = work /\ work.at = "idle"
  BY DEF TurnAway, KeepInLane, TakeLock, PlainRow, world, files, history
<1>2. day' \in Nat /\ day' >= day BY <1>1, DayIsNat DEF TypeOK
<1> QED BY <1>1, <1>2, NoRow

LEMMA BeginDay == ASSUME TypeOK, DayInv, Begin PROVE DayInv'
<1>1. /\ UNCHANGED <<book, unreadable, taken, lost, closed, latched, day>>
      /\ work' = Idle \/ (Readable(day) /\ work' = Rebuilt(Head(queue), day))
  BY DEF Begin, world, files, history
<1>2. day' \in Nat /\ day' >= day /\ day \in Days BY <1>1, DayIsNat DEF TypeOK
<1>3. CASE work' = Idle BY <1>1, <1>2, <1>3, IdleIsTyped, NoRow
<1>4. CASE Readable(day) /\ work' = Rebuilt(Head(queue), day)
  <2>1. /\ day \notin unreadable /\ work'.at = "claim" /\ work'.today = day
        /\ work'.count = book[day].count /\ work'.pos = book[work'.posDay].open
        /\ \A d \in Reach(day) \ unreadable :
             book[d].open # None => work'.pos # None /\ d = work'.posDay
    BY <1>4, RebuiltKnows DEF DayInv
  <2>2. FutureInv' BY <1>1, <1>2, <2>1 DEF DayInv, FutureInv
  <2>3. TotalsInv' /\ OnePosition' /\ BookBalances'
    BY <1>1 DEF DayInv, TotalsInv, OnePosition, BookBalances
  <2>4. DailyCapacity' BY <1>1 DEF DayInv, DailyCapacity
  <2>5. taken[day] = book[day].count + lost[day]
    BY <1>2, <2>1 DEF DayInv, TotalsInv
  <2>6. Reach(work'.today) = Reach(day) BY <2>1
  <2>8. Carried' BY <1>1, <2>1, <2>5, <2>6 DEF Carried, Reach
  <2>9. Sending' BY <2>1 DEF Sending
  <2> QED BY <2>2, <2>3, <2>4, <2>8, <2>9 DEF DayInv
<1> QED BY <1>1, <1>3, <1>4

(***************************************************************************)
(* The steps that write a row.                                             *)
(***************************************************************************)
LEMMA RowEffect ==
  ASSUME TypeOK, NEW d \in Days, NEW w \in Writes, NEW totals \in DayTotals, WriteRow(d, w, totals)
  PROVE  /\ \A e \in Days : e # d => book'[e] = book[e]
         /\ w = "written" => book'[d] = totals /\ unreadable' = unreadable
         /\ w # "written" => book' = book
         /\ w \in {"cut", "merged"} => d \in unreadable'
         /\ unreadable \subseteq unreadable'
         /\ Raises(w) => latched'
         /\ ~Raises(w) => latched' = latched
<1>0. book \in [Days -> DayTotals] BY TypeParts DEF FilesTyped
<1>1. /\ book' = IF w = "written" THEN [book EXCEPT ![d] = totals] ELSE book
      /\ unreadable' = IF w \in {"cut", "merged"} THEN unreadable \cup {d} ELSE unreadable
  BY DEF WriteRow
<1>2. Raises(w) => latched' BY Zenon DEF WriteRow, Latch
<1>3. ~Raises(w) => latched' = latched
  <2>1. latched \in BOOLEAN BY DEF TypeOK
  <2> QED BY <2>1, Zenon DEF WriteRow, Latch
<1>4. \A e \in Days : e # d => book'[e] = book[e] BY <1>0, <1>1
<1>5. w = "written" => book'[d] = totals /\ unreadable' = unreadable BY <1>0, <1>1
<1>6. w # "written" => book' = book BY <1>1
<1>7. w \in {"cut", "merged"} => d \in unreadable' BY <1>1
<1>8. unreadable \subseteq unreadable' BY <1>1
<1> QED BY <1>2, <1>3, <1>4, <1>5, <1>6, <1>7, <1>8

LEMMA ResolveDay ==
  ASSUME TypeOK, DayInv, NEW w \in Writes, NEW result \in Results, Resolve(result, w)
  PROVE  DayInv'
<1> DEFINE p == work.posDay
           n == IF w = "written" THEN 1 ELSE 0
<1>1. /\ work.at = "resolve" /\ work.pos # None /\ WriteRow(p, w, AddResult(book[p], result))
      /\ closed' = [closed EXCEPT ![p] = @ + n]
      /\ UNCHANGED <<day, taken, lost>>
  BY DEF Resolve, world
<1>2. work \in Jobs /\ p \in Days BY TypeParts DEF WorkTyped, Jobs
<1>3. /\ work'.at = "gate" /\ work'.pos = None /\ work'.today = work.today
      /\ work'.count = work.count /\ work'.posDay = work.posDay
  BY <1>2 DEF Resolve, Jobs
<1>4. book \in [Days -> DayTotals] BY TypeParts DEF FilesTyped
<1> DEFINE totals == AddResult(book[p], result)
<1>5. /\ totals \in DayTotals /\ totals.count = book[p].count /\ totals.open = None
  <2>1. book[p] \in DayTotals BY <1>2, <1>4
  <2>2. StreakAfter(book[p].streak, result) \in Nat BY <2>1 DEF StreakAfter, DayTotals
  <2> QED BY <2>1, <2>2 DEF AddResult, DayTotals
<1> HIDE DEF totals
<1>6. WriteRow(p, w, totals) BY <1>1 DEF totals
<1>7. /\ \A e \in Days : e # p => book'[e] = book[e]
      /\ w = "written" => book'[p] = totals /\ unreadable' = unreadable
      /\ w # "written" => book' = book
      /\ w \in {"cut", "merged"} => p \in unreadable'
      /\ unreadable \subseteq unreadable'
      /\ Raises(w) => latched'
      /\ ~Raises(w) => latched' = latched
  BY <1>2, <1>5, <1>6, RowEffect
<1> HIDE DEF p
<1>8. \A e \in Days : /\ book'[e].count = book[e].count
                      /\ book'[e].open # None => book'[e].open = book[e].open
  BY <1>2, <1>5, <1>7
<1>9. FutureInv' BY <1>1, <1>3, <1>8 DEF DayInv, FutureInv
<1>10. TotalsInv' BY <1>1, <1>7, <1>8 DEF DayInv, TotalsInv
<1>11. OnePosition' BY <1>7, <1>8 DEF DayInv, OnePosition
<1>12. DailyCapacity' BY <1>1 DEF DayInv, DailyCapacity
<1>13. book[p].open # None /\ closed[p] \in Nat
  BY <1>1, <1>2 DEF DayInv, Carried, TypeOK, p
<1>14. BookBalances'
  <2> SUFFICES ASSUME NEW d \in Days \ unreadable'
               PROVE  closed'[d] + (IF book'[d].open = None THEN 0 ELSE 1) = book'[d].count
    BY DEF BookBalances
  <2>1. closed[d] + (IF book[d].open = None THEN 0 ELSE 1) = book[d].count
    BY <1>7 DEF DayInv, BookBalances
  <2>2. closed \in [Days -> Nat] BY DEF TypeOK
  <2>3. CASE d = p /\ w = "written"
    <3>1. closed'[d] = closed[d] + 1 BY <1>1, <2>2, <2>3
    <3> QED BY <2>1, <2>3, <3>1, <1>5, <1>7, <1>13
  <2>4. CASE d # p
    <3>1. closed'[d] = closed[d] BY <1>1, <2>2, <2>4
    <3> QED BY <2>1, <2>4, <3>1, <1>7
  <2>5. CASE w # "written"
    <3>1. closed'[d] = closed[d] BY <1>1, <2>2, <2>5
    <3> QED BY <2>1, <2>5, <3>1, <1>7
  <2> QED BY <2>3, <2>4, <2>5
<1>15. Carried'
  <2>1. taken'[work'.today] = work'.count + lost'[work'.today]
    BY <1>1, <1>3 DEF DayInv, Carried
  <2>2. Reach(work'.today) = Reach(work.today) /\ Reach(work.today) \subseteq Days
    BY <1>3 DEF Reach
  <2>3. latched \/ \A d \in Reach(work.today) \ unreadable : book[d].open # None => d = p
    BY <1>1 DEF DayInv, Carried, p
  <2>4. ASSUME ~latched' PROVE \A d \in Reach(work.today) \ unreadable' : book'[d].open = None
    <3>1. ~Raises(w) /\ ~latched BY <1>7, <2>4
    <3>2. w \in {"written", "merged"} BY <3>1 DEF Raises, Writes
    <3>3. \A d \in Reach(work.today) \ unreadable' : book'[d].open # None => d = p
      BY <1>7, <1>8, <2>2, <2>3, <3>1
    <3>4. p \in unreadable' \/ book'[p].open = None BY <1>5, <1>7, <3>2
    <3> QED BY <3>3, <3>4
  <2> QED BY <1>3, <2>1, <2>2, <2>4 DEF Carried, Reach
<1>16. Sending' BY <1>3 DEF Sending
<1> QED BY <1>9, <1>10, <1>11, <1>12, <1>14, <1>15, <1>16 DEF DayInv

LEMMA IntendDay == ASSUME TypeOK, DayInv, NEW w \in Writes, Intend(w) PROVE DayInv'
<1>1. /\ work.at = "gate" /\ ~Blocked /\ WriteRow(work.today, w, book[work.today])
      /\ work' = IF Raises(w) THEN Idle ELSE [work EXCEPT !.at = "send"]
      /\ UNCHANGED <<day, taken, lost, closed>>
  BY DEF Intend, world, history
<1>2. work \in Jobs /\ work.today \in Days /\ book \in [Days -> DayTotals]
  BY TypeParts DEF WorkTyped, FilesTyped, Jobs
<1>3. book' = book BY <1>1, <1>2 DEF WriteRow
<1>4. unreadable \subseteq unreadable' /\ (~Raises(w) => latched' = latched)
  BY <1>1, <1>2, RowEffect
<1>5. work.pos = None /\ ~latched /\ work.count < Capacity
  BY <1>1, <1>2, Limits DEF Blocked, Jobs
<1>a. day' \in Nat /\ day' >= day BY <1>1, DayIsNat DEF TypeOK
<1>b. UNCHANGED <<book, taken, lost, closed>> BY <1>1, <1>3
<1>6. CASE Raises(w)
  <2>1. work'.at = "idle" BY <1>1, <1>6, IdleIsTyped
  <2> QED BY <1>a, <1>b, <1>4, <2>1, NoRow
<1>7. CASE ~Raises(w)
  <2>1. /\ work.at # "idle" /\ latched' = latched
        /\ work'.today = work.today /\ work'.pos = work.pos /\ work'.posDay = work.posDay
        /\ work'.count = work.count
    BY <1>1, <1>2, <1>4, <1>7 DEF Jobs
  <2> QED BY <1>a, <1>b, <1>4, <1>5, <2>1, NoRow
<1> QED BY <1>6, <1>7

\* Before the last row of an entry nothing that can be read is open in reach.
LEMMA NothingOpen ==
  ASSUME TypeOK, DayInv, work.at = "send"
  PROVE  /\ \A d \in Reach(work.today) \ unreadable : book[d].open = None
         /\ work.today \notin unreadable => book[work.today].open = None
         /\ taken[work.today] < Capacity + lost[work.today]
         /\ work.today <= day /\ \A e \in Days : e > work.today => book[e].open = None
<1>1. work.pos = None /\ ~latched /\ work.count < Capacity BY DEF DayInv, Sending
<1>2. work \in Jobs /\ work.today \in Days BY TypeParts DEF WorkTyped, Jobs
<1>3. \A d \in Reach(work.today) \ unreadable : book[d].open = None
  BY <1>1 DEF DayInv, Carried
<1>4. work.today \in Reach(work.today) BY <1>2, TodayIsSearched DEF Searched
<1>5. taken[work.today] = work.count + lost[work.today] BY DEF DayInv, Carried
<1>6. lost[work.today] \in Nat /\ work.count \in Nat BY <1>2 DEF TypeOK, Jobs
<1>7. work.today <= day /\ \A e \in Days : e > work.today => book[e].open = None
  BY DEF DayInv, FutureInv
<1> QED BY <1>1, <1>3, <1>4, <1>5, <1>6, <1>7, Limits

LEMMA NoPositionRow ==
  ASSUME TypeOK, DayInv, work.at = "send", work'.at = "idle", NEW w \in Writes,
         NEW totals \in DayTotals, WriteRow(work.today, w, totals),
         totals.open = None,
         book[work.today].open = None => totals.count = book[work.today].count,
         UNCHANGED <<day, taken, lost, closed>>
  PROVE  DayInv'
<1> DEFINE t == work.today
<1>1. t \in Days BY TypeParts DEF WorkTyped, Jobs
<1>2. /\ \A e \in Days : e # t => book'[e] = book[e]
      /\ w = "written" => book'[t] = totals /\ unreadable' = unreadable
      /\ w # "written" => book' = book
      /\ unreadable \subseteq unreadable'
  BY <1>1, RowEffect
<1>3. t \notin unreadable => book[t].open = None BY NothingOpen
<1> HIDE DEF t
<1>4. \A e \in Days : book'[e].open # None => book'[e].open = book[e].open
  BY <1>1, <1>2
<1>5. \A e \in Days \ unreadable' : book'[e].count = book[e].count /\ book'[e].open = book[e].open
  BY <1>1, <1>2, <1>3 DEF t
<1>6. FutureInv' BY <1>4 DEF DayInv, FutureInv
<1>7. TotalsInv' BY <1>2, <1>5 DEF DayInv, TotalsInv
<1>8. OnePosition' BY <1>2, <1>5 DEF DayInv, OnePosition
<1>9. DailyCapacity' BY DEF DayInv, DailyCapacity
<1>10. BookBalances' BY <1>2, <1>5 DEF DayInv, BookBalances
<1>11. Carried' /\ Sending' BY DEF Carried, Sending
<1> QED BY <1>6, <1>7, <1>8, <1>9, <1>10, <1>11 DEF DayInv

LEMMA LastRowDay ==
  ASSUME TypeOK, DayInv, NEW w \in Writes,
         NotFilled(w) \/ \E result \in Results : Evidence(result, w)
  PROVE  DayInv'
<1>1. /\ work.at = "send" /\ work'.at = "idle" /\ UNCHANGED <<day, taken, lost, closed>>
  BY IdleIsTyped DEF NotFilled, Evidence, world, history
<1>2. work.today \in Days /\ work.bar \in Bars BY <1>1, TypeParts DEF WorkTyped, Jobs
<1>3. book[work.today] \in DayTotals BY <1>2, TypeParts DEF FilesTyped
<1>4. CASE NotFilled(w)
  <2> DEFINE totals == AddCancelled(book[work.today])
  <2>1. WriteRow(work.today, w, totals) BY <1>4 DEF NotFilled
  <2>2. /\ totals \in DayTotals /\ totals.open = None
        /\ book[work.today].open = None => totals.count = book[work.today].count
    BY <1>2, <1>3, SomeResult, TotalsTyped, RowFields
  <2> HIDE DEF totals
  <2> QED BY <1>1, <2>1, <2>2, NoPositionRow
<1>5. ASSUME NEW result \in Results, Evidence(result, w) PROVE DayInv'
  <2> DEFINE totals == AddResult(book[work.today], result)
  <2>1. WriteRow(work.today, w, totals) BY <1>5 DEF Evidence
  <2>2. /\ totals \in DayTotals /\ totals.open = None /\ totals.count = book[work.today].count
    BY <1>2, <1>3, TotalsTyped, RowFields
  <2> HIDE DEF totals
  <2> QED BY <1>1, <2>1, <2>2, NoPositionRow
<1> QED BY <1>4, <1>5

LEMMA OpenDayStep == ASSUME TypeOK, DayInv, NEW w \in Writes, Open(w) PROVE DayInv'
<1> DEFINE t == work.today
           totals == AddTrade(book[t], work.bar)
           n == IF w = "lost" THEN 1 ELSE 0
<1>1. /\ work.at = "send" /\ work'.at = "idle" /\ WriteRow(t, w, totals)
      /\ taken' = [taken EXCEPT ![t] = @ + 1] /\ lost' = [lost EXCEPT ![t] = @ + n]
      /\ UNCHANGED <<day, closed>>
  BY IdleIsTyped DEF Open, world
<1>2. t \in Days /\ work.bar \in Bars BY <1>1, TypeParts DEF WorkTyped, Jobs
<1>3. book[t] \in DayTotals BY <1>2, TypeParts DEF FilesTyped
<1>4. /\ totals \in DayTotals /\ totals.count = book[t].count + 1 /\ totals.open = work.bar
      /\ work.bar # None
  BY <1>2, <1>3, SomeResult, TotalsTyped, RowFields, Limits
<1>5. /\ \A d \in Reach(t) \ unreadable : book[d].open = None
      /\ t \notin unreadable => book[t].open = None
      /\ taken[t] < Capacity + lost[t]
      /\ t <= day /\ \A e \in Days : e > t => book[e].open = None
  BY <1>1, NothingOpen
<1>6. taken \in [Days -> Nat] /\ lost \in [Days -> Nat] /\ closed \in [Days -> Nat]
  BY DEF TypeOK
<1> HIDE DEF totals
<1>7. /\ \A e \in Days : e # t => book'[e] = book[e]
      /\ w = "written" => book'[t] = totals /\ unreadable' = unreadable
      /\ w # "written" => book' = book
      /\ w \in {"cut", "merged"} => t \in unreadable'
      /\ unreadable \subseteq unreadable'
  BY <1>1, <1>2, <1>4, RowEffect
<1> HIDE DEF t
<1>8. /\ taken'[t] = taken[t] + 1 /\ lost'[t] = lost[t] + n
      /\ \A e \in Days : e # t => taken'[e] = taken[e] /\ lost'[e] = lost[e]
  BY <1>1, <1>2, <1>6
<1>9. n \in {0, 1} /\ (w = "lost" => n = 1) /\ (w = "written" => n = 0) OBVIOUS
<1> HIDE DEF n
<1>10. w \in {"written", "lost"} \/ t \in unreadable' BY <1>7 DEF Writes
<1>11. FutureInv'
  <2> SUFFICES ASSUME NEW e \in Days, e > day PROVE book'[e].open = None
    BY <1>1 DEF FutureInv
  <2>1. book[e].open = None BY DEF DayInv, FutureInv
  <2>2. day \in Nat /\ t \in Nat /\ e \in Nat BY <1>2, DayIsNat DEF TypeOK
  <2>3. e # t BY <2>2, <1>5
  <2> QED BY <2>1, <2>3, <1>7
<1>12. TotalsInv'
  <2> SUFFICES ASSUME NEW d \in Days \ unreadable' PROVE taken'[d] = book'[d].count + lost'[d]
    BY DEF TotalsInv
  <2>1. taken[d] = book[d].count + lost[d] BY <1>7 DEF DayInv, TotalsInv
  <2>2. taken[d] \in Nat /\ lost[d] \in Nat /\ book[d].count \in Nat
    BY <1>6 DEF TypeOK
  <2>3. CASE d # t BY <2>1, <2>3, <1>7, <1>8
  <2>4. CASE d = t /\ w = "written" BY <2>1, <2>2, <2>4, <1>4, <1>7, <1>8, <1>9
  <2>5. CASE d = t /\ w = "lost" BY <2>1, <2>2, <2>5, <1>7, <1>8, <1>9
  <2> QED BY <2>3, <2>4, <2>5, <1>10
<1>13. DailyCapacity'
  <2> SUFFICES ASSUME NEW d \in Days PROVE taken'[d] <= Capacity + lost'[d]
    BY DEF DailyCapacity
  <2>1. taken[d] <= Capacity + lost[d] /\ taken[d] \in Nat /\ lost[d] \in Nat
    BY <1>6 DEF DayInv, DailyCapacity
  <2> QED BY <2>1, <1>5, <1>8, <1>9, Limits
<1>14. BookBalances'
  <2> SUFFICES ASSUME NEW d \in Days \ unreadable'
               PROVE  closed[d] + (IF book'[d].open = None THEN 0 ELSE 1) = book'[d].count
    BY <1>1 DEF BookBalances
  <2>1. closed[d] + (IF book[d].open = None THEN 0 ELSE 1) = book[d].count
    BY <1>7 DEF DayInv, BookBalances
  <2>2. closed[d] \in Nat BY <1>6
  <2>3. CASE d # t \/ w # "written" BY <2>1, <2>3, <1>7
  <2>4. CASE d = t /\ w = "written"
    <3>1. book[t].open = None BY <2>4, <1>5, <1>7
    <3> QED BY <2>1, <2>2, <2>4, <3>1, <1>4, <1>7
  <2> QED BY <2>3, <2>4
<1>15. OnePosition'
  <2> SUFFICES ASSUME NEW d \in Days \ unreadable', NEW e \in Days \ unreadable', d < e,
                      book'[d].open # None, book'[e].open # None
               PROVE  e - d > Lookback
    BY DEF OnePosition
  <2>1. CASE w # "written" \/ (d # t /\ e # t) BY <2>1, <1>7 DEF DayInv, OnePosition
  <2>2. CASE w = "written" /\ d = t
    <3>1. e # t /\ book'[e].open = book[e].open BY <2>2, <1>7, DayIsNat
    <3> QED BY <2>2, <3>1, <1>5
  <2>3. CASE w = "written" /\ e = t
    <3>1. d # t /\ book[d].open # None BY <2>3, <1>7, DayIsNat
    <3>2. d \notin Reach(t) BY <3>1, <1>5, <1>7
    <3>3. d \in Nat /\ t \in Nat /\ Lookback \in Nat BY <1>2, DayIsNat, Limits
    <3> QED BY <2>3, <3>2, <3>3 DEF Reach
  <2> QED BY <2>1, <2>2, <2>3
<1>16. Carried' /\ Sending' BY <1>1 DEF Carried, Sending
<1> QED BY <1>11, <1>12, <1>13, <1>14, <1>15, <1>16 DEF DayInv

LEMMA NextDay == TypeOK /\ DayInv /\ [Next]_vars => DayInv'
<1> SUFFICES ASSUME TypeOK, DayInv, [Next]_vars PROVE DayInv'
  OBVIOUS
<1>1. CASE Environment BY <1>1, WorldDay DEF Environment
<1>2. CASE Handler
  BY <1>2, TurnedAwayDay, BeginDay, QuietDay, ResolveDay, IntendDay, LastRowDay, OpenDayStep DEF Handler
<1>3. CASE UNCHANGED vars
  <2>1. UNCHANGED <<day, work, latched, book, unreadable, taken, lost, closed>>
    BY <1>3 DEF vars, world, process, files, history
  <2>2. day' \in Nat /\ day' >= day BY <2>1, DayIsNat DEF TypeOK
  <2> QED BY <2>1, <2>2, NoRow DEF DayInv, Sending
<1> QED BY <1>1, <1>2, <1>3 DEF Next

LEMMA AlwaysIntake == Spec => []IntakeInv
<1> QED BY InitIntake, NextIntake, AlwaysTyped, PTL DEF Spec

LEMMA AlwaysDay == Spec => []DayInv
<1> QED BY InitDay, NextDay, AlwaysTyped, PTL DEF Spec

(***************************************************************************)
(* The theorems.                                                           *)
(***************************************************************************)
\* The day files and the handler's copies of them are well formed; no count
\* goes below zero, whatever attempts are cancelled.
THEOREM DayTypeCorrect == Spec => []TypeOK
BY AlwaysTyped

\* Whatever is delivered again, a second decision on a bar needs a restart and
\* a midnight.
THEOREM DecidesOnce == Spec => []DecidedAgainOnlyAfterBoth
<1>1. IntakeInv => DecidedAgainOnlyAfterBoth BY DEF IntakeInv
<1> QED BY <1>1, AlwaysIntake, PTL

\* Two positions that a bar could see together are never on the books.
THEOREM HoldsOnePosition == Spec => []OnePosition
<1>1. DayInv => OnePosition BY DEF DayInv
<1> QED BY <1>1, AlwaysDay, PTL

\* A day's limit is exceeded by lost TRADE rows only.
THEOREM CapacityIsKept == Spec => []DailyCapacity
<1>1. DayInv => DailyCapacity BY DEF DayInv
<1> QED BY <1>1, AlwaysDay, PTL

\* Each TRADE row of a readable day is open or closed once.
THEOREM BooksBalance == Spec => []BookBalances
<1>1. DayInv => BookBalances BY DEF DayInv
<1> QED BY <1>1, AlwaysDay, PTL
=============================================================================
