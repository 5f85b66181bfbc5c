------------------------------- MODULE DayBook -------------------------------
(***************************************************************************)
(* From a bar's alert to the rows of the journal: the webhook that answers *)
(* at once and queues (webhook/app.py, webhook/dedupe.py), the handler     *)
(* that rebuilds the day from the journal, claims the bar, settles the     *)
(* open paper position, applies the day's limits and enters                *)
(* (webhook/runner.py), and the day files (journal/journal_logger.py).     *)
(*                                                                         *)
(* One process handles one bar at a time, and turns some away before it    *)
(* looks at the day.  Alerts come twice, the date changes under a bar, the *)
(* process restarts between two rows, and a row may be lost, cut short, or *)
(* written behind a cut one.                                               *)
(*                                                                         *)
(* A day file is kept as what its readers make of it: the bars its rows    *)
(* claim, and the totals _compute_daily_state folds from TRADE and OUTCOME *)
(* rows.  The broker is the paper broker, so a position is its TRADE row.  *)
(***************************************************************************)
EXTENDS Integers, Sequences

CONSTANTS
  Bars,           \* bars, by instrument, time and timeframe
  Other,          \* those of the second instrument
  Unfit,          \* those never decided: impossible data, wrong timeframe, one-minute
  Feed,           \* those of the one-minute and five-minute lanes with sound data
  None,           \* no bar
  LastDay,        \* bound on the dates
  Capacity,       \* max_trades_per_day with the bonus trades
  LossLimit,      \* max_consecutive_losses
  Lookback,       \* days searched for an open position (7 in the code)
  MaxDeliveries,  \* bound on deliveries
  MaxFaults,      \* bound on failed writes
  MaxCrashes      \* bound on process restarts

ASSUME BarAssumption ==
  /\ Other \subseteq Bars /\ Unfit \subseteq Bars /\ Feed \subseteq Bars /\ None \notin Bars
ASSUME LimitAssumption ==
  /\ LastDay \in Nat \ {0} /\ Capacity \in Nat /\ LossLimit \in Nat /\ Lookback \in Nat
ASSUME BoundAssumption == MaxDeliveries \in Nat /\ MaxFaults \in Nat /\ MaxCrashes \in Nat

VARIABLES
  \* the world
  day,         \* the date
  age,         \* of each bar: not closed yet, fresh, fresh since yesterday, stale
  delivered,   \* deliveries made
  \* the process
  seen,        \* keys of the dedupe window
  queue,       \* accepted bars that wait for the alert lock
  work,        \* the bar being handled, and the handler's copy of the day
  latched,     \* the journal write-failure latch
  epoch,       \* restarts
  \* the day files
  claims, book,
  unreadable,  \* files with a line that does not parse
  faults,
  \* history
  decided,     \* for each bar, the day and process that took it past its claim
  taken,       \* positions entered, per day
  lost,        \* TRADE rows lost without a trace, per day
  closed,      \* OUTCOME rows written for the positions of a day
  lossRun      \* losing outcomes in a row, by the day they were booked on

world   == <<day, age, delivered>>
process == <<seen, queue, work, latched, epoch>>
files   == <<claims, book, unreadable, faults>>
history == <<decided, taken, lost, closed, lossRun>>
vars    == <<world, process, files, history>>

Days    == 1..LastDay
\* A BREAKEVEN does to these totals what a WIN does.
Results == {"WIN", "LOSS"}

(***************************************************************************)
(* The day files.                                                          *)
(***************************************************************************)
EmptyDay == [count |-> 0, streak |-> 0, open |-> None]

StreakAfter(streak, result) == IF result = "LOSS" THEN streak + 1 ELSE 0

AddTrade(d, bar) == [d EXCEPT !.count = @ + 1, !.open = bar]
AddResult(d, result) == [d EXCEPT !.streak = StreakAfter(@, result), !.open = None]
\* Mutant: a cancelled attempt always gives a count back.
AddCancelledBlind(d) == [d EXCEPT !.count = @ - 1, !.open = None]
\* A cancelled attempt gives its count back only if the row it closes counted.
AddCancelled(d) ==
  [d EXCEPT !.count = IF d.open # None /\ @ > 0 THEN @ - 1 ELSE @, !.open = None]

\* How a critical row, tried twice, ends: "written"; "lost", both attempts
\* failed; "cut", they failed after part of a line; "merged", the second
\* attempt went through behind the part the first one left.
Writes  == {"written", "lost", "cut", "merged"}
Raises(w) == w \in {"lost", "cut"}

\* Mutant: a lost row is only logged.
NoLatch(w) == latched' = latched /\ w \in Writes
Latch(w) == latched' = (latched \/ Raises(w))

\* The day file after a critical row that turns its totals into totals.
WriteRow(d, w, totals) ==
  /\ w # "written" => faults < MaxFaults
  /\ faults' = faults + (IF w = "written" THEN 0 ELSE 1)
  /\ book' = (IF w = "written" THEN [book EXCEPT ![d] = totals] ELSE book)
  /\ unreadable' = (IF w \in {"cut", "merged"} THEN unreadable \cup {d} ELSE unreadable)
  /\ Latch(w)
  /\ UNCHANGED claims

\* A row of no bearing on the totals: tried once, it never raises; what a
\* failure may leave is part of a line.
PlainRow(d) ==
  /\ \/ UNCHANGED <<unreadable, faults>>
     \/ faults < MaxFaults /\ faults' = faults + 1 /\ unreadable' = unreadable \cup {d}
  /\ UNCHANGED <<claims, book>>

\* The days read for an open position: back from today, to the first that has one.
Reach(today)    == {d \in Days : today - Lookback <= d /\ d <= today}
Searched(today) ==
  {d \in Reach(today) : \A e \in Reach(today) : e > d => book[e].open = None}
\* Mutant: the reader skips a line that does not parse.
SkipsLines(today) == today \in Days
Readable(today) == Searched(today) \cap unreadable = {}
OpenDay(today)  == {d \in Searched(today) : book[d].open # None}

(***************************************************************************)
(* The handler.                                                            *)
(***************************************************************************)
Idle == [at |-> "idle", bar |-> None, today |-> 1, pos |-> None, posDay |-> 1,
         count |-> 0, streak |-> 0]

\* The handler's state of the day, rebuilt from the files.
Rebuilt(bar, today) ==
  LET from == IF OpenDay(today) = {} THEN today ELSE CHOOSE d \in OpenDay(today) : TRUE
  IN [at |-> "claim", bar |-> bar, today |-> today, pos |-> book[from].open, posDay |-> from,
      count |-> book[today].count, streak |-> book[today].streak]

Fresh(bar) == age[bar] \in {"fresh", "late"}
SameRoot(a, b) == (a \in Other) = (b \in Other)

Init ==
  /\ day = 1 /\ age = [b \in Bars |-> "open"] /\ delivered = 0
  /\ seen = {} /\ queue = <<>> /\ work = Idle /\ latched = FALSE /\ epoch = 0
  /\ claims = [d \in Days |-> {}] /\ book = [d \in Days |-> EmptyDay]
  /\ unreadable = {} /\ faults = 0
  /\ decided = [b \in Bars |-> {}] /\ taken = [d \in Days |-> 0] /\ lost = [d \in Days |-> 0]
  /\ closed = [d \in Days |-> 0] /\ lossRun = [d \in Days |-> 0]

(***************************************************************************)
(* Time, TradingView and restarts.                                         *)
(***************************************************************************)
BarCloses(b) ==
  /\ age[b] = "open" /\ age' = [age EXCEPT ![b] = "fresh"]
  /\ UNCHANGED <<day, delivered, process, files, history>>

\* More than max_staleness_seconds past its close.
GoesStale(b) ==
  /\ Fresh(b) /\ age' = [age EXCEPT ![b] = "stale"]
  /\ UNCHANGED <<day, delivered, process, files, history>>

\* A bar is fresh for minutes: it sees one midnight.
Midnight ==
  /\ day < LastDay /\ \A b \in Bars : age[b] # "late"
  /\ day' = day + 1
  /\ age' = [b \in Bars |-> IF age[b] = "fresh" THEN "late" ELSE age[b]]
  /\ UNCHANGED <<delivered, process, files, history>>

\* receive_alert: the key is recorded, then the bar is queued and answered.
Deliver(b) ==
  /\ age[b] # "open" /\ delivered < MaxDeliveries
  /\ delivered' = delivered + 1
  /\ seen' = seen \cup {b}
  /\ queue' = (IF b \in seen THEN queue ELSE Append(queue, b))
  /\ UNCHANGED <<day, age, work, latched, epoch, files, history>>

\* Mutant: a window shorter than a bar is fresh.
ExpireEarly(b) ==
  /\ b \in seen /\ seen' = seen \ {b}
  /\ UNCHANGED <<world, queue, work, latched, epoch, files, history>>

\* The window is as long as a bar is fresh, and every delivery restarts it.
Expire(b) ==
  /\ b \in seen /\ age[b] = "stale" /\ seen' = seen \ {b}
  /\ UNCHANGED <<world, queue, work, latched, epoch, files, history>>

Crash ==
  /\ epoch < MaxCrashes /\ epoch' = epoch + 1
  /\ seen' = {} /\ queue' = <<>> /\ work' = Idle /\ latched' = FALSE
  /\ UNCHANGED <<world, files, history>>

(***************************************************************************)
(* One bar.                                                                *)
(***************************************************************************)
\* Takes the alert lock for the bar at the head of the queue.
TakeLock == work.at = "idle" /\ queue # <<>> /\ queue' = Tail(queue)

\* Mutant: a bar that is turned away keeps the lock.
TurnAwayKeepsLock ==
  /\ TakeLock /\ (~Fresh(Head(queue)) \/ Head(queue) \in Unfit \ Feed)
  /\ PlainRow(day)
  /\ work' = [Idle EXCEPT !.at = "dropped"]
  /\ UNCHANGED <<world, seen, latched, epoch, history>>

\* A stale bar, one with bad data and one of a wrong timeframe get a row of
\* today and nothing more.
TurnAway ==
  /\ TakeLock /\ (~Fresh(Head(queue)) \/ Head(queue) \in Unfit \ Feed)
  /\ PlainRow(day)
  /\ UNCHANGED <<world, seen, work, latched, epoch, history>>

\* A one-minute bar stays in its lane and writes no row here, a five-minute bar
\* too unless a setup is armed.
KeepInLane ==
  /\ TakeLock /\ Fresh(Head(queue)) /\ Head(queue) \in Feed
  /\ UNCHANGED <<world, seen, work, latched, epoch, files, history>>

\* The day is rebuilt; a file that does not parse ends the bar with an exception.
Begin ==
  /\ TakeLock /\ Fresh(Head(queue)) /\ Head(queue) \notin Unfit
  /\ work' = (IF Readable(day) THEN Rebuilt(Head(queue), day) ELSE Idle)
  /\ UNCHANGED <<world, seen, latched, epoch, files, history>>

\* claim_bar.
ClaimBar ==
  /\ work.at = "claim" /\ work.bar \notin claims[work.today]
  /\ claims' = [claims EXCEPT ![work.today] = @ \cup {work.bar}]
  /\ decided' = [decided EXCEPT ![work.bar] = @ \cup {<<work.today, epoch>>}]
  /\ work' = [work EXCEPT !.at = "resolve"]
  /\ UNCHANGED <<world, seen, queue, latched, epoch, book, unreadable, faults,
                 taken, lost, closed, lossRun>>

AlreadyClaimed ==
  /\ work.at = "claim" /\ work.bar \in claims[work.today] /\ work' = Idle
  /\ UNCHANGED <<world, seen, queue, latched, epoch, files, history>>

\* The claim row is tried once; what it raises ends the bar.
ClaimFails ==
  /\ work.at = "claim" /\ work.bar \notin claims[work.today]
  /\ faults < MaxFaults /\ faults' = faults + 1
  /\ unreadable' \in {unreadable, unreadable \cup {work.today}}
  /\ work' = Idle
  /\ UNCHANGED <<world, seen, queue, latched, epoch, claims, book, history>>

\* Mutant: the OUTCOME row goes to the day it is written on.
ResolveToday(result, w) ==
  /\ work.at = "resolve" /\ work.pos # None /\ SameRoot(work.pos, work.bar)
  /\ WriteRow(work.today, w, AddResult(book[work.today], result))
  /\ work' = [work EXCEPT !.at = "gate", !.pos = None, !.streak = StreakAfter(@, result)]
  /\ closed' = [closed EXCEPT ![work.posDay] = @ + (IF w = "written" THEN 1 ELSE 0)]
  /\ UNCHANGED <<world, seen, queue, epoch, decided, taken, lost, lossRun>>

\* The bar of the position's own instrument closes it: its OUTCOME goes to the
\* day of its TRADE row, the handler's totals are today's.
Resolve(result, w) ==
  /\ work.at = "resolve" /\ work.pos # None /\ SameRoot(work.pos, work.bar)
  /\ WriteRow(work.posDay, w, AddResult(book[work.posDay], result))
  /\ work' = [work EXCEPT !.at = "gate", !.pos = None, !.streak = StreakAfter(@, result)]
  /\ closed' = [closed EXCEPT ![work.posDay] = @ + (IF w = "written" THEN 1 ELSE 0)]
  /\ lossRun' = (IF w = "written"
                 THEN [lossRun EXCEPT ![work.today] = StreakAfter(@, result)] ELSE lossRun)
  /\ UNCHANGED <<world, seen, queue, epoch, decided, taken, lost>>

NotResolved ==
  /\ work.at = "resolve" /\ work' = [work EXCEPT !.at = "gate"]
  /\ UNCHANGED <<world, seen, queue, latched, epoch, files, history>>

\* The gates before the candidate.
Blocked ==
  \/ latched
  \/ work.count >= Capacity
  \/ work.streak >= LossLimit
  \/ work.pos # None

\* Blocked, no setup, or rejected by the risk engine.
NoEntry ==
  /\ work.at = "gate" /\ work' = Idle
  /\ PlainRow(work.today)
  /\ UNCHANGED <<world, seen, queue, latched, epoch, history>>

\* An approved candidate: its TRADE_INTENT row goes first.
Intend(w) ==
  /\ work.at = "gate" /\ ~Blocked
  /\ WriteRow(work.today, w, book[work.today])
  /\ work' = (IF Raises(w) THEN Idle ELSE [work EXCEPT !.at = "send"])
  /\ UNCHANGED <<world, seen, queue, epoch, history>>

\* execute_bracket did not open: an OUTCOME of kind CANCELLED.
NotFilled(w) ==
  /\ work.at = "send" /\ work' = Idle
  /\ WriteRow(work.today, w, AddCancelled(book[work.today]))
  /\ UNCHANGED <<world, seen, queue, epoch, history>>

\* It opened: the TRADE row.
Open(w) ==
  /\ work.at = "send" /\ work' = Idle
  /\ WriteRow(work.today, w, AddTrade(book[work.today], work.bar))
  /\ taken' = [taken EXCEPT ![work.today] = @ + 1]
  /\ lost' = [lost EXCEPT ![work.today] = @ + (IF w = "lost" THEN 1 ELSE 0)]
  /\ UNCHANGED <<world, seen, queue, epoch, decided, closed, lossRun>>

\* strat_212 and strat_122 hand in a trade their bar already closed: an OUTCOME
\* row with no TRADE row.
Evidence(result, w) ==
  /\ work.at = "send" /\ work' = Idle
  /\ WriteRow(work.today, w, AddResult(book[work.today], result))
  /\ lossRun' = (IF w = "written"
                 THEN [lossRun EXCEPT ![work.today] = StreakAfter(@, result)] ELSE lossRun)
  /\ UNCHANGED <<world, seen, queue, epoch, decided, taken, lost, closed>>

Handler ==
  \/ TurnAway \/ KeepInLane \/ Begin
  \/ ClaimBar \/ AlreadyClaimed \/ ClaimFails \/ NotResolved \/ NoEntry
  \/ \E w \in Writes : Intend(w) \/ NotFilled(w) \/ Open(w)
  \/ \E w \in Writes, result \in Results : Resolve(result, w) \/ Evidence(result, w)

Environment ==
  \/ Midnight \/ Crash
  \/ \E b \in Bars : BarCloses(b) \/ GoesStale(b) \/ Deliver(b) \/ Expire(b)

Next == Handler \/ Environment

\* The event loop wakes the next task, and a task that runs goes on.
Spec == Init /\ [][Next]_vars /\ WF_vars(Handler)

(***************************************************************************)
(* Properties.                                                             *)
(***************************************************************************)
TypeOK ==
  /\ day \in Days /\ age \in [Bars -> {"open", "fresh", "late", "stale"}]
  /\ delivered \in Nat
  /\ seen \subseteq Bars /\ queue \in Seq(Bars) /\ latched \in BOOLEAN /\ epoch \in Nat
  /\ work \in [at : {"idle", "claim", "resolve", "gate", "send"}, bar : Bars \cup {None},
               today : Days, pos : Bars \cup {None}, posDay : Days, count : Nat, streak : Nat]
  /\ work.at # "idle" => work.bar \in Bars
  /\ claims \in [Days -> SUBSET Bars]
  /\ book \in [Days -> [count : Nat, streak : Nat, open : Bars \cup {None}]]
  /\ unreadable \subseteq Days /\ faults \in Nat
  /\ decided \in [Bars -> SUBSET (Days \X Nat)]
  /\ taken \in [Days -> Nat] /\ lost \in [Days -> Nat]
  /\ closed \in [Days -> Nat] /\ lossRun \in [Days -> Nat]

\* A bar is decided a second time only by a later process, and into the file of
\* another day: within a process the dedupe window and the staleness limit stop
\* the second delivery, within a day the claim does.
DecidedAgainOnlyAfterBoth ==
  \A b \in Bars : \A p, q \in decided[b] : p # q => p[1] # q[1] /\ p[2] # q[2]

\* The day files never show two open positions that a bar could look back on
\* together, whatever rows were lost and wherever the process stopped.
OnePosition ==
  \A d, e \in Days \ unreadable :
    d < e /\ book[d].open # None /\ book[e].open # None => e - d > Lookback

\* No day takes more positions than its limit, but for one more per TRADE row
\* that was lost: a lost row stops the process, and a file that does not parse
\* stops the day.
DailyCapacity == \A d \in Days : taken[d] <= Capacity + lost[d]

\* Every TRADE row of a readable day is open or has exactly one OUTCOME row,
\* whatever day that was written on.
BookBalances ==
  \A d \in Days \ unreadable :
    closed[d] + (IF book[d].open = None THEN 0 ELSE 1) = book[d].count

\* A bar the webhook answered "queued" is decided in the end, or this process
\* restarted, a write failed, or the bar was stale when its turn came.  A bar
\* that the handler turns away, or may keep in its lane, is owed no decision.
AcceptedIsDecided ==
  \A b \in Bars \ (Unfit \cup Feed), e \in 0..MaxCrashes :
    (epoch = e /\ \E i \in DOMAIN queue : queue[i] = b)
      ~> (decided[b] # {} \/ age[b] = "stale" \/ faults > 0 \/ epoch # e)

\* Violated.  No entry on a day once its losses in a row reach the limit
\* ("max_consecutive_losses is the hard stop").
LossLockout == [][\A d \in Days : taken'[d] # taken[d] => lossRun[d] < LossLimit]_vars
=============================================================================
