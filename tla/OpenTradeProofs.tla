--------------------------- MODULE OpenTradeProofs ---------------------------
(***************************************************************************)
(* Proofs about one journaled trade, for every price, every set of highs   *)
(* and every bound on moves and restarts.                                  *)
(***************************************************************************)
EXTENDS OpenTrade, TLAPS

(***************************************************************************)
(* Prices.                                                                 *)
(***************************************************************************)
\* Rounding gives an integer, and keeps the order of prices.
LEMMA RoundIsInt == \A p \in Int : RoundToTick(p) \in Int
BY DEF RoundToTick

LEMMA RoundIsMonotone ==
  ASSUME NEW p \in Int, NEW q \in Int, p <= q
  PROVE  RoundToTick(p) <= RoundToTick(q)
BY DEF RoundToTick

\* The trail rises with the best price and never goes below the first stop.
LEMMA TrailIsInt == \A b \in Int : TrailedStop(b) \in Int /\ TrailedStop(b) >= FirstStop
BY PriceAssumption DEF TrailedStop, Risk

LEMMA TrailIsMonotone ==
  ASSUME NEW a \in Int, NEW b \in Int, a <= b
  PROVE  TrailedStop(a) <= TrailedStop(b)
BY PriceAssumption DEF TrailedStop, Risk

(***************************************************************************)
(* What each actor leaves alone.                                           *)
(***************************************************************************)
LEMMA BrokerFrame ==
  Broker => UNCHANGED <<setup, ids, mode, jstop, booked, prior, pc, job, h, rpc, r, crashes>>
BY DEF Broker, StopHit, TargetHit, Liquidated, LiquidationDropped, ManualClose, ChildrenDie,
       ApplyMod, FillListed, SessionRoll, NewHigh, journal, alert, sweep

LEMMA AlertFrame ==
  Alert => UNCHANGED <<setup, held, exit, listed, entryListed, stopAt, best, prior, rpc, r,
                       crashes>>
BY DEF Alert, LogIds, Bar, Resolve, Liquidate, CancelWorking, ConfirmFlat, AskTrail, SkipTrail,
       ConfirmStop, LogStop, BookBar, Fallback, broker, fills, orders, journal, sweep

LEMMA SweepFrame ==
  Sweeper => UNCHANGED <<setup, held, exit, listed, entryListed, stop, stopAt, target, mods,
                         closing, best, ids, mode, jstop, prior, pc, job, h, crashes>>
BY DEF Sweeper, Sweep, SweepSeesFlat, SweepReadsEntry, SweepResolves, SweepSeesNoOrder,
       SweepBooks, SweepGivesUp, broker, fills, orders, journal, alert

LEMMA DayFrame ==
  DayRoll => UNCHANGED <<setup, held, exit, listed, entryListed, stop, stopAt, target, mods,
                         closing, best, ids, mode, jstop, booked, pc, job, h, rpc, r, crashes>>
BY DEF DayRoll, broker, fills, orders, alert, sweep

LEMMA CrashFrame ==
  Crash => UNCHANGED <<setup, held, exit, listed, entryListed, stop, stopAt, target, mods,
                       closing, best, ids, mode, jstop, booked, prior>>
BY DEF Crash, broker, fills, orders, journal

LEMMA StutterFrame ==
  UNCHANGED vars =>
    UNCHANGED <<setup, held, exit, listed, entryListed, stop, stopAt, target, mods, closing,
                best, ids, mode, jstop, booked, prior, pc, job, h, rpc, r, crashes>>
BY DEF vars, broker, fills, orders, journal, alert, sweep

(***************************************************************************)
(* Type correctness.                                                       *)
(***************************************************************************)
LEMMA NoWorkType == NoWork \in Work
BY PriceAssumption DEF NoWork, Work, Results

\* What the handler stores in its work keeps it a work record.
LEMMA WorkFields ==
  ASSUME NEW w \in Work
  PROVE  /\ \A b \in BOOLEAN : /\ [w EXCEPT !.kept = b] \in Work
                               /\ [w EXCEPT !.sent = b] \in Work
         /\ \A what \in Results : [w EXCEPT !.result = what] \in Work
         /\ \A p, q \in Int : [w EXCEPT !.want = p, !.would = q] \in Work
         /\ \A p \in Int : \A b, e \in BOOLEAN :
              [w EXCEPT !.stop = p, !.ids = b, !.eod = e] \in Work
BY DEF Work

\* What is about to be written is a result the writer can give.
ResultsReady ==
  /\ pc = "book" => h.result \in {"exit", "flatten"}
  /\ rpc = "book" => r.result \in {"exit", "even", "cancelled"}

TypeInv == TypeOK /\ ResultsReady

LEMMA BrokerTypes == FillsOK /\ OrdersOK /\ Broker => FillsOK' /\ OrdersOK'
<1> SUFFICES ASSUME FillsOK, OrdersOK, Broker PROVE FillsOK' /\ OrdersOK' OBVIOUS
<1>1. FillsOK'
  BY DEF FillsOK, Broker, StopHit, TargetHit, Liquidated, LiquidationDropped, ManualClose,
         ChildrenDie, ApplyMod, FillListed, SessionRoll, NewHigh, ClosedBy, fills
<1>2. OrdersOK'
  <2>1. CASE ApplyMod BY <2>1 DEF ApplyMod, OrdersOK
  <2>2. CASE NewHigh
    <3>1. best' \in Int BY <2>2, PriceAssumption DEF NewHigh
    <3> QED BY <2>2, <3>1 DEF NewHigh, OrdersOK, orders
  <2>3. CASE StopHit BY <2>3 DEF StopHit, OrdersOK, Child, Dead
  <2>4. CASE TargetHit BY <2>4 DEF TargetHit, OrdersOK, Child, Dead
  <2>5. CASE ManualClose BY <2>5 DEF ManualClose, OrdersOK, Child, Dead
  <2>6. CASE ChildrenDie BY <2>6 DEF ChildrenDie, OrdersOK, Child, Dead
  <2>7. CASE Liquidated \/ LiquidationDropped \/ FillListed \/ SessionRoll
    BY <2>7 DEF Liquidated, LiquidationDropped, FillListed, SessionRoll, OrdersOK, orders
  <2> QED BY <2>1, <2>2, <2>3, <2>4, <2>5, <2>6, <2>7 DEF Broker
<1> QED BY <1>1, <1>2

LEMMA AlertBrokerTypes == FillsOK /\ OrdersOK /\ Alert => FillsOK' /\ OrdersOK'
<1> SUFFICES ASSUME FillsOK, OrdersOK, Alert PROVE FillsOK' /\ OrdersOK' OBVIOUS
<1>1. closing' \in {closing, "sent"}
  BY DEF Alert, LogIds, Bar, Resolve, Liquidate, CancelWorking, ConfirmFlat, AskTrail,
         SkipTrail, ConfirmStop, LogStop, BookBar, Fallback, broker, fills
<1>2. stop' \in {stop, "canceled"} /\ target' \in {target, "canceled"}
  BY DEF Alert, LogIds, Bar, Resolve, Liquidate, CancelWorking, ConfirmFlat, AskTrail,
         SkipTrail, ConfirmStop, LogStop, BookBar, Fallback, broker, orders
<1>3. mods' \in Seq(Int)
  <2>1. CASE AskTrail
    BY <2>1, RoundIsInt, TrailIsInt DEF AskTrail, OrdersOK
  <2>2. CASE ~AskTrail
    BY <2>2 DEF OrdersOK, Alert, LogIds, Bar, Resolve, Liquidate, CancelWorking, ConfirmFlat,
         SkipTrail, ConfirmStop, LogStop, BookBar, Fallback, broker, orders
  <2> QED BY <2>1, <2>2
<1>4. FillsOK' BY <1>1, AlertFrame DEF FillsOK
<1> QED BY <1>2, <1>3, <1>4, AlertFrame DEF OrdersOK, Child

\* An OUTCOME row, written or not, leaves a sequence of rows.
LEMMA OutcomeTypes ==
  ASSUME BookedOK, NEW by \in {"alert", "sweep"}, NEW what \in Results, WriteOutcome(by, what)
  PROVE  BookedOK'
<1>1. [by |-> by, result |-> what] \in Rows BY DEF Rows
<1>2. CASE booked' = Append(booked, [by |-> by, result |-> what])
  BY <1>1, <1>2 DEF BookedOK
<1>3. CASE UNCHANGED booked BY <1>3 DEF BookedOK
<1> QED BY <1>2, <1>3 DEF WriteOutcome

LEMMA BookedTypes == BookedOK /\ ResultsReady /\ (Alert \/ Sweeper) => BookedOK'
<1> SUFFICES ASSUME BookedOK, ResultsReady, Alert \/ Sweeper PROVE BookedOK' OBVIOUS
<1>1. CASE BookBar
  BY <1>1, OutcomeTypes DEF BookBar, ResultsReady, Results
<1>2. CASE SweepBooks
  BY <1>2, OutcomeTypes DEF SweepBooks, ResultsReady, Results
<1>3. CASE ~BookBar /\ ~SweepBooks
  BY <1>3 DEF BookedOK, Alert, LogIds, Bar, Resolve, Liquidate, CancelWorking, ConfirmFlat,
       AskTrail, SkipTrail, ConfirmStop, LogStop, Fallback, Sweeper, Sweep, SweepSeesFlat,
       SweepReadsEntry, SweepResolves, SweepSeesNoOrder, SweepGivesUp, journal
<1> QED BY <1>1, <1>2, <1>3

LEMMA AlertTypes ==
  AlertOK /\ JournalOK /\ OrdersOK /\ ResultsReady /\ Alert
    => AlertOK' /\ JournalOK' /\ (pc' = "book" => h'.result \in {"exit", "flatten"})
<1> SUFFICES ASSUME AlertOK, JournalOK, OrdersOK, Alert
             PROVE  AlertOK' /\ JournalOK' /\ (pc' = "book" => h'.result \in {"exit", "flatten"})
  OBVIOUS
<1>1. JournalOK'
  BY AlertFrame DEF JournalOK, AlertOK, Work, Alert, LogIds, Bar, Resolve, Liquidate,
     CancelWorking, ConfirmFlat, AskTrail, SkipTrail, ConfirmStop, LogStop, BookBar, Fallback,
     journal
<1>2. h' \in Work
  <2> USE NoWorkType, WorkFields DEF AlertOK, Release, Flattened
  <2>1. CASE Bar
    <3>1. PICK eod \in BOOLEAN :
            h' = [NoWork EXCEPT !.stop = jstop, !.ids = ids, !.eod = eod]
      BY <2>1 DEF Bar
    <3> QED BY <3>1 DEF JournalOK
  <2>2. CASE Resolve
    <3>1. h' = [h EXCEPT !.result = "exit"] \/ h' = h BY <2>2 DEF Resolve
    <3> QED BY <3>1 DEF Results
  <2>3. CASE Liquidate BY <2>3 DEF Liquidate
  <2>4. CASE CancelWorking
    <3>1. h.kept \in BOOLEAN BY DEF Work
    <3> QED BY <2>4, <3>1 DEF CancelWorking
  <2>5. CASE ConfirmFlat
    <3>1. \/ h' = [h EXCEPT !.result = "flatten"] \/ h' = NoWork
          \/ \E b \in BOOLEAN : h' = [h EXCEPT !.kept = b]
      BY <2>5 DEF ConfirmFlat
    <3> QED BY <3>1 DEF Results
  <2>6. CASE AskTrail
    <3>1. TrailedStop(best) \in Int /\ RoundToTick(TrailedStop(best)) \in Int
      BY RoundIsInt, TrailIsInt DEF OrdersOK
    <3>2. \/ h' = NoWork
          \/ h' = [h EXCEPT !.want = RoundToTick(TrailedStop(best)), !.would = TrailedStop(best)]
      BY <2>6 DEF AskTrail
    <3>3. [h EXCEPT !.want = RoundToTick(TrailedStop(best)), !.would = TrailedStop(best)] \in Work
      BY <3>1 DEF Work
    <3> QED BY <3>2, <3>3
  <2>7. CASE LogIds \/ SkipTrail \/ ConfirmStop \/ LogStop \/ BookBar \/ Fallback
    BY <2>7 DEF LogIds, SkipTrail, ConfirmStop, LogStop, BookBar, Fallback
  <2> QED BY <2>1, <2>2, <2>3, <2>4, <2>5, <2>6, <2>7 DEF Alert
<1>3. AlertOK'
  BY <1>2 DEF AlertOK, Alert, LogIds, Bar, Resolve, Liquidate, CancelWorking, ConfirmFlat,
     AskTrail, SkipTrail, ConfirmStop, LogStop, BookBar, Fallback, Release, Flattened
<1>4. ASSUME pc' = "book" PROVE h'.result \in {"exit", "flatten"}
  <2>1. Resolve \/ ConfirmFlat
    BY <1>4 DEF Alert, LogIds, Bar, Resolve, Liquidate, CancelWorking, ConfirmFlat, AskTrail,
       SkipTrail, ConfirmStop, LogStop, BookBar, Fallback, Release, Flattened
  <2>2. CASE Resolve
    <3>1. h' = [h EXCEPT !.result = "exit"] BY <1>4, <2>2 DEF Resolve
    <3> QED BY <3>1 DEF AlertOK, Work
  <2>3. CASE ConfirmFlat
    <3>1. h' = [h EXCEPT !.result = "flatten"]
      BY <1>4, <2>3 DEF ConfirmFlat, Release, Flattened
    <3> QED BY <3>1 DEF AlertOK, Work
  <2> QED BY <2>1, <2>2, <2>3
<1> QED BY <1>1, <1>3, <1>4

LEMMA SweepTypes ==
  SweepOK /\ JournalOK /\ Sweeper
    => SweepOK' /\ (rpc' = "book" => r'.result \in {"exit", "even", "cancelled"})
<1> SUFFICES ASSUME SweepOK, JournalOK, Sweeper
             PROVE  /\ SweepOK'
                    /\ rpc' = "book" => r'.result \in {"exit", "even", "cancelled"}
  OBVIOUS
<1> USE DEF SweepOK, NoSweep, Results
<1>1. CASE Sweep BY <1>1 DEF Sweep, JournalOK
<1>2. CASE SweepSeesFlat \/ SweepReadsEntry BY <1>2 DEF SweepSeesFlat, SweepReadsEntry
<1>3. CASE SweepResolves \/ SweepSeesNoOrder BY <1>3 DEF SweepResolves, SweepSeesNoOrder
<1>4. CASE SweepBooks \/ SweepGivesUp
  <2>1. rpc' = "idle" /\ r' = NoSweep BY <1>4 DEF SweepBooks, SweepGivesUp
  <2> QED BY <2>1
<1> QED BY <1>1, <1>2, <1>3, <1>4 DEF Sweeper

LEMMA TypeInit == Init => TypeInv
<1> SUFFICES ASSUME Init PROVE TypeInv OBVIOUS
<1>1. SetupOK /\ FillsOK /\ JournalOK BY PriceAssumption DEF Init, SetupOK, FillsOK, JournalOK
<1>2. OrdersOK BY PriceAssumption, RoundIsInt DEF Init, OrdersOK, Child
<1>3. BookedOK BY DEF Init, BookedOK
<1>4. AlertOK /\ SweepOK BY NoWorkType DEF Init, AlertOK, SweepOK, NoSweep
<1>5. ResultsReady BY DEF Init, ResultsReady
<1>6. crashes \in 0..MaxCrashes BY BoundAssumption DEF Init
<1> QED BY <1>1, <1>2, <1>3, <1>4, <1>5, <1>6 DEF TypeInv, TypeOK

LEMMA TypeNext == TypeInv /\ [Next]_vars => TypeInv'
<1> SUFFICES ASSUME TypeInv, [Next]_vars PROVE TypeInv' OBVIOUS
<1> USE DEF TypeInv, TypeOK
<1>1. CASE Broker
  <2>1. FillsOK' /\ OrdersOK' BY <1>1, BrokerTypes
  <2> QED BY <2>1, <1>1, BrokerFrame
          DEF SetupOK, setup, JournalOK, BookedOK, AlertOK, SweepOK, ResultsReady
<1>2. CASE Alert
  <2>1. FillsOK' /\ OrdersOK' BY <1>2, AlertBrokerTypes
  <2>2. BookedOK' BY <1>2, BookedTypes
  <2>3. AlertOK' /\ JournalOK' /\ (pc' = "book" => h'.result \in {"exit", "flatten"})
    BY <1>2, AlertTypes
  <2> QED BY <2>1, <2>2, <2>3, <1>2, AlertFrame DEF SetupOK, setup, SweepOK, ResultsReady
<1>3. CASE Sweeper
  <2>1. BookedOK' BY <1>3, BookedTypes
  <2>2. SweepOK' /\ (rpc' = "book" => r'.result \in {"exit", "even", "cancelled"})
    BY <1>3, SweepTypes
  <2> QED BY <2>1, <2>2, <1>3, SweepFrame
          DEF SetupOK, setup, FillsOK, OrdersOK, JournalOK, AlertOK, ResultsReady
<1>4. CASE DayRoll
  <2>1. JournalOK' BY <1>4, DayFrame DEF DayRoll, JournalOK
  <2> QED BY <2>1, <1>4, DayFrame
          DEF SetupOK, setup, FillsOK, OrdersOK, BookedOK, AlertOK, SweepOK, ResultsReady
<1>5. CASE Crash
  <2>1. AlertOK' /\ SweepOK' /\ ResultsReady'
    BY <1>5, NoWorkType DEF Crash, AlertOK, SweepOK, NoSweep, ResultsReady
  <2>2. crashes' \in 0..MaxCrashes BY <1>5, BoundAssumption DEF Crash
  <2> QED BY <2>1, <2>2, <1>5, CrashFrame
          DEF SetupOK, setup, FillsOK, OrdersOK, JournalOK, BookedOK
<1>6. CASE UNCHANGED vars
  BY <1>6, StutterFrame DEF SetupOK, setup, FillsOK, OrdersOK, JournalOK, BookedOK, AlertOK,
     SweepOK, ResultsReady
<1> QED BY <1>1, <1>2, <1>3, <1>4, <1>5, <1>6 DEF Next

\* For every price and every bound, each variable keeps its type.
THEOREM TradeTypeCorrect == Spec => []TypeOK
<1>1. TypeInv => TypeOK BY DEF TypeInv
<1> QED BY TypeInit, TypeNext, <1>1, PTL DEF Spec

\* The same, with what is about to be written.
LEMMA TradeTypeInv == Spec => []TypeInv
BY TypeInit, TypeNext, PTL DEF Spec

(***************************************************************************)
(* A booked trade is flat.                                                 *)
(***************************************************************************)
\* Whoever is about to write has read the account flat, and it stays flat:
\* the trade is the only position, and nothing enters it again.
FlatInv ==
  /\ BookedIsFlat
  /\ pc = "book" => ~held
  /\ rpc \in {"entry", "exit", "orders", "book"} => ~held

LEMMA FlatStaysFlat == ~held /\ [Next]_vars => ~held'
<1>1. Broker /\ ~held => ~held'
  BY DEF Broker, StopHit, TargetHit, Liquidated, LiquidationDropped, ManualClose, ChildrenDie,
         ApplyMod, FillListed, SessionRoll, NewHigh, ClosedBy, fills
<1> QED BY <1>1, AlertFrame, SweepFrame, DayFrame, CrashFrame, StutterFrame DEF Next

LEMMA FlatInit == Init => FlatInv
BY DEF Init, FlatInv, BookedIsFlat

LEMMA FlatNext == FlatInv /\ [Next]_vars => FlatInv'
<1> SUFFICES ASSUME FlatInv, [Next]_vars PROVE FlatInv' OBVIOUS
<1> USE FlatStaysFlat DEF FlatInv, BookedIsFlat
<1>1. CASE Broker BY <1>1, BrokerFrame
<1>2. CASE Alert
  <2>1. pc' = "book" => ~held'
    BY <1>2, AlertFrame DEF Alert, LogIds, Bar, Resolve, Attributed, Liquidate, CancelWorking,
       ConfirmFlat, AskTrail, SkipTrail, ConfirmStop, LogStop, BookBar, Fallback, Release,
       Flattened
  <2>2. booked' # <<>> => ~held'
    <3>1. CASE BookBar BY <3>1 DEF BookBar
    <3>2. CASE ~BookBar
      BY <1>2, <3>2 DEF Alert, LogIds, Bar, Resolve, Liquidate, CancelWorking, ConfirmFlat,
         AskTrail, SkipTrail, ConfirmStop, LogStop, Fallback, journal
    <3> QED BY <3>1, <3>2
  <2> QED BY <1>2, <2>1, <2>2, AlertFrame
<1>3. CASE Sweeper
  <2>1. rpc' \in {"entry", "exit", "orders", "book"} => ~held'
    BY <1>3, SweepFrame DEF Sweeper, Sweep, SweepSeesFlat, SweepReadsEntry, SweepResolves,
       SweepSeesNoOrder, SweepBooks, SweepGivesUp
  <2>2. booked' # <<>> => ~held'
    <3>1. CASE SweepBooks BY <3>1 DEF SweepBooks
    <3>2. CASE ~SweepBooks
      BY <1>3, <3>2 DEF Sweeper, Sweep, SweepSeesFlat, SweepReadsEntry, SweepResolves,
         SweepSeesNoOrder, SweepGivesUp, journal
    <3> QED BY <3>1, <3>2
  <2> QED BY <1>3, <2>1, <2>2, SweepFrame
<1>4. CASE DayRoll BY <1>4, DayFrame
<1>5. CASE Crash
  <2>1. pc' = "idle" /\ rpc' = "idle" BY <1>5 DEF Crash
  <2> QED BY <2>1, <1>5, CrashFrame
<1>6. CASE UNCHANGED vars BY <1>6, StutterFrame
<1> QED BY <1>1, <1>2, <1>3, <1>4, <1>5, <1>6 DEF Next

\* A trade is booked only when the broker holds nothing of it, on any of the
\* three paths and whatever the others do between the read and the write.
THEOREM BookedTradeIsFlat == Spec => []BookedIsFlat
<1>1. FlatInv => BookedIsFlat BY DEF FlatInv
<1> QED BY FlatInit, FlatNext, <1>1, PTL DEF Spec

(***************************************************************************)
(* Each path books the trade once.                                         *)
(***************************************************************************)
\* A path at work saw the row open when it began, and only itself can have
\* written its own row since.
OnceInv ==
  /\ EachPathBooksOnce
  /\ pc \notin {"ids", "idle"} => \A k \in DOMAIN booked : booked[k].by # "alert"
  /\ rpc # "idle" => \A k \in DOMAIN booked : booked[k].by # "sweep"

\* Appending a row of a path that has none keeps one row per path.
LEMMA FirstRowOfPath ==
  ASSUME BookedOK, EachPathBooksOnce,
         NEW by \in {"alert", "sweep"}, NEW what \in Results, WriteOutcome(by, what),
         \A k \in DOMAIN booked : booked[k].by # by
  PROVE  /\ EachPathBooksOnce'
         /\ \A other \in {"alert", "sweep"} \ {by} :
              (\A k \in DOMAIN booked : booked[k].by # other)
                => \A k \in DOMAIN booked' : booked'[k].by # other
<1> DEFINE row == [by |-> by, result |-> what]
<1>1. CASE booked' = Append(booked, row)
  <2>1. booked \in Seq(Rows) /\ row \in Rows BY DEF BookedOK, Rows
  <2>2. /\ DOMAIN booked = 1..Len(booked) /\ DOMAIN booked' = 1..(Len(booked) + 1)
        /\ Len(booked) \in Nat
    BY <1>1, <2>1
  <2>3. \A k \in 1..Len(booked) : booked'[k] = booked[k] BY <1>1, <2>1
  <2>4. booked'[Len(booked) + 1] = row BY <1>1, <2>1
  <2>5. \A k \in DOMAIN booked' : k \in DOMAIN booked \/ k = Len(booked) + 1 BY <2>2
  <2>6. \A k \in DOMAIN booked : booked'[k].by = booked[k].by BY <2>2, <2>3
  <2>7. booked'[Len(booked) + 1].by = by BY <2>4
  <2> HIDE DEF row
  <2>8. EachPathBooksOnce'
    BY <2>5, <2>6, <2>7 DEF EachPathBooksOnce
  <2> QED BY <2>5, <2>6, <2>7, <2>8
<1>2. CASE UNCHANGED booked BY <1>2 DEF EachPathBooksOnce
<1> QED BY <1>1, <1>2 DEF WriteOutcome

LEMMA OnceInit == Init => OnceInv
<1> SUFFICES ASSUME Init PROVE OnceInv OBVIOUS
<1>1. DOMAIN booked = {} BY DEF Init
<1> QED BY <1>1 DEF OnceInv, EachPathBooksOnce

LEMMA OnceNext == TypeInv /\ OnceInv /\ [Next]_vars => OnceInv'
<1> SUFFICES ASSUME TypeInv, OnceInv, [Next]_vars PROVE OnceInv' OBVIOUS
<1> USE DEF OnceInv
<1>1. CASE Broker BY <1>1, BrokerFrame DEF EachPathBooksOnce
<1>2. CASE Alert
  <2>1. CASE BookBar
    <3>1. BookedOK /\ h.result \in Results /\ pc = "book"
      BY <2>1 DEF BookBar, TypeInv, TypeOK, ResultsReady, Results
    <3>2. WriteOutcome("alert", h.result) /\ pc' = "idle" BY <2>1 DEF BookBar, Release
    <3>3. EachPathBooksOnce /\ \A k \in DOMAIN booked : booked[k].by # "alert" BY <3>1
    <3>4. /\ EachPathBooksOnce'
          /\ (\A k \in DOMAIN booked : booked[k].by # "sweep")
               => \A k \in DOMAIN booked' : booked'[k].by # "sweep"
      BY <3>1, <3>2, <3>3, FirstRowOfPath
    <3> QED BY <3>2, <3>4, <1>2, AlertFrame
  <2>2. CASE ~BookBar
    <3>1. booked' = booked
      BY <1>2, <2>2 DEF Alert, LogIds, Bar, Resolve, Liquidate, CancelWorking, ConfirmFlat,
         AskTrail, SkipTrail, ConfirmStop, LogStop, Fallback, journal
    <3>2. pc \in {"ids", "idle"} => pc' = "idle" \/ booked = <<>>
      BY <1>2 DEF Alert, LogIds, Bar, Resolve, Liquidate, CancelWorking, ConfirmFlat, AskTrail,
         SkipTrail, ConfirmStop, LogStop, BookBar, Fallback, Release, RowOpen
    <3>3. booked = <<>> => DOMAIN booked = {} OBVIOUS
    <3> QED BY <3>1, <3>2, <3>3, <1>2, AlertFrame DEF EachPathBooksOnce
  <2> QED BY <2>1, <2>2
<1>3. CASE Sweeper
  <2>1. CASE SweepBooks
    <3>1. BookedOK /\ r.result \in Results /\ rpc = "book"
      BY <2>1 DEF SweepBooks, TypeInv, TypeOK, ResultsReady, Results
    <3>2. WriteOutcome("sweep", r.result) /\ rpc' = "idle" BY <2>1 DEF SweepBooks
    <3>3. EachPathBooksOnce /\ \A k \in DOMAIN booked : booked[k].by # "sweep" BY <3>1
    <3>4. /\ EachPathBooksOnce'
          /\ (\A k \in DOMAIN booked : booked[k].by # "alert")
               => \A k \in DOMAIN booked' : booked'[k].by # "alert"
      BY <3>1, <3>2, <3>3, FirstRowOfPath
    <3> QED BY <3>2, <3>4, <1>3, SweepFrame
  <2>2. CASE ~SweepBooks
    <3>1. booked' = booked
      BY <1>3, <2>2 DEF Sweeper, Sweep, SweepSeesFlat, SweepReadsEntry, SweepResolves,
         SweepSeesNoOrder, SweepGivesUp, journal
    <3>2. rpc = "idle" => booked = <<>>
      BY <1>3 DEF Sweeper, Sweep, SweepSeesFlat, SweepReadsEntry, SweepResolves,
         SweepSeesNoOrder, SweepBooks, SweepGivesUp, RowOpen
    <3>3. booked = <<>> => DOMAIN booked = {} OBVIOUS
    <3> QED BY <3>1, <3>2, <3>3, <1>3, SweepFrame DEF EachPathBooksOnce
  <2> QED BY <2>1, <2>2
<1>4. CASE DayRoll BY <1>4, DayFrame DEF EachPathBooksOnce
<1>5. CASE Crash
  <2>1. pc' = "idle" /\ rpc' = "idle" BY <1>5 DEF Crash
  <2> QED BY <2>1, <1>5, CrashFrame DEF EachPathBooksOnce
<1>6. CASE UNCHANGED vars BY <1>6, StutterFrame DEF EachPathBooksOnce
<1> QED BY <1>1, <1>2, <1>3, <1>4, <1>5, <1>6 DEF Next

\* The bar and the fallback together, and the sweep, each book the trade once:
\* the open-row check of each path holds until that path writes.
THEOREM PathsBookOnce == Spec => []EachPathBooksOnce
<1>1. OnceInv => EachPathBooksOnce BY DEF OnceInv
<1> QED BY TypeInit, TypeNext, OnceInit, OnceNext, <1>1, PTL DEF Spec

\* The day's P&L counts one trade at most twice: of three rows, two would be of
\* one path.
THEOREM CountedAtMostTwice == Spec => [](Len(booked) <= 2)
<1>1. TypeOK /\ EachPathBooksOnce => Len(booked) <= 2
  <2> SUFFICES ASSUME TypeOK, EachPathBooksOnce, Len(booked) > 2 PROVE FALSE
    BY DEF TypeOK, BookedOK
  <2>1. \A k \in 1 .. 3 : k \in DOMAIN booked /\ booked[k] \in Rows
    BY DEF TypeOK, BookedOK
  <2>2. \A k \in 1 .. 3 : booked[k].by \in {"alert", "sweep"}
    BY <2>1 DEF Rows
  <2>3. booked[1].by # booked[2].by /\ booked[1].by # booked[3].by /\ booked[2].by # booked[3].by
    BY <2>1 DEF EachPathBooksOnce
  <2> QED BY <2>2, <2>3
<1> QED BY TradeTypeCorrect, PathsBookOnce, <1>1, PTL

(***************************************************************************)
(* The trade implements its ledger.                                        *)
(***************************************************************************)
\* A trade that is held has not been closed, a fill that was listed closed it,
\* and who is about to write has seen what it writes of.
WarrantInv ==
  /\ held => exit = "none"
  /\ listed # "none" => exit # "none"
  /\ pc = "book" => /\ h.result = "exit" => exit # "none" \/ mixed
                    /\ h.result = "flatten" => exit = "close"
  /\ rpc = "book" => (r.result = "exit" => exit # "none" \/ mixed)

\* What closed a trade does not change.
LEMMA ExitSettles == WarrantInv /\ [Next]_vars => exit' = exit \/ (held /\ ~held')
<1> SUFFICES ASSUME WarrantInv, [Next]_vars PROVE exit' = exit \/ (held /\ ~held') OBVIOUS
<1>1. CASE Broker
  BY <1>1 DEF Broker, StopHit, TargetHit, Liquidated, LiquidationDropped, ManualClose,
     ChildrenDie, ApplyMod, FillListed, SessionRoll, NewHigh, ClosedBy, fills
<1> QED BY <1>1, AlertFrame, SweepFrame, DayFrame, CrashFrame, StutterFrame DEF Next

LEMMA WarrantInit == Init => WarrantInv
BY DEF Init, WarrantInv

LEMMA WarrantNext == TypeInv /\ FlatInv /\ WarrantInv /\ [Next]_vars => WarrantInv'
<1> SUFFICES ASSUME TypeInv, FlatInv, WarrantInv, [Next]_vars PROVE WarrantInv' OBVIOUS
<1> USE DEF WarrantInv
<1>1. CASE Broker
  <2>1. /\ held' => exit' = "none"
        /\ listed' # "none" => exit' # "none"
    BY <1>1 DEF Broker, StopHit, TargetHit, Liquidated, LiquidationDropped, ManualClose,
       ChildrenDie, ApplyMod, FillListed, SessionRoll, NewHigh, ClosedBy, fills
  <2>2. pc = "book" \/ rpc = "book" => exit' = exit
    BY ExitSettles DEF FlatInv
  <2> QED BY <1>1, <2>1, <2>2, BrokerFrame DEF setup
<1>2. CASE Alert
  <2>1. pc' = "book" => \/ h' = [h EXCEPT !.result = "exit"] /\ Attributed
                        \/ h' = [h EXCEPT !.result = "flatten"] /\ exit = "close"
    BY <1>2 DEF Alert, LogIds, Bar, Resolve, Liquidate, CancelWorking, ConfirmFlat, AskTrail,
       SkipTrail, ConfirmStop, LogStop, BookBar, Fallback, Release, Flattened
  <2>2. h \in Work BY DEF TypeInv, TypeOK, AlertOK
  <2>3. pc' = "book" => /\ h'.result = "exit" => Attributed
                        /\ h'.result = "flatten" => exit = "close"
    BY <2>1, <2>2 DEF Work
  <2> QED BY <1>2, <2>3, AlertFrame DEF Attributed, Unrelated, setup
<1>3. CASE Sweeper
  <2>1. rpc' = "book" => \/ r' = [r EXCEPT !.result = "exit"] /\ Attributed
                         \/ r' = [r EXCEPT !.result = "even"]
                         \/ r' = [r EXCEPT !.result = "cancelled"]
    BY <1>3 DEF Sweeper, Sweep, SweepSeesFlat, SweepReadsEntry, SweepResolves,
       SweepSeesNoOrder, SweepBooks, SweepGivesUp
  <2>2. r \in [ids : BOOLEAN, prior : BOOLEAN, result : Results \union {"none"}]
    BY DEF TypeInv, TypeOK, SweepOK
  <2>3. rpc' = "book" /\ r'.result = "exit" => Attributed BY <2>1, <2>2
  <2> QED BY <1>3, <2>3, SweepFrame DEF Attributed, Unrelated, setup
<1>4. CASE DayRoll BY <1>4, DayFrame DEF setup
<1>5. CASE Crash
  <2>1. pc' = "idle" /\ rpc' = "idle" BY <1>5 DEF Crash
  <2> QED BY <2>1, <1>5, CrashFrame
<1>6. CASE UNCHANGED vars BY <1>6, StutterFrame DEF setup
<1> QED BY <1>1, <1>2, <1>3, <1>4, <1>5, <1>6 DEF Next

\* The ledger's view changes only when the broker closes the trade, or when a row
\* is written.
LEMMA LedgerStep ==
  ASSUME TypeInv, FlatInv, OnceInv, WarrantInv, [Next]_vars
  PROVE  [Ledger!Next]_(Ledger!vars)
<1> DEFINE Same == UNCHANGED <<mixed, held, exit, booked>>
<1>1. Same => UNCHANGED Ledger!vars BY DEF Ledger!vars
<1>2. ASSUME NEW by \in {"alert", "sweep"}, NEW what \in Results, WriteOutcome(by, what),
             UNCHANGED <<mixed, held, exit>>, ~held,
             \A k \in DOMAIN booked : booked[k].by # by,
             what = "exit" => exit # "none" \/ mixed, what = "flatten" => exit = "close"
      PROVE  [Ledger!Next]_(Ledger!vars)
  <2>1. CASE UNCHANGED booked BY <1>1, <1>2, <2>1
  <2>2. CASE booked' = Append(booked, [by |-> by, result |-> what])
    <3>1. exit \in {"none", "stop", "target", "close", "manual"} BY DEF TypeInv, TypeOK, FillsOK
    <3>2. Ledger!Warranted(what)
      BY <1>2, <3>1 DEF Ledger!Warranted, Ledger!Closers, Results
    <3>3. Ledger!Book(by, what) BY <1>2, <2>2, <3>2, <3>1 DEF Ledger!Book
    <3> QED BY <1>2, <3>3 DEF Ledger!Next, Ledger!Results, Results
  <2> QED BY <1>2, <2>1, <2>2 DEF WriteOutcome
<1>3. CASE Broker
  <2>1. UNCHANGED <<mixed, booked>> BY <1>3, BrokerFrame DEF setup
  <2>2. \/ UNCHANGED <<held, exit>>
        \/ held /\ ~held' /\ exit' \in {"stop", "target", "close", "manual"}
    BY <1>3 DEF Broker, StopHit, TargetHit, Liquidated, LiquidationDropped, ManualClose,
       ChildrenDie, ApplyMod, FillListed, SessionRoll, NewHigh, ClosedBy, fills
  <2>3. CASE UNCHANGED <<held, exit>> BY <1>1, <2>1, <2>3
  <2>4. CASE held /\ ~held' /\ exit' \in {"stop", "target", "close", "manual"}
    <3>1. Ledger!Close BY <2>1, <2>4 DEF Ledger!Close, Ledger!Closers
    <3> QED BY <3>1 DEF Ledger!Next
  <2> QED BY <2>2, <2>3, <2>4
<1>4. CASE Alert
  <2>1. CASE BookBar
    <3>1. h.result \in Results /\ WriteOutcome("alert", h.result) /\ pc = "book"
      BY <2>1 DEF BookBar, TypeInv, ResultsReady, Results
    <3>2. UNCHANGED <<mixed, held, exit>> BY <1>4, AlertFrame DEF setup
    <3>3. /\ ~held
          /\ \A k \in DOMAIN booked : booked[k].by # "alert"
          /\ h.result = "exit" => exit # "none" \/ mixed
          /\ h.result = "flatten" => exit = "close"
      BY <3>1 DEF FlatInv, OnceInv, WarrantInv
    <3> QED BY <1>2, <3>1, <3>2, <3>3
  <2>2. CASE ~BookBar
    <3>1. booked' = booked
      BY <1>4, <2>2 DEF Alert, LogIds, Bar, Resolve, Liquidate, CancelWorking, ConfirmFlat,
         AskTrail, SkipTrail, ConfirmStop, LogStop, Fallback, journal
    <3> QED BY <1>1, <1>4, <3>1, AlertFrame DEF setup
  <2> QED BY <2>1, <2>2
<1>5. CASE Sweeper
  <2>1. CASE SweepBooks
    <3>1. /\ r.result \in Results /\ r.result # "flatten"
          /\ WriteOutcome("sweep", r.result) /\ rpc = "book"
      BY <2>1 DEF SweepBooks, TypeInv, ResultsReady, Results
    <3>2. UNCHANGED <<mixed, held, exit>> BY <1>5, SweepFrame DEF setup
    <3>3. /\ ~held
          /\ \A k \in DOMAIN booked : booked[k].by # "sweep"
          /\ r.result = "exit" => exit # "none" \/ mixed
      BY <3>1 DEF FlatInv, OnceInv, WarrantInv
    <3> QED BY <1>2, <3>1, <3>2, <3>3
  <2>2. CASE ~SweepBooks
    <3>1. booked' = booked
      BY <1>5, <2>2 DEF Sweeper, Sweep, SweepSeesFlat, SweepReadsEntry, SweepResolves,
         SweepSeesNoOrder, SweepGivesUp, journal
    <3> QED BY <1>1, <1>5, <3>1, SweepFrame DEF setup
  <2> QED BY <2>1, <2>2
<1>6. CASE DayRoll BY <1>1, <1>6, DayFrame DEF setup
<1>7. CASE Crash BY <1>1, <1>7, CrashFrame DEF setup
<1>8. CASE UNCHANGED vars BY <1>1, <1>8, StutterFrame DEF setup
<1> QED BY <1>3, <1>4, <1>5, <1>6, <1>7, <1>8 DEF Next

\* The handler, the fallback, the sweep, the broker and restarts together
\* implement the ledger of the trade.
THEOREM OpenTradeImplementsLedger == Spec => ImplementsLedger
<1>1. Init => Ledger!Init
  BY DEF Init, Ledger!Init
<1>2. TypeInv /\ FlatInv /\ OnceInv /\ WarrantInv /\ [Next]_vars => [Ledger!Next]_(Ledger!vars)
  BY LedgerStep
<1> QED BY TypeInit, TypeNext, FlatInit, FlatNext, OnceInit, OnceNext, WarrantInit, WarrantNext,
           <1>1, <1>2, PTL DEF Spec, ImplementsLedger, Ledger!Spec

(***************************************************************************)
(* A cleared trade was never entered, or the sweep was blind.              *)
(***************************************************************************)
Blind == ~entered \/ ~ids \/ ~entryListed

\* The sweep runs after the writer of the ids, so its copy of them is the
\* journal's, and what made it blind stays so.
BlindInv ==
  /\ ClearedOnlyBlind
  /\ rpc # "idle" => pc # "ids" /\ r.ids = ids
  /\ pc = "ids" => booked = <<>>
  /\ rpc = "orders" => Blind
  /\ rpc = "book" /\ r.result = "cancelled" => Blind

\* The sweep starts when the ids are settled, and they are settled for good.
LEMMA IdsSettle ==
  ASSUME [Next]_vars
  PROVE  /\ pc' = "ids" => pc = "ids" /\ (booked' = booked \/ rpc = "book")
         /\ pc # "ids" => ids' = ids
         /\ entered' = entered /\ (entryListed' => entryListed)
<1>1. CASE Broker
  <2>1. entryListed' => entryListed
    BY <1>1 DEF Broker, StopHit, TargetHit, Liquidated, LiquidationDropped, ManualClose,
       ChildrenDie, ApplyMod, FillListed, SessionRoll, NewHigh
  <2> QED BY <1>1, <2>1, BrokerFrame DEF setup
<1>2. CASE Alert
  <2>1. pc' # "ids" /\ (pc # "ids" => ids' = ids)
    BY <1>2 DEF Alert, LogIds, Bar, Resolve, Liquidate, CancelWorking, ConfirmFlat, AskTrail,
       SkipTrail, ConfirmStop, LogStop, BookBar, Fallback, Release, Flattened, journal
  <2> QED BY <1>2, <2>1, AlertFrame DEF setup
<1>3. CASE Sweeper
  <2>1. rpc = "book" \/ booked' = booked
    BY <1>3 DEF Sweeper, Sweep, SweepSeesFlat, SweepReadsEntry, SweepResolves,
       SweepSeesNoOrder, SweepBooks, SweepGivesUp, journal
  <2> QED BY <1>3, <2>1, SweepFrame DEF setup
<1>4. CASE DayRoll BY <1>4, DayFrame DEF setup
<1>5. CASE Crash
  <2>1. pc' = "idle" BY <1>5 DEF Crash
  <2> QED BY <1>5, <2>1, CrashFrame DEF setup
<1>6. CASE UNCHANGED vars BY <1>6, StutterFrame DEF setup
<1> QED BY <1>1, <1>2, <1>3, <1>4, <1>5, <1>6 DEF Next

\* An OUTCOME row that clears nothing, or clears blindly, keeps the property.
LEMMA ClearingRow ==
  ASSUME BookedOK, ClearedOnlyBlind, Blind' = Blind,
         NEW by \in {"alert", "sweep"}, NEW what \in Results, WriteOutcome(by, what),
         what = "cancelled" => Blind
  PROVE  ClearedOnlyBlind'
<1> DEFINE row == [by |-> by, result |-> what]
<1>1. CASE booked' = Append(booked, row)
  <2>1. booked \in Seq(Rows) /\ row \in Rows BY DEF BookedOK, Rows
  <2>2. \A k \in DOMAIN booked' :
          (k \in DOMAIN booked /\ booked'[k] = booked[k]) \/ booked'[k] = row
    BY <1>1, <2>1
  <2>3. row.result = what OBVIOUS
  <2> HIDE DEF row
  <2> QED BY <2>2, <2>3 DEF ClearedOnlyBlind, Blind
<1>2. CASE UNCHANGED booked BY <1>2 DEF ClearedOnlyBlind, Blind
<1> QED BY <1>1, <1>2 DEF WriteOutcome

LEMMA BlindInit == Init => BlindInv
<1> SUFFICES ASSUME Init PROVE BlindInv OBVIOUS
<1>1. DOMAIN booked = {} BY DEF Init
<1> QED BY <1>1 DEF Init, BlindInv, ClearedOnlyBlind

LEMMA BlindNext == TypeInv /\ BlindInv /\ [Next]_vars => BlindInv'
<1> SUFFICES ASSUME TypeInv, BlindInv, [Next]_vars PROVE BlindInv' OBVIOUS
<1> USE DEF BlindInv
<1>1. pc' = "ids" => booked' = <<>>
  BY IdsSettle
<1>2. CASE booked' = booked /\ rpc' = rpc /\ r' = r
  <2>1. ClearedOnlyBlind'
    <3> SUFFICES ASSUME NEW k \in DOMAIN booked, booked[k].result = "cancelled"
                 PROVE  Blind'
      BY <1>2 DEF ClearedOnlyBlind, Blind
    <3>1. pc # "ids" OBVIOUS
    <3> QED BY <3>1, IdsSettle DEF ClearedOnlyBlind, Blind
  <2> QED BY <1>1, <1>2, <2>1, IdsSettle DEF Blind
<1>3. CASE BookBar
  <2>1. BookedOK /\ h.result \in {"exit", "flatten"} /\ h.result \in Results /\ pc = "book"
    BY <1>3 DEF BookBar, TypeInv, TypeOK, ResultsReady, Results
  <2>2. /\ WriteOutcome("alert", h.result) /\ pc' = "idle" /\ rpc' = rpc /\ r' = r
        /\ ids' = ids /\ entered' = entered /\ entryListed' = entryListed
    BY <1>3 DEF BookBar, Release, setup, broker, sweep
  <2>3. Blind' = Blind BY <2>2 DEF Blind
  <2>4. ClearedOnlyBlind' BY <2>1, <2>2, <2>3, ClearingRow
  <2> QED BY <2>1, <2>2, <2>3, <2>4
<1>4. CASE Sweeper
  <2>1. Blind' = Blind /\ pc' = pc /\ ids' = ids BY <1>4, SweepFrame DEF Blind, setup
  <2>2. CASE SweepBooks
    <3>1. BookedOK /\ r.result \in Results /\ rpc = "book"
      BY <2>2 DEF SweepBooks, TypeInv, TypeOK, ResultsReady, Results
    <3>2. WriteOutcome("sweep", r.result) /\ rpc' = "idle" BY <2>2 DEF SweepBooks
    <3>3. ClearedOnlyBlind' BY <2>1, <3>1, <3>2, ClearingRow
    <3> QED BY <1>1, <2>1, <3>1, <3>2, <3>3
  <2>3. CASE ~SweepBooks
    <3>1. booked' = booked
      BY <1>4, <2>3 DEF Sweeper, Sweep, SweepSeesFlat, SweepReadsEntry, SweepResolves,
         SweepSeesNoOrder, SweepGivesUp, journal
    <3>2. ClearedOnlyBlind' BY <2>1, <3>1 DEF ClearedOnlyBlind, Blind
    <3>3. CASE Sweep
      <4>1. rpc' = "position" /\ pc # "ids" /\ r' = [NoSweep EXCEPT !.ids = ids, !.prior = prior]
        BY <3>3 DEF Sweep
      <4>2. r'.ids = ids BY <4>1 DEF NoSweep
      <4> QED BY <4>1, <4>2, <2>1, <3>1, <3>2
    <3>4. CASE SweepSeesFlat BY <3>4, <2>1, <3>1, <3>2 DEF SweepSeesFlat, Blind
    <3>5. CASE SweepReadsEntry BY <3>5, <2>1, <3>1, <3>2 DEF SweepReadsEntry, Blind
    <3>6. CASE SweepResolves
      <4>1. /\ rpc = "exit" /\ rpc' = "book"
            /\ r' = [r EXCEPT !.result = "exit"] \/ r' = [r EXCEPT !.result = "even"]
        BY <3>6 DEF SweepResolves
      <4>2. r'.ids = r.ids /\ r'.result # "cancelled"
        BY <4>1 DEF TypeInv, TypeOK, SweepOK
      <4> QED BY <4>1, <4>2, <2>1, <3>1, <3>2
    <3>7. CASE SweepSeesNoOrder
      <4>1. rpc = "orders" /\ rpc' = "book" /\ r' = [r EXCEPT !.result = "cancelled"]
        BY <3>7 DEF SweepSeesNoOrder
      <4>2. r'.ids = r.ids BY <4>1 DEF TypeInv, TypeOK, SweepOK
      <4> QED BY <4>1, <4>2, <2>1, <3>1, <3>2
    <3>8. CASE SweepGivesUp
      <4>1. rpc' = "idle" BY <3>8 DEF SweepGivesUp
      <4> QED BY <4>1, <2>1, <3>1, <3>2
    <3> QED BY <1>4, <2>3, <3>3, <3>4, <3>5, <3>6, <3>7, <3>8 DEF Sweeper
  <2> QED BY <2>2, <2>3
<1>5. CASE Crash
  <2>1. /\ pc' = "idle" /\ rpc' = "idle" /\ booked' = booked
        /\ Blind' = Blind
    BY <1>5, CrashFrame DEF Crash, Blind, setup
  <2>2. ClearedOnlyBlind' BY <2>1 DEF ClearedOnlyBlind, Blind
  <2> QED BY <2>1, <2>2
<1>6. Broker \/ DayRoll \/ UNCHANGED vars => booked' = booked /\ rpc' = rpc /\ r' = r
  BY BrokerFrame, DayFrame, StutterFrame
<1>7. Alert /\ ~BookBar => booked' = booked /\ rpc' = rpc /\ r' = r
  BY DEF Alert, LogIds, Bar, Resolve, Liquidate, CancelWorking, ConfirmFlat, AskTrail,
     SkipTrail, ConfirmStop, LogStop, Fallback, journal, sweep
<1> QED BY <1>2, <1>3, <1>4, <1>5, <1>6, <1>7 DEF Next

\* A trade that was entered is cleared as a phantom only if its order ids are
\* not in the journal or the session that filled it is over.
THEOREM EnteredClearedBlind == Spec => []ClearedOnlyBlind
<1>1. BlindInv => ClearedOnlyBlind BY DEF BlindInv
<1> QED BY TypeInit, TypeNext, BlindInit, BlindNext, <1>1, PTL DEF Spec

(***************************************************************************)
(* What a bar reads.                                                       *)
(***************************************************************************)
\* A stop is recorded together with the runner's mode.
StopAndMode ==
  /\ mode = "static" => jstop = FirstStop
  /\ pc = "ids" => mode = "static"
  /\ h.stop = FirstStop

LEMMA StopAndModeNext == TypeInv /\ StopAndMode /\ [Next]_vars => StopAndMode'
<1> SUFFICES ASSUME TypeInv, StopAndMode, [Next]_vars PROVE StopAndMode' OBVIOUS
<1>1. h \in Work /\ mode \in {"static", "runner"} /\ NoWork.stop = FirstStop
  BY DEF TypeInv, TypeOK, AlertOK, JournalOK, NoWork
<1> USE DEF StopAndMode
<1>2. CASE Alert
  <2>1. mode' = "static" => jstop' = FirstStop
    BY <1>1, <1>2 DEF Alert, LogIds, Bar, Resolve, Liquidate, CancelWorking, ConfirmFlat, AskTrail,
       SkipTrail, ConfirmStop, LogStop, BookBar, Fallback, journal
  <2>2. h'.stop = FirstStop
    <3> USE DEF Release, Flattened, Work
    <3>1. CASE Bar
      <4>1. PICK eod \in BOOLEAN :
              h' = [NoWork EXCEPT !.stop = jstop, !.ids = ids, !.eod = eod]
        BY <3>1 DEF Bar
      <4>2. jstop = FirstStop BY <3>1, <1>1 DEF Bar, Complete
      <4> QED BY <4>1, <4>2 DEF NoWork
    <3>2. CASE Resolve BY <3>2, <1>1 DEF Resolve
    <3>3. CASE Liquidate
      <4>1. \/ h' \in {h, NoWork, [h EXCEPT !.sent = TRUE]}
            \/ \E b \in BOOLEAN : h' = [h EXCEPT !.kept = b]
        BY <3>3 DEF Liquidate
      <4> QED BY <4>1, <1>1
    <3>4. CASE CancelWorking BY <3>4, <1>1 DEF CancelWorking
    <3>5. CASE ConfirmFlat BY <3>5, <1>1 DEF ConfirmFlat
    <3>6. CASE AskTrail
      <4>1. \/ h' = NoWork
            \/ h' = [h EXCEPT !.want = RoundToTick(TrailedStop(best)),
                              !.would = TrailedStop(best)]
        BY <3>6 DEF AskTrail
      <4> QED BY <4>1, <1>1
    <3>7. CASE LogIds \/ SkipTrail \/ ConfirmStop \/ LogStop \/ BookBar \/ Fallback
      BY <3>7, <1>1 DEF LogIds, SkipTrail, ConfirmStop, LogStop, BookBar, Fallback
    <3> QED BY <1>2, <3>1, <3>2, <3>3, <3>4, <3>5, <3>6, <3>7 DEF Alert
  <2>3. pc' # "ids"
    BY <1>2 DEF Alert, LogIds, Bar, Resolve, Liquidate, CancelWorking, ConfirmFlat, AskTrail,
       SkipTrail, ConfirmStop, LogStop, BookBar, Fallback, Release, Flattened
  <2> QED BY <2>1, <2>2, <2>3
<1>3. CASE Crash
  <2>1. h' = NoWork /\ pc' = "idle" BY <1>3 DEF Crash
  <2> QED BY <1>1, <1>3, <2>1, CrashFrame
<1>4. CASE Broker \/ Sweeper \/ DayRoll \/ UNCHANGED vars
  BY <1>4, BrokerFrame, SweepFrame, DayFrame, StutterFrame
<1> QED BY <1>2, <1>3, <1>4 DEF Next

\* A bar that resolves or trails the trade reads the stop it was opened with,
\* so the risk the trail is measured in never changes under it.
THEOREM BarsReadFirstStop == Spec => [](h.stop = FirstStop)
<1>1. Init => StopAndMode BY DEF Init, StopAndMode, NoWork
<1>2. StopAndMode => h.stop = FirstStop BY DEF StopAndMode
<1> QED BY TypeInit, TypeNext, StopAndModeNext, <1>1, <1>2, PTL DEF Spec

(***************************************************************************)
(* The stop never loosens, and the journal is never ahead of it.           *)
(***************************************************************************)
\* The moves under way rise, from the resting stop to what the best price
\* allows, so that applying or losing any of them leaves the rest above.
MovesRise ==
  /\ \A i \in DOMAIN mods : stopAt <= mods[i]
  /\ \A i, j \in DOMAIN mods : i <= j => mods[i] <= mods[j]
  /\ \A i \in DOMAIN mods : mods[i] <= RoundToTick(TrailedStop(best))
  /\ stopAt <= RoundToTick(TrailedStop(best))

\* What the handler is about to record has been reached by the broker's stop.
RecordRests ==
  /\ RoundToTick(jstop) <= stopAt
  /\ pc \in {"confirm", "log"} => h.want = RoundToTick(h.would)
  /\ pc = "log" => h.want <= stopAt

StopInv == MovesRise /\ RecordRests

\* The best price, and so the stop it allows, never falls.
LEMMA TrailRises ==
  ASSUME TypeOK, [Next]_vars
  PROVE  /\ RoundToTick(TrailedStop(best)) \in Int /\ RoundToTick(TrailedStop(best')) \in Int
         /\ RoundToTick(TrailedStop(best)) <= RoundToTick(TrailedStop(best'))
<1>1. best \in Int BY DEF TypeOK, OrdersOK
<1>2. best' \in Int /\ best <= best'
  <2>1. CASE NewHigh BY <2>1, <1>1, PriceAssumption DEF NewHigh
  <2>2. CASE ~NewHigh
    <3>1. Broker => best' = best
      BY <2>2 DEF Broker, StopHit, TargetHit, Liquidated, LiquidationDropped, ManualClose,
         ChildrenDie, ApplyMod, FillListed, SessionRoll, orders
    <3>2. best' = best
      BY <3>1, AlertFrame, SweepFrame, DayFrame, CrashFrame, StutterFrame DEF Next
    <3> QED BY <1>1, <3>2
  <2> QED BY <2>1, <2>2
<1>3. /\ TrailedStop(best) \in Int /\ TrailedStop(best') \in Int
      /\ TrailedStop(best) <= TrailedStop(best')
  BY <1>1, <1>2, TrailIsInt, TrailIsMonotone
<1> QED BY <1>3, RoundIsInt, RoundIsMonotone

\* One more move, no lower than the others, keeps the moves rising.
LEMMA AppendedMoveRises ==
  ASSUME TypeOK, MovesRise, mods' = Append(mods, RoundToTick(TrailedStop(best))),
         stopAt' = stopAt, best' = best, RoundToTick(TrailedStop(best)) \in Int
  PROVE  MovesRise'
<1> DEFINE m == RoundToTick(TrailedStop(best))
<1>1. mods \in Seq(Int) /\ stopAt \in Int BY DEF TypeOK, OrdersOK
<1>2. /\ DOMAIN mods = 1..Len(mods) /\ DOMAIN mods' = 1..(Len(mods) + 1) /\ Len(mods) \in Nat
  BY <1>1
<1>3. \A i \in 1..Len(mods) : mods'[i] = mods[i] /\ mods[i] \in Int BY <1>1
<1>4. mods'[Len(mods) + 1] = m BY <1>1
<1>5. RoundToTick(TrailedStop(best')) = m BY DEF RoundToTick, TrailedStop
<1>6. m \in Int /\ stopAt <= m /\ \A i \in 1..Len(mods) : mods[i] <= m /\ stopAt <= mods[i]
  BY <1>2 DEF MovesRise
<1>7. \A i, j \in 1..Len(mods) : i <= j => mods[i] <= mods[j] BY <1>2 DEF MovesRise
<1> HIDE DEF m
<1>8. \A i \in DOMAIN mods' : stopAt' <= mods'[i] /\ mods'[i] <= m
  BY <1>2, <1>3, <1>4, <1>6
<1>9. \A i, j \in DOMAIN mods' : i <= j => mods'[i] <= mods'[j]
  <2> SUFFICES ASSUME NEW i \in DOMAIN mods', NEW j \in DOMAIN mods', i <= j
               PROVE  mods'[i] <= mods'[j]
    OBVIOUS
  <2>1. CASE j = Len(mods) + 1 BY <2>1, <1>4, <1>8
  <2>2. CASE j # Len(mods) + 1
    <3>1. i \in 1..Len(mods) /\ j \in 1..Len(mods) BY <2>2, <1>2
    <3> QED BY <3>1, <1>3, <1>7
  <2> QED BY <2>1, <2>2
<1> QED BY <1>5, <1>6, <1>8, <1>9 DEF MovesRise

\* Taking the first move, applied or lost, keeps the moves rising.
LEMMA TakenMoveRises ==
  ASSUME TypeOK, MovesRise, ApplyMod
  PROVE  MovesRise' /\ stopAt' >= stopAt
<1>1. /\ mods \in Seq(Int) /\ stopAt \in Int /\ mods # <<>> /\ mods' = Tail(mods)
      /\ stopAt' = Head(mods) \/ stopAt' = stopAt
      /\ best' = best
  BY DEF ApplyMod, TypeOK, OrdersOK
<1>2. /\ DOMAIN mods = 1..Len(mods) /\ DOMAIN mods' = 1..(Len(mods) - 1)
      /\ Len(mods) \in Nat /\ Len(mods) >= 1 /\ Head(mods) = mods[1]
  BY <1>1
<1>3. \A i \in 1..(Len(mods) - 1) :
        mods'[i] = mods[i + 1] /\ i + 1 \in 1..Len(mods) /\ mods[i + 1] \in Int
  BY <1>1, <1>2
<1>4. \A i \in 1..Len(mods) : mods[i] \in Int BY <1>1
<1>5. 1 \in DOMAIN mods /\ stopAt <= mods[1] BY <1>2 DEF MovesRise
<1>6. stopAt' >= stopAt /\ stopAt' \in Int BY <1>1, <1>2, <1>4, <1>5
<1>7. RoundToTick(TrailedStop(best')) = RoundToTick(TrailedStop(best))
  BY <1>1 DEF RoundToTick, TrailedStop
<1>8. stopAt' <= RoundToTick(TrailedStop(best))
  BY <1>1, <1>2, <1>5 DEF MovesRise
<1>9. \A i \in DOMAIN mods' : stopAt' <= mods'[i]
  <2> SUFFICES ASSUME NEW i \in DOMAIN mods' PROVE stopAt' <= mods'[i] OBVIOUS
  <2>1. /\ i \in 1..(Len(mods) - 1) /\ mods'[i] = mods[i + 1] /\ i + 1 \in DOMAIN mods
        /\ 1 <= i + 1
    BY <1>2, <1>3
  <2>2. mods[1] <= mods[i + 1] /\ stopAt <= mods[i + 1] BY <2>1, <1>5 DEF MovesRise
  <2> QED BY <2>1, <2>2, <1>1, <1>2
<1>10. \A i, j \in DOMAIN mods' : i <= j => mods'[i] <= mods'[j]
  <2> SUFFICES ASSUME NEW i \in DOMAIN mods', NEW j \in DOMAIN mods', i <= j
               PROVE  mods'[i] <= mods'[j]
    OBVIOUS
  <2>1. /\ mods'[i] = mods[i + 1] /\ mods'[j] = mods[j + 1]
        /\ i + 1 \in DOMAIN mods /\ j + 1 \in DOMAIN mods /\ i + 1 <= j + 1
    BY <1>2, <1>3
  <2> QED BY <2>1 DEF MovesRise
<1>11. \A i \in DOMAIN mods' : mods'[i] <= RoundToTick(TrailedStop(best))
  BY <1>2, <1>3 DEF MovesRise
<1> QED BY <1>6, <1>7, <1>8, <1>9, <1>10, <1>11 DEF MovesRise

\* Every step keeps the moves rising and loosens nothing.
LEMMA MovesNext ==
  ASSUME TypeOK, MovesRise, [Next]_vars
  PROVE  MovesRise' /\ stopAt' >= stopAt
<1>1. CASE ApplyMod BY <1>1, TakenMoveRises
<1>2. CASE AskTrail
  <2>1. stopAt' = stopAt /\ best' = best /\ stopAt \in Int
    BY <1>2 DEF AskTrail, TypeOK, OrdersOK
  <2>2. CASE mods' = Append(mods, RoundToTick(TrailedStop(best)))
    BY <2>1, <2>2, TrailRises, AppendedMoveRises
  <2>3. CASE mods' = mods BY <2>1, <2>3 DEF MovesRise, RoundToTick, TrailedStop
  <2> QED BY <1>2, <2>2, <2>3 DEF AskTrail
<1>3. CASE ~ApplyMod /\ ~AskTrail
  <2>1. mods' = mods /\ stopAt' = stopAt
    <3>1. Broker => mods' = mods /\ stopAt' = stopAt
      BY <1>3 DEF Broker, StopHit, TargetHit, Liquidated, LiquidationDropped, ManualClose,
         ChildrenDie, FillListed, SessionRoll, NewHigh, orders
    <3>2. Alert => mods' = mods
      BY <1>3 DEF Alert, LogIds, Bar, Resolve, Liquidate, CancelWorking, ConfirmFlat, SkipTrail,
         ConfirmStop, LogStop, BookBar, Fallback, broker, orders
    <3> QED BY <3>1, <3>2, AlertFrame, SweepFrame, DayFrame, CrashFrame, StutterFrame DEF Next
  <2>2. stopAt \in Int /\ mods \in Seq(Int) BY DEF TypeOK, OrdersOK
  <2>3. /\ \A i \in DOMAIN mods : mods[i] \in Int BY <2>2
  <2> DEFINE low == RoundToTick(TrailedStop(best))
             top == RoundToTick(TrailedStop(best'))
  <2>4. low \in Int /\ top \in Int /\ low <= top BY TrailRises
  <2>5. RoundToTick(TrailedStop(best))' = top BY DEF RoundToTick, TrailedStop
  <2>6. stopAt <= low /\ \A i \in DOMAIN mods : mods[i] <= low BY DEF MovesRise
  <2> HIDE DEF low, top
  <2>7. stopAt <= top /\ \A i \in DOMAIN mods : mods[i] <= top
    BY <2>2, <2>3, <2>4, <2>6
  <2> QED BY <2>1, <2>2, <2>5, <2>7 DEF MovesRise
<1> QED BY <1>1, <1>2, <1>3

LEMMA StopInit == Init => StopInv
<1> SUFFICES ASSUME Init PROVE StopInv OBVIOUS
<1>1. /\ mods = <<>> /\ stopAt = RoundToTick(FirstStop) /\ jstop = FirstStop /\ best = Entry
      /\ pc \in {"ids", "idle"}
  BY DEF Init
<1>2. DOMAIN mods = {} BY <1>1
<1>3. FirstStop <= TrailedStop(Entry) /\ TrailedStop(Entry) \in Int
  BY PriceAssumption, TrailIsInt
<1>4. RoundToTick(FirstStop) \in Int /\ RoundToTick(FirstStop) <= RoundToTick(TrailedStop(Entry))
  BY <1>3, PriceAssumption, RoundIsInt, RoundIsMonotone
<1> QED BY <1>1, <1>2, <1>4 DEF StopInv, MovesRise, RecordRests

LEMMA RecordNext ==
  ASSUME TypeOK, RecordRests, [Next]_vars, stopAt' >= stopAt, stopAt' \in Int
  PROVE  RecordRests'
<1> USE DEF RecordRests
<1>1. /\ stopAt \in Int /\ jstop \in Int /\ h.want \in Int /\ h.would \in Int
      /\ RoundToTick(jstop) \in Int
  BY RoundIsInt DEF TypeOK, OrdersOK, JournalOK, AlertOK, Work
<1>2. CASE AskTrail
  <2>1. jstop' = jstop BY <1>2 DEF AskTrail, journal
  <2>2. CASE pc' = "confirm"
    <3>1. h' = [h EXCEPT !.want = RoundToTick(TrailedStop(best)), !.would = TrailedStop(best)]
      BY <1>2, <2>2 DEF AskTrail, Release
    <3>2. h'.want = RoundToTick(h'.would)
      <4>1. h'.want = RoundToTick(TrailedStop(best)) /\ h'.would = TrailedStop(best)
        BY <3>1 DEF TypeOK, AlertOK, Work
      <4> QED BY <4>1
    <3>3. (RoundToTick(h.would))' = RoundToTick(h'.would) BY DEF RoundToTick
    <3>4. RoundToTick(jstop)' = RoundToTick(jstop) BY <2>1 DEF RoundToTick
    <3> QED BY <1>1, <2>2, <3>2, <3>3, <3>4
  <2>3. CASE pc' # "confirm"
    <3>1. pc' = "idle" BY <1>2, <2>3 DEF AskTrail, Release
    <3>2. RoundToTick(jstop)' = RoundToTick(jstop) BY <2>1 DEF RoundToTick
    <3> QED BY <1>1, <3>1, <3>2
  <2> QED BY <2>2, <2>3
<1>3. CASE ConfirmStop
  <2>1. /\ jstop' = jstop
        /\ \/ pc' = "log" /\ h' = h /\ stopAt = h.want /\ pc = "confirm"
           \/ pc' = "idle"
    BY <1>3 DEF ConfirmStop, journal, Release
  <2>2. RoundToTick(jstop)' = RoundToTick(jstop) BY <2>1 DEF RoundToTick
  <2>3. h' = h => (RoundToTick(h.would))' = RoundToTick(h.would) BY DEF RoundToTick
  <2> QED BY <1>1, <2>1, <2>2, <2>3
<1>4. CASE LogStop
  <2>1. pc = "log" /\ pc' = "idle" /\ jstop' \in {jstop, h.would} BY <1>4 DEF LogStop, Release
  <2>2. RoundToTick(jstop)' = RoundToTick(jstop') BY DEF RoundToTick
  <2>3. RoundToTick(jstop') <= stopAt BY <2>1
  <2> QED BY <1>1, <2>1, <2>2, <2>3, RoundIsInt
<1>5. CASE ~AskTrail /\ ~ConfirmStop /\ ~LogStop
  <2>1. jstop' = jstop
    <3>1. Alert => jstop' = jstop
      BY <1>5 DEF Alert, LogIds, Bar, Resolve, Liquidate, CancelWorking, ConfirmFlat, SkipTrail,
         BookBar, Fallback, journal
    <3> QED BY <3>1, BrokerFrame, SweepFrame, DayFrame, CrashFrame, StutterFrame DEF Next
  <2>2. pc' \in {"confirm", "log"} => pc' = pc /\ h' = h
    <3>1. Alert => pc' \notin {"confirm", "log"}
      BY <1>5 DEF Alert, LogIds, Bar, Resolve, Liquidate, CancelWorking, ConfirmFlat, SkipTrail,
         BookBar, Fallback, Release, Flattened
    <3>2. Crash => pc' = "idle" BY DEF Crash
    <3> QED BY <3>1, <3>2, BrokerFrame, SweepFrame, DayFrame, StutterFrame DEF Next
  <2>3. RoundToTick(jstop)' = RoundToTick(jstop) BY <2>1 DEF RoundToTick
  <2>4. h' = h => (RoundToTick(h.would))' = RoundToTick(h.would) BY DEF RoundToTick
  <2> QED BY <1>1, <2>1, <2>2, <2>3, <2>4
<1> QED BY <1>2, <1>3, <1>4, <1>5

LEMMA StopNext == TypeInv /\ TypeInv' /\ StopInv /\ [Next]_vars => StopInv'
<1> SUFFICES ASSUME TypeInv, TypeInv', StopInv, [Next]_vars PROVE StopInv' OBVIOUS
<1>1. TypeOK /\ stopAt' \in Int BY DEF TypeInv, TypeOK, OrdersOK
<1>2. MovesRise' /\ stopAt' >= stopAt BY <1>1, MovesNext DEF StopInv
<1>3. RecordRests' BY <1>1, <1>2, RecordNext DEF StopInv
<1> QED BY <1>2, <1>3 DEF StopInv

LEMMA TradeStopInv == Spec => []StopInv
BY TypeInit, TypeNext, StopInit, StopNext, PTL DEF Spec

\* The stop the journal would hand to a restart is one the broker reached.
THEOREM JournalNeverAhead == Spec => []JournaledStopRests
<1>1. StopInv => JournaledStopRests BY DEF StopInv, RecordRests, JournaledStopRests
<1> QED BY TradeStopInv, <1>1, PTL

\* No sequence of moves, late, lost or repeated, loosens the resting stop.
THEOREM StopNeverLoosens == Spec => StopOnlyTightens
<1>1. TypeInv /\ StopInv /\ [Next]_vars => [stopAt' >= stopAt]_vars
  BY MovesNext DEF TypeInv, StopInv
<1> QED BY TypeInit, TypeNext, StopInit, StopNext, <1>1, PTL DEF Spec, StopOnlyTightens

=============================================================================
