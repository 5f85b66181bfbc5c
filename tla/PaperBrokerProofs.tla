-------------------------- MODULE PaperBrokerProofs --------------------------
(***************************************************************************)
(* Theorems of PaperBroker, for any brackets, any prices, any slippage,    *)
(* none included, and any set of configurations.                           *)
(***************************************************************************)
EXTENDS PaperBroker, TLAPS

(***************************************************************************)
(* The invariant: what is held lies in its bracket and is the order's, and *)
(* every fill is sound.                                                    *)
(***************************************************************************)
Bracketed(o, pos) ==
  /\ pos \in Positions /\ pos.qty = o.qty
  /\ pos.stop <= pos.entry /\ pos.entry < pos.target

\* The result is measured from the planned entry.
FromPlan(m, f) == f.reason = "DAY_ONLY" /\ m.entry = "stop_market"

Told(m, o, f) ==
  /\ f.result = "WIN" => f.exit > f.entry \/ (FromPlan(m, f) /\ f.exit > o.plan.entry)
  /\ f.result = "LOSS" => f.exit < f.entry \/ (Slip = 0 /\ f.stop = f.entry /\ f.exit = f.entry)
  /\ f.result = "BREAKEVEN" =>
       \/ f.exit = f.entry
       \/ f.reason = "BREAKEVEN_STOP" /\ f.exit + Slip = f.entry
       \/ FromPlan(m, f) /\ f.exit = o.plan.entry

WorstOf(m, f) == m.pessimistic /\ f.reason = "TARGET_HIT" => f.low > f.stop

AtFixedStop(m, o, f) ==
  \/ f.reason \in {"STOP_GAP", "BREAKEVEN_STOP"}
  \/ f.reason = "STOP_HIT" /\ ~Runs(m, o)

OfferedTo(m, o, f) ==
  /\ AtFixedStop(m, o, f) => f.low <= f.exit + Slip /\ f.exit + Slip <= f.high
  /\ f.reason \in {"DAY_ONLY", "FORCE_CLOSE"} => f.low <= f.exit /\ f.exit <= f.high
  /\ f.reason = "TARGET_HIT" => f.exit <= f.high
  /\ f.reason \in {"RUNNER_TRAIL", "STOP_HIT"} => f.low <= f.exit + Slip

Sound(m, o, f) == f \in Fills /\ Told(m, o, f) /\ WorstOf(m, f) /\ OfferedTo(m, o, f)

Typed == settings \in AllSettings /\ settings \in Settings /\ prior \in Prices

Ordered ==
  \/ order \in Orders
  \/ order = NoOrder /\ kept = Flat /\ row = NoPos /\ keptFill = NoFill /\ webFill = NoFill

KeptInv ==
  /\ kept \in [pos : Positions \cup {NoPos}, pending : BOOLEAN, maxFav : Nat]
  /\ kept.pending => kept.pos = NoPos /\ Mode(order).entry = "stop_market"
  /\ kept.pos # NoPos => Bracketed(order, kept.pos)

RowInv == row # NoPos => Bracketed(order, row) /\ row.stop < row.entry /\ row.entry \in Nat

FillInv ==
  /\ keptFill \notin {NoFill, EodBarMissing} => Sound(Mode(order), order, keptFill)
  /\ webFill # NoFill => Sound(Mode(order), order, webFill)

\* A stop entry is paid at its trigger or beyond.
TriggerInv ==
  kept.pos # NoPos /\ Mode(order).entry = "stop_market" => order.plan.entry <= kept.pos.entry

\* A trade that has ended is not held, and there is no second one.
EndedInv ==
  /\ keptFill # NoFill => kept.pos = NoPos /\ ~kept.pending
  /\ webFill # NoFill => row = NoPos

BrokerInv == Typed /\ Ordered /\ KeptInv /\ RowInv /\ FillInv
             /\ TriggerInv /\ EndedInv

(***************************************************************************)
(* Data.                                                                   *)
(***************************************************************************)
LEMMA SlipFacts == Slip \in Nat /\ Tol \in Nat /\ Top \in Nat
BY PriceAssumption

LEMMA PriceIsNat == ASSUME NEW p \in Prices PROVE p \in Nat
BY SlipFacts DEF Prices

LEMMA BarFacts ==
  ASSUME NEW b \in Bars
  PROVE  /\ b.open \in Nat /\ b.high \in Nat /\ b.low \in Nat /\ b.high \in Prices
         /\ b.low <= b.open /\ b.open <= b.high
<1>1. /\ b.open \in Prices /\ b.high \in Prices /\ b.low \in Prices
      /\ b.low <= b.open /\ b.open <= b.high
  BY DEF Bars
<1> QED BY <1>1, PriceIsNat

LEMMA OrderFacts ==
  ASSUME NEW o \in Orders
  PROVE  /\ o.plan.stop \in Nat /\ o.plan.entry \in Nat /\ o.plan.target \in Nat
         /\ o.plan.stop < o.plan.entry /\ o.plan.entry < o.plan.target
         /\ o.qty \in {1, 2}
<1>1. o.plan \in Plans /\ o.qty \in {1, 2} BY DEF Orders
<1>2. /\ o.plan.stop \in Prices /\ o.plan.entry \in Prices /\ o.plan.target \in Prices
      /\ o.plan.stop < o.plan.entry /\ o.plan.entry < o.plan.target
  BY <1>1, PlanAssumption
<1> QED BY <1>1, <1>2, PriceIsNat

LEMMA NoOrderIsNone == NoOrder \notin Orders
<1>1. DOMAIN NoOrder = {"plan"} BY DEF NoOrder
<1>2. \A o \in Orders : "qty" \in DOMAIN o BY DEF Orders
<1> QED BY <1>1, <1>2

LEMMA NoPosIsNone == NoPos \notin Positions
<1>1. NoPos.qty = 0 BY DEF NoPos
<1>2. \A p \in Positions : p.qty \in {1, 2} BY DEF Positions
<1> QED BY <1>1, <1>2

LEMMA NoFillIsNone == NoFill \notin Fills
<1>1. NoFill.reason = "none" BY DEF NoFill
<1>2. \A f \in Fills : f.reason # "none" BY DEF Fills
<1> QED BY <1>1, <1>2

LEMMA MissingIsNone == EodBarMissing \notin Fills /\ EodBarMissing # NoFill
<1>1. EodBarMissing.reason = "EOD_BAR_MISSING" BY DEF EodBarMissing
<1>2. \A f \in Fills : f.reason # "EOD_BAR_MISSING" BY DEF Fills
<1>3. NoFill.reason = "none" BY DEF NoFill
<1> QED BY <1>1, <1>2, <1>3

LEMMA NoFillIsFresh ==
  ASSUME NEW pos, NEW exit, NEW reason \in {"RUNNER_TRAIL", "STOP_HIT"}, NEW result, NEW b
  PROVE  Fill(pos, exit, reason, result, b) # NoFill
BY DEF Fill, NoFill

LEMMA FlatFacts ==
  /\ Flat \in [pos : Positions \cup {NoPos}, pending : BOOLEAN, maxFav : Nat]
  /\ Flat.pos = NoPos /\ Flat.pending = FALSE /\ Flat.maxFav = 0
BY DEF Flat

\* A proof lane's broker differs in its entry and exit, not in its pessimism.
LEMMA ModeFacts ==
  ASSUME Typed, NEW o \in Orders
  PROVE  Mode(o) \in AllSettings /\ Mode(o).pessimistic = settings.pessimistic
BY DEF Mode, Typed, AllSettings, Orders

(***************************************************************************)
(* Entries.                                                                *)
(***************************************************************************)
LEMMA EntryIsNat ==
  ASSUME NEW o \in Orders, NEW market \in Prices
  PROVE  EntryPrice(o, market) \in Nat
<1>1. market \in Nat BY PriceIsNat
<1> QED BY <1>1, OrderFacts, SlipFacts DEF EntryPrice, Lower

LEMMA HoldingIsBracketed ==
  ASSUME NEW o \in Orders, NEW price \in Nat, InBracket(o, price)
  PROVE  /\ Bracketed(o, Holding(o, price)) /\ Holding(o, price).stop < Holding(o, price).entry
         /\ Holding(o, price).entry \in Nat /\ Holding(o, price) # NoPos
<1>1. /\ Bracketed(o, Holding(o, price)) /\ Holding(o, price).stop < Holding(o, price).entry
      /\ Holding(o, price).entry \in Nat
  BY OrderFacts DEF Bracketed, Holding, InBracket, Positions
<1> QED BY <1>1, NoPosIsNone DEF Bracketed

LEMMA TriggeredIsBracketed ==
  ASSUME NEW o \in Orders, NEW b \in Bars, Triggered(o, b) # NoPos
  PROVE  Bracketed(o, Triggered(o, b)) /\ o.plan.entry <= Triggered(o, b).entry
<1> DEFINE price == (IF b.open >= o.plan.entry THEN b.open ELSE o.plan.entry) + Slip
<1>1. price \in Nat /\ o.plan.entry <= price BY OrderFacts, BarFacts, SlipFacts
<1>2. InBracket(o, price) /\ Triggered(o, b) = Holding(o, price) BY DEF Triggered
<1> HIDE DEF price
<1>3. Triggered(o, b).entry = price BY <1>2 DEF Holding
<1> QED BY <1>1, <1>2, <1>3, HoldingIsBracketed

(***************************************************************************)
(* Exits.                                                                  *)
(***************************************************************************)
LEMMA PosFacts ==
  ASSUME NEW o, NEW pos, Bracketed(o, pos)
  PROVE  /\ pos.entry \in Int /\ pos.stop \in Int /\ pos.target \in Int /\ pos.qty \in {1, 2}
         /\ pos.stop <= pos.entry /\ pos.entry < pos.target
BY DEF Bracketed, Positions

\* A fill's fields.
LEMMA FillFields ==
  ASSUME NEW pos, NEW exit, NEW reason, NEW result, NEW b
  PROVE  LET f == Fill(pos, exit, reason, result, b)
         IN /\ f.reason = reason /\ f.result = result /\ f.entry = pos.entry /\ f.exit = exit
            /\ f.stop = pos.stop /\ f.low = b.low /\ f.high = b.high
BY DEF Fill

LEMMA FillIsTyped ==
  ASSUME NEW o, NEW pos, Bracketed(o, pos), NEW b \in Bars, NEW exit \in Int,
         NEW reason \in {"STOP_GAP", "STOP_HIT", "TARGET_HIT", "BREAKEVEN_STOP",
                         "RUNNER_TRAIL", "DAY_ONLY", "FORCE_CLOSE"},
         NEW result \in {"WIN", "LOSS", "BREAKEVEN"}
  PROVE  Fill(pos, exit, reason, result, b) \in Fills
BY PosFacts, BarFacts DEF Fill, Fills

\* A loss at a fixed stop is sound if it lost, but for the slippage, and was offered.
LEMMA StopIsSound ==
  ASSUME NEW m, NEW o, NEW f \in Fills, f.reason \in {"STOP_GAP", "STOP_HIT"}, f.result = "LOSS",
         f.exit < f.entry \/ (Slip = 0 /\ f.stop = f.entry /\ f.exit = f.entry),
         f.low <= f.exit + Slip, f.exit + Slip <= f.high
  PROVE  Sound(m, o, f)
BY DEF Sound, Told, WorstOf, OfferedTo

\* A fixed exit is sound whatever the bar did.
LEMMA StaticExitIsSound ==
  ASSUME NEW m \in AllSettings, NEW o, NEW pos, Bracketed(o, pos), NEW b \in Bars,
         StaticExit(m, pos, b) # NoFill
  PROVE  Sound(m, o, StaticExit(m, pos, b))
<1> DEFINE f == StaticExit(m, pos, b)
<1>0. /\ b.open \in Nat /\ b.high \in Nat /\ b.low \in Nat /\ b.low <= b.open /\ b.open <= b.high
      /\ pos.entry \in Int /\ pos.stop \in Int /\ pos.target \in Int
      /\ pos.stop <= pos.entry /\ pos.entry < pos.target
  BY PosFacts, BarFacts
<1>a. CASE GapsThroughStop(pos, b)
  <2>1. f = Fill(pos, b.open - Slip, "STOP_GAP", "LOSS", b) BY <1>a DEF StaticExit
  <2>2. b.open - Slip \in Int /\ b.open <= pos.stop
    BY <1>0, <1>a, SlipFacts DEF GapsThroughStop
  <2>3. f \in Fills BY <2>1, <2>2, FillIsTyped
  <2>4. /\ f.reason = "STOP_GAP" /\ f.result = "LOSS" /\ f.exit = b.open - Slip
        /\ f.entry = pos.entry /\ f.high = b.high /\ f.low = b.low /\ f.stop = pos.stop
    BY <2>1, FillFields
  <2> HIDE DEF f
  <2>5. /\ f.exit < f.entry \/ (Slip = 0 /\ f.stop = f.entry /\ f.exit = f.entry)
        /\ f.low <= f.exit + Slip /\ f.exit + Slip <= f.high
    BY <2>2, <2>4, <1>0, SlipFacts
  <2> QED BY <2>3, <2>4, <2>5, StopIsSound DEF f
<1>b. CASE ~GapsThroughStop(pos, b) /\ WorstCase(m, pos, b)
  <2>1. f = Fill(pos, pos.stop - Slip, "STOP_HIT", "LOSS", b)
    BY <1>b DEF StaticExit, WorstCase
  <2>2. pos.stop - Slip \in Int /\ pos.stop < b.open /\ b.low <= pos.stop
    BY <1>0, <1>b, SlipFacts DEF GapsThroughStop, WorstCase, StopHit
  <2>3. f \in Fills BY <2>1, <2>2, FillIsTyped
  <2>4. /\ f.reason = "STOP_HIT" /\ f.result = "LOSS" /\ f.exit = pos.stop - Slip
        /\ f.entry = pos.entry /\ f.high = b.high /\ f.low = b.low /\ f.stop = pos.stop
    BY <2>1, FillFields
  <2> HIDE DEF f
  <2>5. /\ f.exit < f.entry \/ (Slip = 0 /\ f.stop = f.entry /\ f.exit = f.entry)
        /\ f.low <= f.exit + Slip /\ f.exit + Slip <= f.high
    BY <2>2, <2>4, <1>0, SlipFacts
  <2> QED BY <2>3, <2>4, <2>5, StopIsSound DEF f
<1>c. CASE ~GapsThroughStop(pos, b) /\ ~WorstCase(m, pos, b) /\ TargetHit(pos, b)
  <2>1. f = Fill(pos, pos.target, "TARGET_HIT", "WIN", b)
    BY <1>c DEF StaticExit, WorstCase
  <2>2. b.high >= pos.target BY <1>c DEF TargetHit
  <2>3. f \in Fills BY <2>1, <1>0, FillIsTyped
  <2>4. /\ f.reason = "TARGET_HIT" /\ f.result = "WIN" /\ f.exit = pos.target
        /\ f.entry = pos.entry /\ f.high = b.high /\ f.low = b.low /\ f.stop = pos.stop
    BY <2>1, FillFields
  <2>5. m.pessimistic => ~StopHit(pos, b) BY <1>c DEF WorstCase
  <2>6. ~StopHit(pos, b) => b.low > pos.stop BY <1>0 DEF StopHit
  <2> HIDE DEF f
  <2>7. f.exit > f.entry /\ f.exit <= f.high BY <2>2, <2>4, <1>0
  <2>8. m.pessimistic => f.low > f.stop BY <2>4, <2>5, <2>6
  <2> QED BY <2>3, <2>4, <2>7, <2>8 DEF Sound, Told, WorstOf, OfferedTo, AtFixedStop, f
<1>d. CASE /\ ~GapsThroughStop(pos, b) /\ ~TargetHit(pos, b)
           /\ b.low <= ActiveStop(m, pos, b)
  <2>1. f = IF AtBreakeven(m, pos, b)
            THEN Fill(pos, pos.entry - Slip, "BREAKEVEN_STOP", "BREAKEVEN", b)
            ELSE Fill(pos, pos.stop - Slip, "STOP_HIT", "LOSS", b)
    BY <1>d DEF StaticExit, WorstCase
  <2>2. pos.stop < b.open BY <1>0, <1>d DEF GapsThroughStop
  <2>b. CASE AtBreakeven(m, pos, b)
    <3>1. f = Fill(pos, pos.entry - Slip, "BREAKEVEN_STOP", "BREAKEVEN", b) BY <2>1, <2>b
    <3>2. ReachesOneR(pos, b) \/ pos.stop = pos.entry BY <2>b DEF AtBreakeven
    <3>3. pos.entry - Slip \in Int /\ pos.entry <= b.high /\ b.low <= pos.entry
      BY <1>d, <2>b, <3>2, <2>2, <1>0, SlipFacts DEF ReachesOneR, OneR, ActiveStop
    <3>4. f \in Fills BY <3>1, <3>3, FillIsTyped
    <3>5. /\ f.reason = "BREAKEVEN_STOP" /\ f.result = "BREAKEVEN" /\ f.exit = pos.entry - Slip
          /\ f.entry = pos.entry /\ f.high = b.high /\ f.low = b.low
      BY <3>1, FillFields
    <3> HIDE DEF f
    <3>6. f.exit + Slip = f.entry /\ f.low <= f.exit + Slip /\ f.exit + Slip <= f.high
      BY <3>3, <3>5, <1>0, SlipFacts
    <3> QED BY <3>4, <3>5, <3>6 DEF Sound, Told, WorstOf, OfferedTo, AtFixedStop, f
  <2>s. CASE ~AtBreakeven(m, pos, b)
    <3>1. f = Fill(pos, pos.stop - Slip, "STOP_HIT", "LOSS", b) BY <2>1, <2>s
    <3>2. pos.stop - Slip \in Int /\ b.low <= pos.stop
      BY <1>0, <1>d, <2>s, SlipFacts DEF ActiveStop
    <3>3. f \in Fills BY <3>1, <3>2, FillIsTyped
    <3>4. /\ f.reason = "STOP_HIT" /\ f.result = "LOSS" /\ f.exit = pos.stop - Slip
          /\ f.entry = pos.entry /\ f.high = b.high /\ f.low = b.low /\ f.stop = pos.stop
      BY <3>1, FillFields
    <3> HIDE DEF f
    <3>5. /\ f.exit < f.entry \/ (Slip = 0 /\ f.stop = f.entry /\ f.exit = f.entry)
          /\ f.low <= f.exit + Slip /\ f.exit + Slip <= f.high
      BY <2>2, <3>2, <3>4, <1>0, SlipFacts
    <3> QED BY <3>3, <3>4, <3>5, StopIsSound DEF f
  <2> QED BY <2>b, <2>s
<1>e. CASE /\ ~GapsThroughStop(pos, b)
           /\ ~(TargetHit(pos, b))
           /\ ~(b.low <= ActiveStop(m, pos, b))
  <2>1. f = NoFill BY <1>e DEF StaticExit, WorstCase
  <2> QED BY <2>1
<1> QED BY <1>a, <1>b, <1>c, <1>d, <1>e DEF WorstCase

LEMMA TrailFacts ==
  ASSUME NEW o, NEW pos, Bracketed(o, pos), NEW best \in Int
  PROVE  /\ TrailedStop(pos, best) \in Int /\ TrailedStop(pos, best) >= pos.stop
         /\ ~Trailing(pos, best) => TrailedStop(pos, best) = pos.stop
BY PosFacts DEF TrailedStop, Trailing, Higher

\* So is a runner's, whatever best price it was told.
LEMMA RunnerExitIsSound ==
  ASSUME NEW m \in AllSettings, NEW o, NEW pos, Bracketed(o, pos), NEW b \in Bars,
         NEW best \in Int, Runs(m, o), RunnerExit(pos, best, b) # NoFill
  PROVE  Sound(m, o, RunnerExit(pos, best, b))
<1> DEFINE f == RunnerExit(pos, best, b)
           exit == TrailedStop(pos, best) - Slip
           reason == IF Trailing(pos, best) THEN "RUNNER_TRAIL" ELSE "STOP_HIT"
           result == RunnerResult(pos, best)
<1>1. f = Fill(pos, exit, reason, result, b) BY DEF RunnerExit
<1>2. exit \in Int /\ b.low <= exit + Slip
  <2>1. TrailedStop(pos, best) \in Int /\ b.low \in Int BY TrailFacts, BarFacts
  <2>2. ~(b.low > TrailedStop(pos, best)) BY DEF RunnerExit
  <2> QED BY <2>1, <2>2, SlipFacts
<1>3. reason \in {"RUNNER_TRAIL", "STOP_HIT"} OBVIOUS
<1>4. result \in {"WIN", "LOSS", "BREAKEVEN"} BY DEF RunnerResult, BySign
<1>5. /\ f.reason = reason /\ f.result = result /\ f.exit = exit /\ f.entry = pos.entry
      /\ f.low = b.low
  BY <1>1, FillFields
<1>6. pos.entry \in Int BY PosFacts
<1>7. /\ result = "WIN" => exit > pos.entry
      /\ result = "LOSS" => exit < pos.entry
      /\ result = "BREAKEVEN" => exit = pos.entry
  BY <1>2, <1>6 DEF RunnerResult, BySign
<1> HIDE DEF exit, reason, result
<1>8. f \in Fills BY <1>1, <1>2, <1>3, <1>4, FillIsTyped
<1> HIDE DEF f
<1>9. Told(m, o, f) BY <1>2, <1>5, <1>6, <1>7 DEF Told
<1>10. WorstOf(m, f) /\ OfferedTo(m, o, f)
  BY <1>2, <1>3, <1>5 DEF WorstOf, OfferedTo, AtFixedStop
<1> QED BY <1>8, <1>9, <1>10 DEF Sound, f

LEMMA BestIsInt ==
  ASSUME NEW o, NEW pos, Bracketed(o, pos), NEW maxFav \in Nat
  PROVE  Best(pos, maxFav) \in Int
BY PosFacts DEF Best

LEMMA ExitIsSound ==
  ASSUME NEW m \in AllSettings, NEW o, NEW pos, Bracketed(o, pos), NEW b \in Bars,
         NEW maxFav \in Nat, Exit(m, pos, maxFav, b) # NoFill
  PROVE  Sound(m, o, Exit(m, pos, maxFav, b))
<1>1. pos.qty = o.qty BY DEF Bracketed
<1>2. Runs(m, pos) <=> Runs(m, o) BY <1>1 DEF Runs
<1>3. CASE Runs(m, pos)
  <2>1. Exit(m, pos, maxFav, b) = RunnerExit(pos, Best(pos, maxFav), b) BY <1>3 DEF Exit
  <2> QED BY <2>1, <1>2, <1>3, BestIsInt, RunnerExitIsSound
<1>4. CASE ~Runs(m, pos)
  <2>1. Exit(m, pos, maxFav, b) = StaticExit(m, pos, b) BY <1>4 DEF Exit
  <2> QED BY <2>1, StaticExitIsSound
<1> QED BY <1>3, <1>4

\* A close is sound if its result is measured from the entry, or from the plan's
\* where that is what the day-only close does.
LEMMA CloseIsSound ==
  ASSUME NEW m \in AllSettings, NEW o \in Orders, NEW pos, Bracketed(o, pos), NEW b \in Bars,
         NEW close \in {b.low, b.high}, NEW entry, NEW reason \in {"DAY_ONLY", "FORCE_CLOSE"},
         \/ entry = pos.entry
         \/ /\ entry = o.plan.entry /\ entry <= pos.entry
            /\ reason = "DAY_ONLY" /\ m.entry = "stop_market"
  PROVE  LET f == Fill(pos, close, reason, BySign(entry, close), b)
         IN f \notin {NoFill, EodBarMissing} /\ Sound(m, o, f)
<1> DEFINE result == BySign(entry, close)
           f == Fill(pos, close, reason, result, b)
<1>1. /\ close \in Int /\ b.low <= close /\ close <= b.high /\ pos.entry \in Int /\ entry \in Int
  BY BarFacts, PosFacts, OrderFacts
<1>2. result \in {"WIN", "LOSS", "BREAKEVEN"} BY DEF BySign
<1>3. /\ result = "WIN" => close > entry
      /\ result = "LOSS" => close < entry
      /\ result = "BREAKEVEN" => close = entry
  BY <1>1 DEF BySign
<1> HIDE DEF result
<1>4. f \in Fills BY <1>1, <1>2, FillIsTyped
<1>5. /\ f.reason = reason /\ f.result = result /\ f.exit = close
      /\ f.entry = pos.entry /\ f.high = b.high /\ f.low = b.low
  BY FillFields
<1> HIDE DEF f
<1>6. Told(m, o, f) BY <1>1, <1>3, <1>5 DEF Told, FromPlan
<1>7. WorstOf(m, f) /\ OfferedTo(m, o, f) BY <1>1, <1>5 DEF WorstOf, OfferedTo, AtFixedStop
<1> QED BY <1>4, <1>6, <1>7, NoFillIsNone, MissingIsNone DEF Sound, f, result

\* A position that held stays in its bracket: the stop moves to the entry at most.
LEMMA AfterBarHolds ==
  ASSUME NEW m \in AllSettings, NEW o, NEW pos, Bracketed(o, pos), NEW b \in Bars,
         NEW maxFav \in Nat
  PROVE  LET after == AfterBar(m, pos, maxFav, b)
         IN /\ after \in [pos : Positions \cup {NoPos}, pending : BOOLEAN, maxFav : Nat]
            /\ after.pending = FALSE /\ Bracketed(o, after.pos) /\ after.pos # NoPos
<1> DEFINE after == AfterBar(m, pos, maxFav, b)
<1>1. pos \in Positions /\ pos # NoPos BY NoPosIsNone DEF Bracketed
<1>2. CASE Runs(m, pos)
  <2> DEFINE fav == Higher(Best(pos, maxFav), b.high)
  <2>1. after = [Flat EXCEPT !.pos = pos, !.maxFav = fav] BY <1>2 DEF AfterBar
  <2>2. fav \in Nat BY BestIsInt, BarFacts DEF Higher
  <2> HIDE DEF fav
  <2>3. after = [pos |-> pos, pending |-> FALSE, maxFav |-> fav] BY <2>1 DEF Flat
  <2> QED BY <1>1, <2>2, <2>3
<1>3. CASE ~Runs(m, pos)
  <2> DEFINE held == [pos EXCEPT !.stop = ActiveStop(m, pos, b)]
  <2>1. after = [Flat EXCEPT !.pos = held, !.maxFav = maxFav] BY <1>3 DEF AfterBar
  <2>2. ActiveStop(m, pos, b) \in {pos.entry, pos.stop} BY DEF ActiveStop
  <2>3. /\ held.entry = pos.entry /\ held.target = pos.target /\ held.qty = pos.qty
        /\ held.stop = ActiveStop(m, pos, b) /\ held \in Positions
    BY <1>1, <2>2, PosFacts DEF Positions
  <2>4. held.stop <= held.entry /\ held.entry < held.target BY <2>2, <2>3, PosFacts
  <2> HIDE DEF held
  <2>5. Bracketed(o, held) BY <2>3, <2>4 DEF Bracketed
  <2>6. after = [pos |-> held, pending |-> FALSE, maxFav |-> maxFav] BY <2>1 DEF Flat
  <2> QED BY <2>3, <2>5, <2>6, NoPosIsNone
<1> QED BY <1>2, <1>3

\* Its entry stays.
LEMMA AfterBarEntry ==
  ASSUME NEW m \in AllSettings, NEW o, NEW pos, Bracketed(o, pos), NEW b \in Bars,
         NEW maxFav \in Nat
  PROVE  AfterBar(m, pos, maxFav, b).pos.entry = pos.entry
<1>1. pos \in Positions BY DEF Bracketed
<1>2. [pos EXCEPT !.stop = ActiveStop(m, pos, b)].entry = pos.entry BY <1>1 DEF Positions
<1> QED BY <1>2 DEF AfterBar, Flat

(***************************************************************************)
(* The actions.                                                            *)
(***************************************************************************)
LEMMA InitHolds == Init => BrokerInv
<1> SUFFICES ASSUME Init PROVE BrokerInv
  OBVIOUS
<1>1. Typed
  <2>1. 0 \in Prices BY SlipFacts DEF Prices
  <2> QED BY <2>1, SettingsAssumption DEF Init, Typed
<1>2. Ordered BY DEF Init, Ordered
<1>3. KeptInv BY FlatFacts DEF Init, KeptInv
<1>4. RowInv BY DEF Init, RowInv
<1>5. FillInv BY DEF Init, FillInv
<1>6. TriggerInv /\ EndedInv BY FlatFacts DEF Init, TriggerInv, EndedInv
<1> QED BY <1>1, <1>2, <1>3, <1>4, <1>5, <1>6 DEF BrokerInv

\* Before the order there is nothing, and the settings never change.
LEMMA DecidedKeeps ==
  ASSUME BrokerInv, NEW o \in Orders, NEW high \in Prices, Decided(o, high)
  PROVE  /\ Typed' /\ order' = o /\ order' \in Orders /\ Ordered' /\ FillInv' /\ EndedInv'
         /\ kept = Flat /\ row = NoPos /\ Mode(o)' = Mode(o)
<1>1. order = NoOrder /\ order' = o /\ prior' = high /\ settings' = settings
      /\ keptFill' = keptFill /\ webFill' = webFill
  BY DEF Decided
<1>2. kept = Flat /\ row = NoPos /\ keptFill = NoFill /\ webFill = NoFill
  BY <1>1, NoOrderIsNone DEF BrokerInv, Ordered
<1> QED BY <1>1, <1>2 DEF BrokerInv, Typed, Ordered, FillInv, EndedInv, Mode

LEMMA KeptIs ==
  ASSUME NEW pos \in Positions \cup {NoPos}, NEW pending \in BOOLEAN, NEW maxFav \in Nat,
         kept' = [pos |-> pos, pending |-> pending, maxFav |-> maxFav],
         pending => pos = NoPos /\ Mode(order)'.entry = "stop_market",
         pos # NoPos => Bracketed(order', pos)
  PROVE  KeptInv'
<1>1. kept' \in [pos : Positions \cup {NoPos}, pending : BOOLEAN, maxFav : Nat] OBVIOUS
<1>2. kept'.pos = pos OBVIOUS
<1>3. kept'.pending = pending OBVIOUS
<1>4. kept'.pending => kept'.pos = NoPos /\ Mode(order)'.entry = "stop_market"
  BY <1>2, <1>3, Zenon
<1>5. kept'.pos # NoPos => Bracketed(order', kept'.pos) BY <1>2, Zenon
<1> QED BY <1>1, <1>4, <1>5, Zenon DEF KeptInv, Bracketed

LEMMA OpensStep ==
  ASSUME BrokerInv, NEW o \in Orders, NEW market \in Prices, NEW high \in Prices,
         Opens(o, market, high)
  PROVE  BrokerInv'
<1> DEFINE held == Holding(o, EntryPrice(o, market))
<1>1. /\ Decided(o, high) /\ InBracket(o, EntryPrice(o, market))
      /\ kept' = [Flat EXCEPT !.pos = held] /\ row' = held
  BY DEF Opens, TradeRow
<1>2. /\ Bracketed(o, held) /\ held.stop < held.entry /\ held.entry \in Nat /\ held # NoPos
  BY <1>1, EntryIsNat, HoldingIsBracketed
<1> HIDE DEF held
<1>3. kept' = [pos |-> held, pending |-> FALSE, maxFav |-> 0] BY <1>1 DEF Flat
<1>4. held \in Positions BY <1>2 DEF Bracketed
<1>5. KeptInv' BY <1>1, <1>2, <1>3, <1>4, DecidedKeeps, KeptIs
<1>6. RowInv' BY <1>1, <1>2, DecidedKeeps DEF RowInv
<1>7. Mode(order)'.entry # "stop_market" BY <1>1 DEF Opens, Decided, Mode
<1>8. TriggerInv' BY <1>7 DEF TriggerInv
<1> QED BY <1>1, <1>5, <1>6, <1>8, DecidedKeeps DEF BrokerInv

LEMMA RefusedStep ==
  ASSUME BrokerInv, NEW o \in Orders, NEW market \in Prices, NEW high \in Prices,
         Refused(o, market, high)
  PROVE  BrokerInv'
<1>1. Decided(o, high) /\ kept' = kept /\ row' = row BY DEF Refused
<1>2. kept' = Flat /\ row' = NoPos BY <1>1, DecidedKeeps
<1>3. KeptInv' BY <1>2, FlatFacts DEF KeptInv
<1>4. RowInv' BY <1>2 DEF RowInv
<1>5. TriggerInv' BY <1>2, FlatFacts DEF TriggerInv
<1> QED BY <1>1, <1>3, <1>4, <1>5, DecidedKeeps DEF BrokerInv

LEMMA PendsStep ==
  ASSUME BrokerInv, NEW o \in Orders, NEW high \in Prices, Pends(o, high)
  PROVE  BrokerInv'
<1>1. /\ Decided(o, high) /\ Mode(o).entry = "stop_market"
      /\ kept' = [Flat EXCEPT !.pending = TRUE] /\ row' = row
  BY DEF Pends
<1>2. kept' = [pos |-> NoPos, pending |-> TRUE, maxFav |-> 0] BY <1>1 DEF Flat
<1>3. row' = NoPos BY <1>1, DecidedKeeps
<1>4. Mode(order)' = Mode(o)
  BY <1>1 DEF Decided, Mode
<1>5. KeptInv' BY <1>1, <1>2, <1>4, KeptIs
<1>6. RowInv' BY <1>3 DEF RowInv
<1>7. TriggerInv' BY <1>2 DEF TriggerInv
<1> QED BY <1>1, <1>5, <1>6, <1>7, DecidedKeeps DEF BrokerInv

KeptGoal ==
  /\ KeptInv' /\ TriggerInv'
  /\ keptFill' \notin {NoFill, EodBarMissing} => Sound(Mode(order), order, keptFill')
  /\ keptFill' # NoFill => kept'.pos = NoPos /\ ~kept'.pending

LEMMA FlatIsGood ==
  ASSUME kept' = Flat
  PROVE  KeptInv' /\ TriggerInv' /\ kept'.pos = NoPos /\ ~kept'.pending
BY FlatFacts DEF KeptInv, TriggerInv

LEMMA AbandonStep ==
  ASSUME BrokerInv, order \in Orders, UNCHANGED <<settings, order>>, Abandon
  PROVE  KeptGoal
<1>1. kept' = Flat /\ keptFill' = IF kept.pos = NoPos THEN keptFill ELSE EodBarMissing
  BY DEF Abandon
<1>2. keptFill' \notin {NoFill, EodBarMissing} => Sound(Mode(order), order, keptFill')
  BY <1>1 DEF BrokerInv, FillInv
<1> QED BY <1>1, <1>2, FlatIsGood DEF KeptGoal

LEMMA ResolveKeptStep ==
  ASSUME BrokerInv, order \in Orders, UNCHANGED <<settings, order>>,
         NEW b \in Bars, NEW close \in {b.low, b.high}, NEW eod \in BOOLEAN,
         ResolveKept(b, close, eod)
  PROVE  KeptGoal
<1> DEFINE mode == Mode(order)
           pos  == IF kept.pending THEN Triggered(order, b) ELSE kept.pos
           hit  == Exit(mode, pos, kept.maxFav, b)
           fill == IF eod THEN EndOfDay(pos, AnsweredEntry(pos), hit, close, b) ELSE hit
<1>1. IF pos = NoPos THEN kept' = Flat /\ keptFill' = keptFill
      ELSE keptFill' = fill /\ kept' = IF fill # NoFill THEN Flat ELSE AfterBar(mode, pos, kept.maxFav, b)
  BY DEF ResolveKept
<1>2. mode \in AllSettings BY ModeFacts DEF BrokerInv
<1>3. kept.maxFav \in Nat BY DEF BrokerInv, KeptInv
<1>4. pos # NoPos =>
        Bracketed(order, pos) /\ (mode.entry = "stop_market" => order.plan.entry <= pos.entry)
  BY TriggeredIsBracketed DEF BrokerInv, KeptInv, TriggerInv
<1>5. CASE pos = NoPos
  <2>1. keptFill' \notin {NoFill, EodBarMissing} => Sound(mode, order, keptFill')
    BY <1>1, <1>5 DEF BrokerInv, FillInv
  <2> QED BY <1>1, <1>5, <2>1, FlatIsGood DEF KeptGoal
<1>6. CASE pos # NoPos
  <2>1. AnsweredEntry(pos) = IF mode.entry = "stop_market" THEN order.plan.entry ELSE pos.entry
    BY DEF AnsweredEntry
  <2> HIDE DEF mode, pos
  <2>2. hit # NoFill => Sound(mode, order, hit) BY <1>2, <1>3, <1>4, <1>6, ExitIsSound
  <2> HIDE DEF hit
  <2>3. Sound(mode, order, EndOfDay(pos, AnsweredEntry(pos), hit, close, b))
    BY <1>2, <1>4, <1>6, <2>1, <2>2, CloseIsSound DEF EndOfDay
  <2>4. fill # NoFill => Sound(mode, order, fill) BY <2>2, <2>3
  <2> HIDE DEF fill
  <2>5. CASE fill # NoFill
    <3>1. kept' = Flat /\ keptFill' = fill BY <1>1, <1>6, <2>5
    <3> QED BY <3>1, <2>4, <2>5, FlatIsGood DEF KeptGoal, mode
  <2>6. CASE fill = NoFill
    <3> DEFINE after == AfterBar(mode, pos, kept.maxFav, b)
    <3>1. kept' = after /\ keptFill' = NoFill BY <1>1, <1>6, <2>6
    <3>2. /\ after \in [pos : Positions \cup {NoPos}, pending : BOOLEAN, maxFav : Nat]
          /\ after.pending = FALSE /\ Bracketed(order, after.pos)
      BY <1>2, <1>3, <1>4, <1>6, AfterBarHolds
    <3>e. after.pos.entry = pos.entry BY <1>2, <1>3, <1>4, <1>6, AfterBarEntry
    <3> HIDE DEF after
    <3>3. after = [pos |-> after.pos, pending |-> FALSE, maxFav |-> after.maxFav]
          /\ after.pos \in Positions \cup {NoPos} /\ after.maxFav \in Nat
      BY <3>2
    <3>4. KeptInv' BY <3>1, <3>2, <3>3, KeptIs
    <3>5. Mode(order)' = mode BY DEF Mode, mode
    <3>6. kept'.pos.entry = pos.entry BY <3>1, <3>e
    <3>7. TriggerInv' BY <3>5, <3>6, <1>4, <1>6 DEF TriggerInv
    <3> QED BY <3>1, <3>4, <3>7 DEF KeptGoal
  <2> QED BY <2>5, <2>6
<1> QED BY <1>5, <1>6

LEMMA KeptBarStep ==
  ASSUME BrokerInv, order \in Orders, UNCHANGED <<settings, order>>,
         NEW b \in Bars, NEW close \in {b.low, b.high}, NEW clock \in Clocks,
         KeptBar(b, close, clock)
  PROVE  KeptGoal
<1>1. clock.eod \in BOOLEAN BY DEF Clocks
<1> QED BY <1>1, AbandonStep, ResolveKeptStep DEF KeptBar

LEMMA WebBarStep ==
  ASSUME BrokerInv, order \in Orders, UNCHANGED <<settings, order>>,
         NEW b \in Bars, NEW close \in {b.low, b.high}, NEW clock \in Clocks,
         WebBar(b, close, clock)
  PROVE  /\ RowInv' /\ (webFill' # NoFill => row' = NoPos)
         /\ webFill' # NoFill => Sound(Mode(order), order, webFill')
<1> DEFINE mode == Mode(order)
           hit  == Exit(mode, row, Seed, b)
           flat == IF clock.eod THEN EndOfDay(row, row.entry, hit, close, b) ELSE hit
           fill == IF clock.stale THEN ForceClose(row, flat, close, b) ELSE flat
<1>1. IF row = NoPos THEN row' = row /\ webFill' = webFill
      ELSE webFill' = fill /\ row' = IF fill # NoFill THEN NoPos ELSE row
  BY DEF WebBar
<1>2. mode \in AllSettings BY ModeFacts DEF BrokerInv
<1>3. Seed \in Nat BY PriceIsNat DEF BrokerInv, Typed, Seed
<1>4. row # NoPos => Bracketed(order, row) BY DEF BrokerInv, RowInv
<1> HIDE DEF mode
<1>5. (row' # NoPos => row' = row) /\ (webFill' # NoFill => row' = NoPos)
  BY <1>1 DEF BrokerInv, EndedInv
<1>6. RowInv' BY <1>5 DEF BrokerInv, RowInv
<1>7. CASE row = NoPos
  BY <1>1, <1>5, <1>6, <1>7 DEF BrokerInv, FillInv, mode
<1>8. CASE row # NoPos
  <2>1. hit # NoFill => Sound(mode, order, hit) BY <1>2, <1>3, <1>4, <1>8, ExitIsSound
  <2> HIDE DEF hit
  <2>2. Sound(mode, order, EndOfDay(row, row.entry, hit, close, b))
    BY <1>2, <1>4, <1>8, <2>1, CloseIsSound DEF EndOfDay
  <2>3. flat # NoFill => Sound(mode, order, flat) BY <2>1, <2>2
  <2> HIDE DEF flat
  <2>4. Sound(mode, order, ForceClose(row, flat, close, b))
    BY <1>2, <1>4, <1>8, <2>3, CloseIsSound DEF ForceClose
  <2>5. fill # NoFill => Sound(mode, order, fill) BY <2>3, <2>4
  <2> HIDE DEF fill
  <2> QED BY <1>1, <1>5, <1>6, <1>8, <2>5 DEF mode
<1> QED BY <1>7, <1>8

LEMMA BarIsOrdered ==
  ASSUME BrokerInv, NEW b, NEW close, NEW clock, Bar(b, close, clock)
  PROVE  order \in Orders /\ UNCHANGED <<settings, order>>
BY DEF Bar, BrokerInv, Ordered

LEMMA BarStep ==
  ASSUME BrokerInv, NEW b \in Bars, NEW clock \in Clocks, NEW close \in {b.low, b.high},
         Bar(b, close, clock)
  PROVE  BrokerInv'
<1>1. order \in Orders /\ settings' = settings /\ order' = order BY BarIsOrdered
<1>2. KeptBar(b, close, clock) /\ WebBar(b, close, clock) /\ prior' = Higher(prior, b.high)
  BY DEF Bar
<1>3. Typed'
  <2>1. prior' \in Prices BY <1>2, BarFacts DEF Higher, BrokerInv, Typed
  <2> QED BY <2>1, <1>1 DEF BrokerInv, Typed
<1>4. Ordered' BY <1>1 DEF Ordered
<1>5. Mode(order)' = Mode(order) BY <1>1 DEF Mode
<1>6. KeptGoal BY <1>1, <1>2, KeptBarStep
<1>7. /\ RowInv' /\ (webFill' # NoFill => row' = NoPos)
      /\ webFill' # NoFill => Sound(Mode(order), order, webFill')
  BY <1>1, <1>2, WebBarStep
<1>8. FillInv' BY <1>1, <1>5, <1>6, <1>7 DEF FillInv, KeptGoal
<1>9. EndedInv' BY <1>6, <1>7 DEF EndedInv, KeptGoal
<1> QED BY <1>3, <1>4, <1>6, <1>7, <1>8, <1>9 DEF BrokerInv, KeptGoal

LEMMA NextKeepsInv == BrokerInv /\ [Next]_vars => BrokerInv'
<1> SUFFICES ASSUME BrokerInv, [Next]_vars PROVE BrokerInv'
  OBVIOUS
<1>1. CASE \E o \in Orders, high \in Prices :
             \/ Pends(o, high)
             \/ \E market \in {p \in Prices : p <= high} : Opens(o, market, high) \/ Refused(o, market, high)
  BY <1>1, PendsStep, OpensStep, RefusedStep
<1>2. CASE \E b \in Bars, clock \in Clocks : \E close \in {b.low, b.high} : Bar(b, close, clock)
  BY <1>2, BarStep
<1>3. CASE UNCHANGED vars
  <2>1. /\ settings' = settings /\ order' = order /\ kept' = kept /\ row' = row /\ prior' = prior
        /\ keptFill' = keptFill /\ webFill' = webFill
    BY <1>3 DEF vars
  <2>2. Mode(order)' = Mode(order) BY <2>1 DEF Mode
  <2>3. Typed' /\ Ordered' BY <2>1 DEF BrokerInv, Typed, Ordered
  <2>4. KeptInv' /\ RowInv' /\ FillInv'
    BY <2>1, <2>2 DEF BrokerInv, KeptInv, RowInv, FillInv
  <2>5. TriggerInv' /\ EndedInv' BY <2>1, <2>2 DEF BrokerInv, TriggerInv, EndedInv
  <2> QED BY <2>3, <2>4, <2>5 DEF BrokerInv
<1> QED BY <1>1, <1>2, <1>3 DEF Next

LEMMA ExitsAreSound ==
  ASSUME BrokerInv, NEW fill \in Exits
  PROVE  Sound(Mode(order), order, fill)
BY DEF BrokerInv, FillInv, Exits

LEMMA AlwaysBrokerInv == Spec => []BrokerInv
<1> QED BY InitHolds, NextKeepsInv, PTL DEF Spec

(***************************************************************************)
(* The kept broker and the rebuilt one.                                    *)
(***************************************************************************)
Alike(m, o) == m.entry # "stop_market" /\ ~(o.qty = 1 /\ (m.breakeven \/ m.runner))

AgreeInv ==
  order # NoOrder /\ Alike(Mode(order), order)
    /\ keptFill # EodBarMissing /\ webFill.reason # "FORCE_CLOSE"
  => webFill = keptFill /\ row = kept.pos

\* What set the two apart stays.
LEMMA ExceptionsStay ==
  ASSUME BrokerInv, NEW b, NEW close, NEW clock, Bar(b, close, clock)
  PROVE  /\ keptFill # NoFill => keptFill' = keptFill
         /\ webFill # NoFill => webFill' = webFill
<1>1. KeptBar(b, close, clock) /\ WebBar(b, close, clock) BY DEF Bar
<1>2. ASSUME keptFill # NoFill PROVE keptFill' = keptFill
  <2>1. kept.pos = NoPos /\ ~kept.pending BY <1>2 DEF BrokerInv, EndedInv
  <2> QED BY <1>1, <2>1 DEF KeptBar, Abandon, ResolveKept
<1>3. ASSUME webFill # NoFill PROVE webFill' = webFill
  <2>1. row = NoPos BY <1>3 DEF BrokerInv, EndedInv
  <2> QED BY <1>1, <2>1 DEF WebBar
<1> QED BY <1>2, <1>3

\* Without a runner and a breakeven stop, what the broker remembers is unused.
LEMMA NothingRemembered ==
  ASSUME NEW m, NEW o, NEW pos, Bracketed(o, pos), Alike(m, o), NEW b, NEW maxFav
  PROVE  /\ Exit(m, pos, maxFav, b) = StaticExit(m, pos, b)
         /\ AfterBar(m, pos, maxFav, b).pos = pos
<1>1. pos.qty = o.qty /\ pos \in Positions BY DEF Bracketed
<1>2. ~Runs(m, pos) /\ ~AtBreakeven(m, pos, b) BY <1>1 DEF Alike, Runs, AtBreakeven
<1>3. ActiveStop(m, pos, b) = pos.stop BY <1>2 DEF ActiveStop
<1>4. [pos EXCEPT !.stop = pos.stop] = pos BY <1>1 DEF Positions
<1>5. AfterBar(m, pos, maxFav, b) = [Flat EXCEPT !.pos = pos, !.maxFav = maxFav]
  BY <1>2, <1>3, <1>4 DEF AfterBar
<1>6. AfterBar(m, pos, maxFav, b).pos = pos BY <1>5 DEF Flat
<1>7. Exit(m, pos, maxFav, b) = StaticExit(m, pos, b) BY <1>2 DEF Exit
<1> QED BY <1>6, <1>7

LEMMA BarAgrees ==
  ASSUME BrokerInv, AgreeInv, NEW b \in Bars, NEW clock \in Clocks, NEW close \in {b.low, b.high},
         Bar(b, close, clock)
  PROVE  AgreeInv'
<1>1. order \in Orders /\ settings' = settings /\ order' = order BY BarIsOrdered
<1>2. KeptBar(b, close, clock) /\ WebBar(b, close, clock) BY DEF Bar
<1>3. Mode(order)' = Mode(order) BY <1>1 DEF Mode
<1>4. ASSUME Alike(Mode(order), order), keptFill' # EodBarMissing, webFill'.reason # "FORCE_CLOSE"
      PROVE  webFill' = keptFill' /\ row' = kept'.pos
  <2>1. order # NoOrder BY <1>1, NoOrderIsNone
  <2>2. keptFill # EodBarMissing /\ webFill.reason # "FORCE_CLOSE"
    BY <1>4, ExceptionsStay, MissingIsNone DEF NoFill
  <2>3. webFill = keptFill /\ row = kept.pos BY <2>1, <2>2, <1>4 DEF AgreeInv
  <2>4. ~kept.pending BY <1>4 DEF Alike, BrokerInv, KeptInv
  <2> DEFINE mode == Mode(order)
             hit  == Exit(mode, kept.pos, kept.maxFav, b)
             fill == IF clock.eod THEN EndOfDay(kept.pos, AnsweredEntry(kept.pos), hit, close, b)
                     ELSE hit
             webHit == Exit(mode, row, Seed, b)
             flat == IF clock.eod THEN EndOfDay(row, row.entry, webHit, close, b) ELSE webHit
             webEnd == IF clock.stale THEN ForceClose(row, flat, close, b) ELSE flat
  <2>5. IF row = NoPos THEN row' = row /\ webFill' = webFill
        ELSE webFill' = webEnd /\ row' = IF webEnd # NoFill THEN NoPos ELSE row
    BY <1>2 DEF WebBar
  <2>6. CASE row = NoPos
    <3>1. kept' = Flat /\ keptFill' = keptFill
      BY <1>2, <2>3, <2>4, <2>6 DEF KeptBar, Abandon, ResolveKept
    <3> QED BY <3>1, <2>3, <2>5, <2>6, FlatFacts
  <2>7. CASE row # NoPos
    <3>1. Bracketed(order, row) BY <2>7 DEF BrokerInv, RowInv
    <3>2. ~clock.late BY <1>2, <1>4, <2>3, <2>7 DEF KeptBar, Abandon
    <3>3. /\ keptFill' = fill
          /\ kept' = IF fill # NoFill THEN Flat ELSE AfterBar(mode, kept.pos, kept.maxFav, b)
      BY <1>2, <2>3, <2>4, <2>7, <3>2 DEF KeptBar, ResolveKept
    <3>4. hit = webHit /\ AfterBar(mode, kept.pos, kept.maxFav, b).pos = row
      BY <3>1, <2>3, <1>4, NothingRemembered
    <3>5. AnsweredEntry(kept.pos) = row.entry BY <2>3, <1>4 DEF AnsweredEntry, Alike
    <3> HIDE DEF mode, hit, webHit
    <3>6. fill = flat BY <3>4, <3>5, <2>3
    <3> HIDE DEF fill, flat
    <3>7. webEnd = flat
      <4>1. CASE clock.stale /\ flat = NoFill
        <5>1. webFill' = Fill(row, close, "FORCE_CLOSE", BySign(row.entry, close), b)
          BY <2>5, <2>7, <4>1 DEF ForceClose
        <5> QED BY <5>1, <1>4, FillFields
      <4>2. CASE ~(clock.stale /\ flat = NoFill) BY <4>2 DEF ForceClose
      <4> QED BY <4>1, <4>2
    <3> HIDE DEF webEnd
    <3> QED BY <2>3, <2>5, <2>7, <3>3, <3>4, <3>6, <3>7, FlatFacts
  <2> QED BY <2>6, <2>7
<1> QED BY <1>1, <1>3, <1>4 DEF AgreeInv

LEMMA NextKeepsAgreement == BrokerInv /\ AgreeInv /\ [Next]_vars => AgreeInv'
<1> SUFFICES ASSUME BrokerInv, AgreeInv, [Next]_vars PROVE AgreeInv'
  OBVIOUS
<1>1. ASSUME NEW o \in Orders, NEW high \in Prices, Pends(o, high) PROVE AgreeInv'
  <2>1. Mode(o).entry = "stop_market" /\ Decided(o, high) BY <1>1 DEF Pends
  <2>2. order' = o /\ Mode(order)' = Mode(o) BY <2>1 DEF Decided, Mode
  <2> QED BY <2>1, <2>2 DEF AgreeInv, Alike
<1>2. ASSUME NEW o \in Orders, NEW high \in Prices, NEW market \in Prices,
             Opens(o, market, high) \/ Refused(o, market, high)
      PROVE  AgreeInv'
  <2>1. Decided(o, high) BY <1>2 DEF Opens, Refused
  <2>2. /\ keptFill' = keptFill /\ webFill' = webFill /\ order = NoOrder BY <2>1 DEF Decided
  <2>3. keptFill' = webFill' /\ kept = Flat /\ row = NoPos
    BY <2>2, NoOrderIsNone DEF BrokerInv, Ordered
  <2>4. row' = kept'.pos
    <3>1. CASE Opens(o, market, high) BY <3>1 DEF Opens, TradeRow, Flat
    <3>2. CASE Refused(o, market, high) BY <3>2, <2>3, FlatFacts DEF Refused
    <3> QED BY <1>2, <3>1, <3>2
  <2> QED BY <2>3, <2>4 DEF AgreeInv
<1>3. CASE \E b \in Bars, clock \in Clocks : \E close \in {b.low, b.high} : Bar(b, close, clock)
  BY <1>3, BarAgrees
<1>4. CASE UNCHANGED vars
  <2>1. Mode(order)' = Mode(order) BY <1>4 DEF vars, Mode
  <2> QED BY <1>4, <2>1 DEF vars, AgreeInv
<1> QED BY <1>1, <1>2, <1>3, <1>4 DEF Next

(***************************************************************************)
(* The seeded runner.  What it is told of the best price is never below    *)
(* what the kept broker saw, as far as its trail can tell.                 *)
(***************************************************************************)
Seeded(m, o) == m.entry # "stop_market" /\ settings.runner /\ o.qty = 1

SeedInv ==
  order # NoOrder /\ Seeded(Mode(order), order) /\ row # NoPos /\ keptFill # EodBarMissing
  => row = kept.pos /\ Best(row, kept.maxFav) <= Higher(row.entry, prior)

\* A better best price never lowers the trailing stop.
LEMMA TrailRises ==
  ASSUME NEW o, NEW pos, Bracketed(o, pos), pos.stop < pos.entry, pos.entry \in Nat,
         NEW low \in Int, NEW high \in Nat, low <= Higher(pos.entry, high)
  PROVE  TrailedStop(pos, low) <= TrailedStop(pos, Best(pos, high))
<1>1. pos.entry \in Int /\ pos.stop \in Int BY PosFacts
<1>2. Best(pos, high) \in Int BY BestIsInt
<1>3. CASE ~Trailing(pos, low)
  BY <1>2, <1>3, TrailFacts
<1>4. CASE Trailing(pos, low)
  <2>1. low > pos.entry /\ low - pos.entry >= pos.entry - pos.stop
    BY <1>1, <1>4 DEF Trailing
  <2>2. Best(pos, high) >= low
    <3>1. high >= low BY <2>1, <1>1 DEF Higher
    <3> QED BY <3>1, <2>1, <1>1 DEF Best
  <2>3. Trailing(pos, Best(pos, high)) BY <2>1, <2>2, <1>1, <1>2 DEF Trailing
  <2> DEFINE half == (pos.entry - pos.stop) \div 2
             best == Best(pos, high)
  <2>4. half \in Int BY <1>1
  <2>5. /\ TrailedStop(pos, low) = Higher(low - half, pos.stop)
        /\ TrailedStop(pos, best) = Higher(best - half, pos.stop)
    BY <1>4, <2>3 DEF TrailedStop
  <2> HIDE DEF half, best
  <2>6. best >= low /\ best \in Int BY <2>2, <1>2 DEF best
  <2>7. TrailedStop(pos, low) <= TrailedStop(pos, best)
    BY <2>4, <2>5, <2>6, <1>1 DEF Higher
  <2> QED BY <2>7 DEF best
<1> QED BY <1>3, <1>4

LEMMA BarKeepsSeed ==
  ASSUME BrokerInv, SeedInv, NEW b \in Bars, NEW clock \in Clocks, NEW close \in {b.low, b.high},
         Bar(b, close, clock)
  PROVE  SeedInv'
<1>1. order \in Orders /\ settings' = settings /\ order' = order BY BarIsOrdered
<1>2. /\ KeptBar(b, close, clock) /\ WebBar(b, close, clock) /\ prior' = Higher(prior, b.high)
  BY DEF Bar
<1>3. Mode(order)' = Mode(order) BY <1>1 DEF Mode
<1>4. ASSUME Seeded(Mode(order), order), row' # NoPos, keptFill' # EodBarMissing
      PROVE  row' = kept'.pos /\ Best(row', kept'.maxFav) <= Higher(row'.entry, prior')
  <2> DEFINE mode == Mode(order)
             hit  == Exit(mode, kept.pos, kept.maxFav, b)
             webHit == Exit(mode, row, Seed, b)
             flat == IF clock.eod THEN EndOfDay(row, row.entry, webHit, close, b) ELSE webHit
             webEnd == IF clock.stale THEN ForceClose(row, flat, close, b) ELSE flat
             fav == Higher(Best(row, kept.maxFav), b.high)
  <2>1. IF row = NoPos THEN row' = row /\ webFill' = webFill
        ELSE webFill' = webEnd /\ row' = IF webEnd # NoFill THEN NoPos ELSE row
    BY <1>2 DEF WebBar
  <2>2. row # NoPos /\ row' = row /\ webEnd = NoFill BY <2>1, <1>4
  <2>3. /\ row = kept.pos /\ Best(row, kept.maxFav) <= Higher(row.entry, prior)
    <3>1. keptFill # EodBarMissing BY <1>4, ExceptionsStay, MissingIsNone
    <3> QED BY <3>1, <2>2, <1>1, <1>4, NoOrderIsNone DEF SeedInv
  <2>4. ~kept.pending BY <1>4 DEF Seeded, BrokerInv, KeptInv
  <2>5. ~clock.late BY <1>2, <1>4, <2>2, <2>3 DEF KeptBar, Abandon
  <2>6. Bracketed(order, row) /\ row.stop < row.entry /\ row.entry \in Nat BY <2>2 DEF BrokerInv, RowInv
  <2>7. Runs(mode, row)
    <3>1. row.qty = 1 BY <2>6, <1>4 DEF Bracketed, Seeded
    <3>2. mode.runner BY <1>1, <1>4 DEF Seeded, Mode, BrokerInv, Typed, AllSettings
    <3> QED BY <3>1, <3>2 DEF Runs
  <2>8. ~clock.eod /\ webHit = NoFill
    <3>1. flat = NoFill
      <4>1. webEnd = NoFill BY <2>2
      <4> HIDE DEF flat
      <4> QED BY <4>1 DEF ForceClose
    <3>2. Fill(row, close, "DAY_ONLY", BySign(row.entry, close), b) # NoFill
      BY FillFields DEF NoFill
    <3> HIDE DEF webHit
    <3> QED BY <3>1, <3>2 DEF EndOfDay
  <2>9. kept.maxFav \in Nat /\ prior \in Nat /\ Best(row, kept.maxFav) \in Int
    BY <2>6, BestIsInt, PriceIsNat DEF BrokerInv, KeptInv, Typed
  <2>10. Seed = prior BY <1>4 DEF Seed, Seeded
  <2>11. b.low > TrailedStop(row, Best(row, prior))
    BY <2>7, <2>8, <2>10, <2>6, NoFillIsFresh DEF Exit, RunnerExit
  <2>12. b.low > TrailedStop(row, Best(row, kept.maxFav))
    <3>1. TrailedStop(row, Best(row, kept.maxFav)) <= TrailedStop(row, Best(row, prior))
      BY <2>3, <2>6, <2>9, TrailRises
    <3>2. /\ TrailedStop(row, Best(row, kept.maxFav)) \in Int
          /\ TrailedStop(row, Best(row, prior)) \in Int
      BY <2>6, <2>9, BestIsInt, TrailFacts
    <3> QED BY <3>1, <3>2, <2>11, BarFacts
  <2>13. hit = NoFill BY <2>3, <2>7, <2>12 DEF Exit, RunnerExit
  <2>14. kept' = [Flat EXCEPT !.pos = row, !.maxFav = fav]
    <3>1. kept' = AfterBar(mode, row, kept.maxFav, b)
      BY <1>2, <2>2, <2>3, <2>4, <2>5, <2>8, <2>13 DEF KeptBar, ResolveKept
    <3> QED BY <3>1, <2>7 DEF AfterBar
  <2> HIDE DEF fav
  <2>15. kept'.pos = row /\ kept'.maxFav = fav BY <2>14 DEF Flat
  <2>16. Best(row, fav) <= Higher(row.entry, Higher(prior, b.high))
    BY <2>3, <2>6, <2>9, PosFacts, BarFacts DEF Best, Higher, fav
  <2> QED BY <2>2, <2>15, <2>16, <1>2
<1> QED BY <1>1, <1>3, <1>4 DEF SeedInv, Seeded

LEMMA NextKeepsSeed == BrokerInv /\ SeedInv /\ [Next]_vars => SeedInv'
<1> SUFFICES ASSUME BrokerInv, SeedInv, [Next]_vars PROVE SeedInv'
  OBVIOUS
<1>1. ASSUME NEW o \in Orders, NEW high \in Prices,
             \/ Pends(o, high)
             \/ \E market \in Prices : Refused(o, market, high)
      PROVE  SeedInv'
  <2>1. row' = NoPos BY <1>1, DecidedKeeps DEF Pends, Refused
  <2> QED BY <2>1 DEF SeedInv
<1>2. ASSUME NEW o \in Orders, NEW high \in Prices, NEW market \in Prices, Opens(o, market, high)
      PROVE  SeedInv'
  <2> DEFINE held == Holding(o, EntryPrice(o, market))
  <2>1. /\ Decided(o, high) /\ InBracket(o, EntryPrice(o, market))
        /\ kept' = [Flat EXCEPT !.pos = held] /\ row' = held
    BY <1>2 DEF Opens, TradeRow
  <2>2. Bracketed(o, held) /\ prior' \in Nat
    BY <2>1, EntryIsNat, HoldingIsBracketed, PriceIsNat DEF Decided
  <2> HIDE DEF held
  <2>3. kept'.pos = held /\ kept'.maxFav = 0 BY <2>1 DEF Flat
  <2>4. Best(held, 0) <= Higher(held.entry, prior') BY <2>2, PosFacts DEF Best, Higher
  <2> QED BY <2>1, <2>3, <2>4 DEF SeedInv
<1>3. CASE \E b \in Bars, clock \in Clocks : \E close \in {b.low, b.high} : Bar(b, close, clock)
  BY <1>3, BarKeepsSeed
<1>4. CASE UNCHANGED vars
  <2>1. Mode(order)' = Mode(order) BY <1>4 DEF vars, Mode
  <2> QED BY <1>4, <2>1 DEF vars, SeedInv, Seeded
<1> QED BY <1>1, <1>2, <1>3, <1>4 DEF Next

(***************************************************************************)
(* The theorems.                                                           *)
(***************************************************************************)
\* Whatever the configuration and the market, the state is well formed: a
\* pending entry holds nothing and a fill has one of seven reasons.
THEOREM BrokerTypeCorrect == Spec => []TypeOK
<1>1. BrokerInv => TypeOK
  <2> SUFFICES ASSUME BrokerInv PROVE TypeOK
    OBVIOUS
  <2>1. settings \in Settings /\ prior \in Prices BY DEF BrokerInv, Typed
  <2>2. order \in Orders \cup {NoOrder} BY DEF BrokerInv, Ordered
  <2>3. /\ kept \in [pos : Positions \cup {NoPos}, pending : BOOLEAN, maxFav : Nat]
        /\ kept.pending => kept.pos = NoPos
    BY DEF BrokerInv, KeptInv
  <2>4. row \in Positions \cup {NoPos} BY DEF BrokerInv, RowInv, Bracketed
  <2>5. keptFill \in Fills \cup {NoFill, EodBarMissing} /\ webFill \in Fills \cup {NoFill}
    BY DEF BrokerInv, FillInv, Sound
  <2> QED BY <2>1, <2>2, <2>3, <2>4, <2>5 DEF TypeOK
<1> QED BY <1>1, AlwaysBrokerInv, PTL

\* No position is held outside its own bracket, whatever was paid for it.
THEOREM HoldsInBracket == Spec => []HeldInBracket
<1>1. BrokerInv => HeldInBracket
  BY DEF BrokerInv, KeptInv, RowInv, Bracketed, HeldInBracket
<1> QED BY <1>1, AlwaysBrokerInv, PTL

\* What a trade is booked as agrees with what it made, at any slippage, but for
\* the day-only close of a triggered entry, which is booked as what it made on
\* the planned one, and a stop at the entry, which without slippage is booked
\* as a loss of nothing.
THEOREM ResultsAreTrue == Spec => []ResultTellsTruth
<1>1. BrokerInv => ResultTellsTruth
  <2> SUFFICES ASSUME BrokerInv, NEW fill \in Exits
               PROVE  Told(Mode(order), order, fill)
    BY DEF ResultTellsTruth, Told, FromPlan, ClosedFromPlan
  <2> QED BY ExitsAreSound DEF Sound
<1> QED BY <1>1, AlwaysBrokerInv, PTL

\* With the pessimistic rule a win is a bar that stayed above the stop.
THEOREM WinsAreClean == Spec => []PessimisticWin
<1>1. BrokerInv => PessimisticWin
  <2> SUFFICES ASSUME BrokerInv, NEW fill \in Exits,
                      settings.pessimistic, fill.reason = "TARGET_HIT"
               PROVE  fill.low > fill.stop
    BY DEF PessimisticWin
  <2>1. order \in Orders BY DEF BrokerInv, Ordered, Exits
  <2>2. Mode(order).pessimistic BY <2>1, ModeFacts DEF BrokerInv
  <2>3. Sound(Mode(order), order, fill) BY ExitsAreSound
  <2> QED BY <2>2, <2>3 DEF Sound, WorstOf
<1> QED BY <1>1, AlwaysBrokerInv, PTL

\* Before its slippage a fixed stop is a price of its bar, and so is a close; a
\* target is not above its bar and a runner's stop not below it.
THEOREM ExitsWereOffered == Spec => []ExitWasOffered
<1>1. BrokerInv => ExitWasOffered
  <2> SUFFICES ASSUME BrokerInv, NEW fill \in Exits
               PROVE  OfferedTo(Mode(order), order, fill)
    BY DEF ExitWasOffered, OfferedTo, AtFixedStop
  <2> QED BY ExitsAreSound DEF Sound
<1> QED BY <1>1, AlwaysBrokerInv, PTL

\* Where the trade has no memory, the webhook's broker and the replay's agree,
\* unless the replay left a day-only trade whose closing bar is missing or the
\* safety net ended the webhook's.
THEOREM RebuiltBrokerAgrees == Spec => []RebuiltAgrees
<1>1. Init => AgreeInv BY DEF Init, AgreeInv
<1>2. Spec => []AgreeInv BY <1>1, NextKeepsAgreement, AlwaysBrokerInv, PTL DEF Spec
<1>3. AgreeInv => RebuiltAgrees BY DEF AgreeInv, Alike, RebuiltAgrees
<1> QED BY <1>2, <1>3, PTL

\* A runner rebuilt from the bar history is stopped no later than the kept one,
\* unless the replay left that one.
THEOREM SeededIsNoLooser == Spec => []SeededHoldsNoLonger
<1>1. Init => SeedInv BY DEF Init, SeedInv
<1>2. Spec => []SeedInv BY <1>1, NextKeepsSeed, AlwaysBrokerInv, PTL DEF Spec
<1>3. SeedInv => SeededHoldsNoLonger BY DEF SeedInv, Seeded, SeededHoldsNoLonger
<1> QED BY <1>2, <1>3, PTL
=============================================================================
