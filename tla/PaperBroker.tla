----------------------------- MODULE PaperBroker -----------------------------
(***************************************************************************)
(* The paper broker's fills (execution/paper_broker.py) and its two users. *)
(* The replay keeps one broker from a trade's entry to its exit; the       *)
(* webhook builds one for every bar from the TRADE row (webhook/runner.py) *)
(* and gives back to it only what the row and the bar history hold.  Both  *)
(* take the same order here and see the same bars.  One trade is followed: *)
(* every exit leaves a broker as it was before the entry.                  *)
(*                                                                         *)
(* LONG trades only: SHORT mirrors every comparison.  A price counts half  *)
(* ticks, so that half of an R is a price.                                 *)
(***************************************************************************)
EXTENDS Integers

CONSTANTS
  Top,        \* highest price of a bar, in ticks
  Slip,       \* fill_slippage_ticks; 0 fills at the price
  Tol,        \* entry tolerance of the ioc_limit model
  Plans,      \* the brackets of approved candidates
  Settings    \* the configurations looked at

Prices == {2 * i : i \in 0..Top}

Higher(a, b) == IF a > b THEN a ELSE b
Lower(a, b)  == IF a < b THEN a ELSE b

ASSUME PriceAssumption == Top \in Nat /\ {Slip, Tol} \subseteq Nat
ASSUME PlanAssumption ==
  \A p \in Plans : {p.stop, p.entry, p.target} \subseteq Prices /\ p.stop < p.entry /\ p.entry < p.target

\* entry_fill_model, fill_pessimistic_both_hit, breakeven_at_1r, runner_mode.
AllSettings == [entry : {"market", "ioc_limit", "stop_market"}, pessimistic : BOOLEAN,
                breakeven : BOOLEAN, runner : BOOLEAN]
ASSUME SettingsAssumption == Settings \subseteq AllSettings

\* An approved candidate: its bracket, its contracts, whether a proof lane
\* takes it and whether its strategy must be flat at the end of the day.
Orders == [plan : Plans, qty : {1, 2}, proof : BOOLEAN, dayOnly : BOOLEAN]
Bars   == {b \in [open : Prices, high : Prices, low : Prices] : b.low <= b.open /\ b.open <= b.high}

\* What the clock makes of a bar.  For a trade that must be flat at the end of
\* its day: the five-minute bar of 15:55 ET, of any date; a bar of another
\* date, or from 16:00 ET on.  For any trade: one that finds the webhook's
\* position stale, that is too old or at a price of another scale.
Clocks == [eod : BOOLEAN, late : BOOLEAN, stale : BOOLEAN]

NoOrder  == [plan |-> "none"]
NoPos    == [qty |-> 0]
NoFill   == [reason |-> "none"]
\* A day-only trade that the replay left open: its journal has this, no exit.
EodBarMissing == [reason |-> "EOD_BAR_MISSING"]
Flat     == [pos |-> NoPos, pending |-> FALSE, maxFav |-> 0]

VARIABLES
  settings,  \* the configuration
  order,     \* the order at work
  kept,      \* the replay's broker: its position, pending entry, best price seen
  row,       \* the position as the webhook's TRADE row holds it
  prior,     \* highest high of the bar history, from the decision bar on
  keptFill, webFill  \* how each one's trade ended

vars == <<settings, order, kept, row, prior, keptFill, webFill>>

Init ==
  /\ settings \in Settings /\ order = NoOrder /\ kept = Flat /\ row = NoPos
  /\ prior = 0 /\ keptFill = NoFill /\ webFill = NoFill

(***************************************************************************)
(* Entries.                                                                *)
(***************************************************************************)
\* A proof lane constructs its own broker: market entry, runner exit.
Mode(o) ==
  IF o.proof THEN [settings EXCEPT !.entry = "market", !.breakeven = FALSE, !.runner = TRUE]
             ELSE settings

Marketable(o, market) == Mode(o).entry = "ioc_limit" => market <= o.plan.entry + Tol

EntryPrice(o, market) ==
  CASE Mode(o).entry = "ioc_limit" -> Lower(o.plan.entry + Tol, market + Slip)
    [] o.proof                     -> market + Slip
    [] OTHER                       -> o.plan.entry + Slip

\* Mutant: a fill outside its own bracket is held.
AnyBracket(o, price) == TRUE
InBracket(o, price) == o.plan.stop < price /\ price < o.plan.target

Holding(o, price) ==
  [entry |-> price, stop |-> o.plan.stop, target |-> o.plan.target, qty |-> o.qty]

\* Mutant: the row keeps the entry of the plan.
PlannedRow(o, price) == Holding(o, o.plan.entry)
\* The TRADE row carries the price of the fill.
TradeRow(o, price) == Holding(o, price)

Decided(o, high) ==
  /\ order = NoOrder /\ order' = o /\ prior' = high
  /\ UNCHANGED <<settings, keptFill, webFill>>

Opens(o, market, high) ==
  /\ Decided(o, high) /\ Mode(o).entry # "stop_market"
  /\ Marketable(o, market) /\ InBracket(o, EntryPrice(o, market))
  /\ kept' = [Flat EXCEPT !.pos = Holding(o, EntryPrice(o, market))]
  /\ row' = TradeRow(o, EntryPrice(o, market))

Refused(o, market, high) ==
  /\ Decided(o, high) /\ Mode(o).entry # "stop_market"
  /\ ~(Marketable(o, market) /\ InBracket(o, EntryPrice(o, market)))
  /\ UNCHANGED <<kept, row>>

\* The replay waits one bar for the trigger; the webhook books a CANCELLED.
Pends(o, high) ==
  /\ Decided(o, high) /\ Mode(o).entry = "stop_market"
  /\ kept' = [Flat EXCEPT !.pending = TRUE]
  /\ UNCHANGED row

\* What a pending stop entry becomes on its bar.
Triggered(o, b) ==
  LET price == (IF b.open >= o.plan.entry THEN b.open ELSE o.plan.entry) + Slip
  IN IF b.high >= o.plan.entry /\ InBracket(o, price) THEN Holding(o, price) ELSE NoPos

(***************************************************************************)
(* Exits.                                                                  *)
(***************************************************************************)
BySign(entry, exit) ==
  IF exit > entry THEN "WIN" ELSE IF exit = entry THEN "BREAKEVEN" ELSE "LOSS"

Fill(pos, exit, reason, result, b) ==
  [reason |-> reason, result |-> result, entry |-> pos.entry, exit |-> exit,
   stop |-> pos.stop, low |-> b.low, high |-> b.high]

OneR(pos) == pos.entry + (pos.entry - pos.stop)
\* 1R was reached by this bar, or by an earlier one that moved the stop.
ReachesOneR(pos, b) == pos.entry > pos.stop /\ b.high >= OneR(pos)
AtBreakeven(mode, pos, b) ==
  mode.breakeven /\ pos.qty = 1 /\ (ReachesOneR(pos, b) \/ pos.stop = pos.entry)
ActiveStop(mode, pos, b) == IF AtBreakeven(mode, pos, b) THEN pos.entry ELSE pos.stop

\* Mutant: a bar that opens beyond the stop still fills at the stop.
NeverGaps(pos, b) == FALSE
GapsThroughStop(pos, b) == b.open <= pos.stop
TargetHit(pos, b) == b.high >= pos.target
StopHit(pos, b)   == b.low <= pos.stop

\* Mutant: the target has priority.
TargetFirst(mode, pos, b) == FALSE
\* Both hit in one bar, resolved as the stop.
WorstCase(mode, pos, b) == mode.pessimistic /\ TargetHit(pos, b) /\ StopHit(pos, b)

StaticExit(mode, pos, b) ==
  CASE GapsThroughStop(pos, b) -> Fill(pos, b.open - Slip, "STOP_GAP", "LOSS", b)
    [] ~GapsThroughStop(pos, b) /\ WorstCase(mode, pos, b) ->
         Fill(pos, pos.stop - Slip, "STOP_HIT", "LOSS", b)
    [] ~GapsThroughStop(pos, b) /\ ~WorstCase(mode, pos, b) /\ TargetHit(pos, b) ->
         Fill(pos, pos.target, "TARGET_HIT", "WIN", b)
    [] ~GapsThroughStop(pos, b) /\ ~TargetHit(pos, b) /\ b.low <= ActiveStop(mode, pos, b) ->
         IF AtBreakeven(mode, pos, b)
         THEN Fill(pos, pos.entry - Slip, "BREAKEVEN_STOP", "BREAKEVEN", b)
         ELSE Fill(pos, pos.stop - Slip, "STOP_HIT", "LOSS", b)
    [] OTHER -> NoFill

Runs(mode, pos) == mode.runner /\ pos.qty = 1

Trailing(pos, best) == best - pos.entry >= pos.entry - pos.stop
\* compute_trailed_stop with activation 1R and trail R/2.
TrailedStop(pos, best) ==
  IF Trailing(pos, best) THEN Higher(best - (pos.entry - pos.stop) \div 2, pos.stop) ELSE pos.stop

\* Mutant: an exit on the trailed stop is a WIN.
TrailWins(pos, best) == IF Trailing(pos, best) THEN "WIN" ELSE "LOSS"
RunnerResult(pos, best) == BySign(pos.entry, TrailedStop(pos, best) - Slip)

RunnerExit(pos, best, b) ==
  IF b.low > TrailedStop(pos, best) THEN NoFill
  ELSE Fill(pos, TrailedStop(pos, best) - Slip,
            IF Trailing(pos, best) THEN "RUNNER_TRAIL" ELSE "STOP_HIT", RunnerResult(pos, best), b)

\* The best price a runner has seen; 0 stands for none yet.
Best(pos, maxFav) == IF maxFav = 0 THEN pos.entry ELSE maxFav

Exit(mode, pos, maxFav, b) ==
  IF Runs(mode, pos) THEN RunnerExit(pos, Best(pos, maxFav), b) ELSE StaticExit(mode, pos, b)

\* Mutant: a triggered entry is still pending.
StillPending(mode, pos, maxFav, b) ==
  [pos |-> pos, pending |-> mode.entry = "stop_market", maxFav |-> maxFav]
\* A broker whose position met a bar and held.
AfterBar(mode, pos, maxFav, b) ==
  IF Runs(mode, pos) THEN [Flat EXCEPT !.pos = pos, !.maxFav = Higher(Best(pos, maxFav), b.high)]
  ELSE [Flat EXCEPT !.pos = [pos EXCEPT !.stop = ActiveStop(mode, pos, b)], !.maxFav = maxFav]

(***************************************************************************)
(* One bar.                                                                *)
(***************************************************************************)
\* Mutant: the rebuilt broker is told nothing.
NoSeed == 0
\* What the rebuilt broker is told of the earlier bars: the current one is
\* dropped, the decision bar is not, and runner_mode must be configured.
Seed == IF settings.runner THEN prior ELSE 0

\* What the bar left open is closed at its close, as it must be flat then; the
\* caller says which entry the result is measured from.
EndOfDay(pos, entry, hit, close, b) ==
  IF hit # NoFill THEN hit ELSE Fill(pos, close, "DAY_ONLY", BySign(entry, close), b)

\* The entry execute_bracket answered with: before a trigger that is the plan's.
AnsweredEntry(pos) == IF Mode(order).entry = "stop_market" THEN order.plan.entry ELSE pos.entry

\* The safety net: a stale position ends at the close.
ForceClose(pos, hit, close, b) ==
  IF hit # NoFill THEN hit ELSE Fill(pos, close, "FORCE_CLOSE", BySign(pos.entry, close), b)

\* The replay turns away from a day-only trade once its day is over: what is
\* pending is cancelled, what is held stays open and is never looked at again.
Abandon ==
  /\ kept' = Flat
  /\ keptFill' = IF kept.pos = NoPos THEN keptFill ELSE EodBarMissing

ResolveKept(b, close, eod) ==
  LET mode == Mode(order)
      pos  == IF kept.pending THEN Triggered(order, b) ELSE kept.pos
      hit  == Exit(mode, pos, kept.maxFav, b)
      fill == IF eod THEN EndOfDay(pos, AnsweredEntry(pos), hit, close, b) ELSE hit
  IN IF pos = NoPos THEN kept' = Flat /\ UNCHANGED keptFill
     ELSE /\ keptFill' = fill
          /\ kept' = IF fill # NoFill THEN Flat ELSE AfterBar(mode, pos, kept.maxFav, b)

KeptBar(b, close, clock) ==
  \/ clock.late /\ Abandon
  \/ ~clock.late /\ ResolveKept(b, close, clock.eod)

\* The webhook does not ask whether a bar is late.
WebBar(b, close, clock) ==
  LET hit  == Exit(Mode(order), row, Seed, b)
      flat == IF clock.eod THEN EndOfDay(row, row.entry, hit, close, b) ELSE hit
      fill == IF clock.stale THEN ForceClose(row, flat, close, b) ELSE flat
  IN IF row = NoPos THEN UNCHANGED <<row, webFill>>
     ELSE webFill' = fill /\ row' = IF fill # NoFill THEN NoPos ELSE row

Bar(b, close, clock) ==
  /\ kept # Flat \/ row # NoPos
  /\ clock.eod \/ clock.late => order.dayOnly
  /\ clock.stale => row # NoPos
  /\ KeptBar(b, close, clock) /\ WebBar(b, close, clock)
  /\ prior' = Higher(prior, b.high)
  /\ UNCHANGED <<settings, order>>

Next ==
  \/ \E o \in Orders, high \in Prices :
       \/ Pends(o, high)
       \/ \E market \in {p \in Prices : p <= high} : Opens(o, market, high) \/ Refused(o, market, high)
  \/ \E b \in Bars, clock \in Clocks : \E close \in {b.low, b.high} :
       Bar(b, close, clock)

Spec == Init /\ [][Next]_vars

(***************************************************************************)
(* Properties.                                                             *)
(***************************************************************************)
Fills == [reason : {"STOP_GAP", "STOP_HIT", "TARGET_HIT", "BREAKEVEN_STOP", "RUNNER_TRAIL",
                    "DAY_ONLY", "FORCE_CLOSE"},
          result : {"WIN", "LOSS", "BREAKEVEN"}, entry : Int, exit : Int,
          stop : Int, low : Int, high : Int]
Positions == [entry : Int, stop : Int, target : Int, qty : {1, 2}]

TypeOK ==
  /\ settings \in Settings /\ order \in Orders \cup {NoOrder}
  /\ kept \in [pos : Positions \cup {NoPos}, pending : BOOLEAN, maxFav : Nat]
  /\ kept.pending => kept.pos = NoPos
  /\ row \in Positions \cup {NoPos} /\ prior \in Prices
  /\ keptFill \in Fills \cup {NoFill, EodBarMissing} /\ webFill \in Fills \cup {NoFill}

\* The exits made, by either broker.
Exits == {keptFill, webFill} \ {NoFill, EodBarMissing}

\* A position is never held outside its own bracket, wherever the market was
\* when its entry filled or its stop entry triggered.
HeldInBracket ==
  \A pos \in {kept.pos, row} \ {NoPos} : pos.stop <= pos.entry /\ pos.entry < pos.target

\* The day-only close of an entry that waited for its trigger.
ClosedFromPlan(fill) == fill.reason = "DAY_ONLY" /\ Mode(order).entry = "stop_market"

\* A win made money, a loss lost it, and a breakeven made none and lost no more
\* than its stop's slippage.  Two exits are labelled otherwise: the day-only
\* close of a triggered entry by what it made on the planned one, and a stop
\* moved to the entry as a loss even where, without slippage, it lost nothing.
ResultTellsTruth ==
  \A fill \in Exits :
    /\ fill.result = "WIN" =>
         fill.exit > fill.entry \/ (ClosedFromPlan(fill) /\ fill.exit > order.plan.entry)
    /\ fill.result = "LOSS" =>
         fill.exit < fill.entry \/ (Slip = 0 /\ fill.stop = fill.entry /\ fill.exit = fill.entry)
    /\ fill.result = "BREAKEVEN" =>
         \/ fill.exit = fill.entry
         \/ fill.reason = "BREAKEVEN_STOP" /\ fill.exit + Slip = fill.entry
         \/ ClosedFromPlan(fill) /\ fill.exit = order.plan.entry

\* Violated.  The result of a day-only close is that of its P&L ("result and
\* P&L are independently deterministic").
DayOnlyLabelIsTrue ==
  \A fill \in Exits : fill.reason = "DAY_ONLY" => fill.result = BySign(fill.entry, fill.exit)

\* With the pessimistic rule no bar that touched the stop pays the target.
PessimisticWin ==
  \A fill \in Exits :
    settings.pessimistic /\ fill.reason = "TARGET_HIT" => fill.low > fill.stop

\* A fixed stop, before its slippage, and a close are prices of the bar that made
\* the exit, below its high and above its low.  A target is never above the
\* bar, but a bar that trades wholly above it pays the target; a runner's stop
\* is never below the bar, but one that opens below it pays the stop.
ExitWasOffered ==
  \A fill \in Exits :
    LET level == fill.exit + Slip
        fixed == \/ fill.reason \in {"STOP_GAP", "BREAKEVEN_STOP"}
                 \/ fill.reason = "STOP_HIT" /\ ~Runs(Mode(order), order)
    IN /\ fixed => fill.low <= level /\ level <= fill.high
       /\ fill.reason \in {"DAY_ONLY", "FORCE_CLOSE"} => fill.low <= fill.exit /\ fill.exit <= fill.high
       /\ fill.reason = "TARGET_HIT" => fill.exit <= fill.high
       /\ fill.reason \in {"RUNNER_TRAIL", "STOP_HIT"} => fill.low <= level

\* With fixed exits the broker built for every bar ends each trade on the same
\* bar, at the same prices, as the one that was kept, unless the replay left
\* a day-only trade whose closing bar is missing or the webhook's safety net
\* ended it.
RebuiltAgrees ==
  order # NoOrder /\ Mode(order).entry # "stop_market"
    /\ ~(order.qty = 1 /\ (Mode(order).breakeven \/ Mode(order).runner))
    /\ keptFill # EodBarMissing /\ webFill.reason # "FORCE_CLOSE"
  => webFill = keptFill /\ row = kept.pos

\* With runner_mode configured a runner that is rebuilt from the bar history is
\* never held beyond the bar that ends the kept one, unless the replay left it.
SeededHoldsNoLonger ==
  order # NoOrder /\ Mode(order).entry # "stop_market" /\ settings.runner /\ order.qty = 1
    /\ keptFill # EodBarMissing
  => (row # NoPos => kept.pos # NoPos)

\* Violated.  A proof lane's runner is stopped by its trail ("the runner is
\* inert without this"), as the broker it was opened with would be.
ProofRunnerTrails ==
  order # NoOrder /\ order.proof /\ order.qty = 1 /\ keptFill # EodBarMissing
  => (row # NoPos => kept.pos # NoPos)
=============================================================================
