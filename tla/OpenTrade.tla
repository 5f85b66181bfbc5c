------------------------------ MODULE OpenTrade ------------------------------
(***************************************************************************)
(* One journaled trade, from its TRADE row to the OUTCOME row that closes  *)
(* it: the alert handler that resolves it, trails its stop and flattens it *)
(* at the end of the day (webhook/runner.py), the scheduled fallback that  *)
(* flattens it too (webhook/app.py), the sweep that books what the bars    *)
(* missed (webhook/reconciler.py), and the broker.                         *)
(*                                                                         *)
(* The handler and the fallback share one lock; the sweep runs beside them *)
(* and takes none.  All three decide on what they read before they write.  *)
(* The trade is a LONG of one contract; a SHORT mirrors it.  Prices count  *)
(* half ticks, so that a price off the tick grid exists.                   *)
(***************************************************************************)
EXTENDS Integers, Sequences

CONSTANTS
  Entry,        \* entry price
  FirstStop,    \* stop of the setup, as the journal records it
  Highs,        \* highs a bar can reach
  MaxMods,      \* bound on accepted stop moves the broker has yet to apply
  MaxCrashes    \* bound on process restarts

ASSUME PriceAssumption ==
  /\ Entry \in Int /\ FirstStop \in Int /\ FirstStop < Entry
  /\ Highs \subseteq Int
ASSUME BoundAssumption == MaxMods \in Nat /\ MaxCrashes \in Nat

VARIABLES
  \* how the trade was entered
  exitMode,        \* exit contract: "static", "exit_mode" or "legacy_flag"
  dayOnly,      \* its strategy is flattened at the end of the day
  entered,      \* the entry filled; FALSE: an ambiguous request that never did
  mixed,        \* the fills of its session have another trade's at a price of this bracket
  \* the broker
  held, exit,   \* the position, and what closed it
  listed,       \* where its closing fill is: "none", "late", "listed", "gone"
  entryListed,  \* the session that filled the entry is still in the fill list
  stop, stopAt, target,   \* the protective children, and the stop's price
  mods,         \* stop moves accepted and not yet applied
  closing,      \* liquidation: "none", "sent", "dropped"
  best,         \* highest high of the bars the trail looks at
  \* the journal, on disk
  ids, mode, jstop,       \* order ids and exit mode recorded, current stop
  booked,       \* OUTCOME rows written for the trade
  prior,        \* the day of the TRADE row is over
  \* the process
  pc, job, h,   \* alert lock: where its holder is, who it is, what it holds
  rpc, r,       \* sweep
  crashes

setup   == <<exitMode, dayOnly, entered, mixed>>
fills   == <<held, exit, listed>>
orders  == <<stop, stopAt, target, mods>>
broker  == <<fills, entryListed, orders, closing, best>>
journal == <<ids, mode, jstop, booked, prior>>
alert   == <<pc, job, h>>
sweep   == <<rpc, r>>
vars    == <<setup, broker, journal, alert, sweep, crashes>>

Child == {"none", "working", "filled", "dead", "canceled"}

\* What the holder of the alert lock carries between its calls: its copy of
\* the stop and of the order ids, whether it still believes in the position.
NoWork  == [stop |-> FirstStop, ids |-> FALSE, kept |-> TRUE, eod |-> FALSE,
            sent |-> FALSE, want |-> 0, would |-> 0, result |-> "none"]
NoSweep == [ids |-> FALSE, prior |-> FALSE, result |-> "none"]

(***************************************************************************)
(* Prices.                                                                 *)
(***************************************************************************)
\* The nearest tick; halfway, the even one, as Python rounds.
RoundToTick(p) == IF p % 2 = 0 THEN p ELSE IF p % 4 = 1 THEN p - 1 ELSE p + 1

\* The code takes the risk from the stop the journal shows.  A bar that trails
\* still reads the first one there: recording a moved stop makes the row a
\* runner's, which no bar reads (BarsReadFirstStop in OpenTradeProofs).
Risk     == Entry - FirstStop
Armed(b) == b - Entry >= Risk
\* Half the risk behind the best price, never looser than the first stop.
TrailedStop(b) ==
  LET trailed == b - (Risk \div 2) IN IF trailed > FirstStop THEN trailed ELSE FirstStop

(***************************************************************************)
(* The journal.                                                            *)
(***************************************************************************)
\* Mutant: the OUTCOME lands in the journal of the day it is written on.
RowOpenToday == booked = <<>> \/ prior
RowOpen == booked = <<>>
\* A runner's row is read back without its target.
Complete == mode # "runner"
\* An OUTCOME row; the write may fail, and then the trade stays open.
WriteOutcome(by, what) ==
  \/ booked' = Append(booked, [by |-> by, result |-> what])
  \/ UNCHANGED booked

Init ==
  /\ exitMode \in {"static", "exit_mode", "legacy_flag"} /\ dayOnly \in BOOLEAN
  /\ entered \in BOOLEAN /\ mixed \in BOOLEAN
  /\ held = entered /\ exit = "none" /\ listed = "none" /\ entryListed = TRUE
  /\ stop = (IF entered THEN "working" ELSE "none") /\ stopAt = RoundToTick(FirstStop)
  /\ target = (IF entered /\ exitMode = "static" THEN "working" ELSE "none")
  /\ mods = <<>> /\ closing = "none" /\ best = Entry
  /\ ids = FALSE /\ mode = "static" /\ jstop = FirstStop
  /\ booked = <<>> /\ prior = FALSE
  /\ pc = (IF entered THEN "ids" ELSE "idle") /\ job = "none" /\ h = NoWork
  /\ rpc = "idle" /\ r = NoSweep /\ crashes = 0

(***************************************************************************)
(* Broker and market steps (external).                                     *)
(***************************************************************************)
\* The position is closed; a sibling order of the bracket is cancelled.
ClosedBy(who) == held /\ held' = FALSE /\ exit' = who /\ listed' = "late"
Dead(child)   == IF child = "working" THEN "dead" ELSE child

StopHit ==
  /\ stop = "working" /\ ClosedBy("stop") /\ stop' = "filled" /\ target' = Dead(target)
  /\ UNCHANGED <<setup, entryListed, stopAt, mods, closing, best, journal, alert, sweep, crashes>>

TargetHit ==
  /\ target = "working" /\ ClosedBy("target") /\ target' = "filled" /\ stop' = Dead(stop)
  /\ UNCHANGED <<setup, entryListed, stopAt, mods, closing, best, journal, alert, sweep, crashes>>

Liquidated ==
  /\ closing = "sent" /\ ClosedBy("close") /\ closing' = "dropped"
  /\ UNCHANGED <<setup, entryListed, orders, best, journal, alert, sweep, crashes>>

\* An accepted liquidation that closes nothing.
LiquidationDropped ==
  /\ closing = "sent" /\ closing' = "dropped"
  /\ UNCHANGED <<setup, fills, entryListed, orders, best, journal, alert, sweep, crashes>>

ManualClose ==
  /\ ClosedBy("manual") /\ stop' = Dead(stop) /\ target' = Dead(target)
  /\ UNCHANGED <<setup, entryListed, stopAt, mods, closing, best, journal, alert, sweep, crashes>>

\* Children expire or are rejected while the position lives.
ChildrenDie ==
  /\ held /\ stop = "working" /\ stop' = "dead" /\ target' = Dead(target)
  /\ UNCHANGED <<setup, fills, entryListed, stopAt, mods, closing, best, journal, alert,
                 sweep, crashes>>

\* Moves are applied in the order they were accepted, or not at all.
ApplyMod ==
  /\ mods # <<>> /\ mods' = Tail(mods)
  /\ \/ stop = "working" /\ stopAt' = Head(mods)
     \/ UNCHANGED stopAt
  /\ UNCHANGED <<setup, fills, entryListed, stop, target, closing, best, journal, alert,
                 sweep, crashes>>

FillListed ==
  /\ listed = "late" /\ listed' = "listed"
  /\ UNCHANGED <<setup, held, exit, entryListed, orders, closing, best, journal, alert,
                 sweep, crashes>>

\* The fill list starts over with the broker's session, once in a run.
SessionRoll ==
  /\ entryListed /\ entryListed' = FALSE
  /\ listed' = IF listed = "none" THEN "none" ELSE "gone"
  /\ UNCHANGED <<setup, held, exit, orders, closing, best, journal, alert, sweep, crashes>>

\* Mutant: the trail follows the last bar's high.
LastHigh ==
  /\ held
  /\ \E b \in Highs : b # best /\ best' = b
  /\ UNCHANGED <<setup, fills, entryListed, orders, closing, journal, alert, sweep, crashes>>

\* A new bar sets a new best.  The trail looks at the last sixty bars: the
\* trade modelled is no longer than that, and no best price leaves the window.
NewHigh ==
  /\ held
  /\ \E b \in Highs : b > best /\ best' = b
  /\ UNCHANGED <<setup, fills, entryListed, orders, closing, journal, alert, sweep, crashes>>

(***************************************************************************)
(* The process.                                                            *)
(***************************************************************************)
DayRoll ==
  /\ ~prior /\ prior' = TRUE
  /\ UNCHANGED <<setup, broker, ids, mode, jstop, booked, alert, sweep, crashes>>

Crash ==
  /\ crashes < MaxCrashes /\ crashes' = crashes + 1
  /\ pc' = "idle" /\ job' = "none" /\ h' = NoWork
  /\ rpc' = "idle" /\ r' = NoSweep
  /\ UNCHANGED <<setup, broker, journal>>

\* The alert lock is given up.
Release == pc' = "idle" /\ job' = "none" /\ h' = NoWork

\* The row after TRADE: order ids, stop and exit mode.  A failed write is
\* logged and swallowed.
LogIds ==
  /\ pc = "ids" /\ Release
  /\ \/ /\ ids' = TRUE
        /\ mode' = IF exitMode = "exit_mode" THEN "runner" ELSE "static"
     \/ UNCHANGED <<ids, mode>>
  /\ UNCHANGED <<setup, broker, jstop, booked, prior, sweep, crashes>>

(***************************************************************************)
(* A bar under the alert lock: resolve, end of the day, trail, book.       *)
(***************************************************************************)
\* A bar resolves the open row it can read whole; any other bar leaves it.
Bar ==
  /\ pc = "idle" /\ RowOpen /\ Complete
  /\ pc' = "resolve" /\ job' = "bar"
  /\ \E eod \in BOOLEAN :
       /\ eod => dayOnly
       /\ h' = [NoWork EXCEPT !.stop = jstop, !.ids = ids, !.eod = eod]
  /\ UNCHANGED <<setup, broker, journal, sweep, crashes>>

\* A fill in the list that passes for the exit, read with the position flat: the
\* trade's own, or, by its price alone, another's of the session.
Unrelated  == mixed /\ entryListed
Attributed == ~held /\ (listed = "listed" \/ Unrelated)

\* The broker client is made for the bar, so its count of unmatched reads
\* starts at none and the bar never reaches the third.
Resolve ==
  /\ pc = "resolve"
  /\ \/ Attributed /\ pc' = "book" /\ h' = [h EXCEPT !.result = "exit"]
     \/ pc' = (IF h.eod THEN "flatten" ELSE "trail") /\ UNCHANGED h
  /\ UNCHANGED <<setup, broker, job, journal, sweep, crashes>>

\* What follows a flatten that books nothing.
Flattened(kept) ==
  \/ job = "bar" /\ pc' = "trail" /\ h' = [h EXCEPT !.kept = kept] /\ UNCHANGED job
  \/ job = "fallback" /\ Release

\* Liquidate first: the position is re-read, and one that cannot be read is
\* taken to be there.
Liquidate ==
  /\ pc = "flatten"
  /\ \/ /\ ~held                                  \* read flat: cancel only
        /\ pc' = "cancel" /\ h' = [h EXCEPT !.kept = FALSE] /\ UNCHANGED <<closing, job>>
     \/ /\ closing' = (IF held THEN "sent" ELSE closing)          \* accepted
        /\ pc' = "cancel" /\ h' = [h EXCEPT !.sent = TRUE] /\ UNCHANGED job
     \/ pc' = "cancel" /\ UNCHANGED <<closing, h, job>>           \* rejected
     \/ /\ closing' \in {closing, IF held THEN "sent" ELSE closing}   \* raised
        /\ Flattened(TRUE)
  /\ UNCHANGED <<setup, fills, entryListed, orders, best, journal, sweep, crashes>>

\* Then cancel what still works, each order on a best effort.
CancelWorking ==
  /\ pc = "cancel"
  /\ \/ stop = "working" /\ stop' = "canceled"
     \/ UNCHANGED stop
  /\ \/ target = "working" /\ target' = "canceled"
     \/ UNCHANGED target
  /\ IF h.sent THEN pc' = "flat" /\ UNCHANGED <<job, h>> ELSE Flattened(h.kept)
  /\ UNCHANGED <<setup, fills, entryListed, stopAt, mods, closing, best, journal, sweep, crashes>>

\* Mutant: a liquidation sent is a position closed.
SentIsFlat ==
  /\ pc = "flat"
  /\ pc' = "book" /\ h' = [h EXCEPT !.result = "flatten"] /\ UNCHANGED job
  /\ UNCHANGED <<setup, broker, journal, sweep, crashes>>

\* Mutant: the price of whatever fill came last is the price of the liquidation.
LastFillIsTheClose ==
  /\ pc = "flat"
  /\ \/ /\ ~held /\ listed = "listed"
        /\ pc' = "book" /\ h' = [h EXCEPT !.result = "flatten"] /\ UNCHANGED job
     \/ ~held /\ Flattened(FALSE)
     \/ Flattened(TRUE)
  /\ UNCHANGED <<setup, broker, journal, sweep, crashes>>

\* Read until flat, then the price of the liquidation's own fill.
ConfirmFlat ==
  /\ pc = "flat"
  /\ \/ /\ ~held /\ exit = "close" /\ listed = "listed"
        /\ pc' = "book" /\ h' = [h EXCEPT !.result = "flatten"] /\ UNCHANGED job
     \/ ~held /\ Flattened(FALSE)
     \/ Flattened(TRUE)
  /\ UNCHANGED <<setup, broker, journal, sweep, crashes>>

\* replace_stop: tighter only, on a known stop order.
AskTrail ==
  /\ pc = "trail" /\ exitMode # "static" /\ h.kept /\ h.ids /\ Armed(best)
  /\ TrailedStop(best) # h.stop /\ RoundToTick(TrailedStop(best)) > h.stop
  /\ \/ /\ Len(mods) < MaxMods
        /\ mods' = Append(mods, RoundToTick(TrailedStop(best)))
        /\ \/ /\ pc' = "confirm"
              /\ h' = [h EXCEPT !.want = RoundToTick(TrailedStop(best)),
                                !.would = TrailedStop(best)]
              /\ UNCHANGED job
           \/ Release                             \* accepted, answer lost
     \/ Release /\ UNCHANGED mods                 \* rejected, or never sent
  /\ UNCHANGED <<setup, fills, entryListed, stop, stopAt, target, closing, best, journal,
                 sweep, crashes>>

\* No trail on this bar.
SkipTrail ==
  /\ pc = "trail" /\ Release
  /\ UNCHANGED <<setup, broker, journal, sweep, crashes>>

\* Mutant: an accepted move is a move made.
AcceptedIsConfirmed ==
  /\ pc = "confirm" /\ pc' = "log" /\ UNCHANGED <<job, h>>
  /\ UNCHANGED <<setup, broker, journal, sweep, crashes>>

\* The stop must be seen working at the price asked for.
ConfirmStop ==
  /\ pc = "confirm"
  /\ \/ stop = "working" /\ stopAt = h.want /\ pc' = "log" /\ UNCHANGED <<job, h>>
     \/ Release
  /\ UNCHANGED <<setup, broker, journal, sweep, crashes>>

LogStop ==
  /\ pc = "log" /\ Release
  /\ \/ jstop' = h.would /\ mode' = "runner"
     \/ UNCHANGED <<jstop, mode>>
  /\ UNCHANGED <<setup, broker, ids, booked, prior, sweep, crashes>>

BookBar ==
  /\ pc = "book" /\ Release /\ WriteOutcome("alert", h.result)
  /\ UNCHANGED <<setup, broker, ids, mode, jstop, prior, sweep, crashes>>

\* The scheduled fallback: today's open row, confirmed by the broker.
Fallback ==
  /\ pc = "idle" /\ RowOpen /\ dayOnly /\ ~prior /\ held
  /\ pc' = "flatten" /\ job' = "fallback" /\ UNCHANGED h
  /\ UNCHANGED <<setup, broker, journal, sweep, crashes>>

(***************************************************************************)
(* The sweep.                                                              *)
(***************************************************************************)
\* It leaves alone a row younger than twenty minutes: whoever wrote it is done.
Sweep ==
  /\ rpc = "idle" /\ RowOpen /\ pc # "ids"
  /\ rpc' = "position" /\ r' = [NoSweep EXCEPT !.ids = ids, !.prior = prior]
  /\ UNCHANGED <<setup, broker, journal, alert, crashes>>

SweepSeesFlat ==
  /\ rpc = "position" /\ ~held
  /\ rpc' = (IF r.prior THEN "exit" ELSE IF r.ids THEN "entry" ELSE "orders")
  /\ UNCHANGED <<setup, broker, journal, alert, r, crashes>>

\* Mutant: a fill list that cannot be read shows no fill.
UnreadIsUnfilled ==
  /\ rpc = "entry" /\ rpc' \in {IF entryListed THEN "exit" ELSE "orders", "orders"}
  /\ UNCHANGED <<setup, broker, journal, alert, r, crashes>>

\* Did the entry fill?  An entry the list no longer shows reads as unfilled.
SweepReadsEntry ==
  /\ rpc = "entry" /\ rpc' = (IF entryListed THEN "exit" ELSE "orders")
  /\ UNCHANGED <<setup, broker, journal, alert, r, crashes>>

\* Mutant: one read, whatever it found is booked.
SweepBooksNothing ==
  /\ rpc = "exit" /\ rpc' = "book"
  /\ \/ Attributed /\ r' = [r EXCEPT !.result = "exit"]
     \/ ~Attributed /\ UNCHANGED r
  /\ UNCHANGED <<setup, broker, journal, alert, crashes>>

\* Mutant: a single read, which no count of failures ever ends.
SweepResolvesOnce ==
  /\ rpc = "exit" /\ Attributed /\ rpc' = "book" /\ r' = [r EXCEPT !.result = "exit"]
  /\ UNCHANGED <<setup, broker, journal, alert, crashes>>

\* Three reads with one client, back to back; the third unmatched one closes
\* the trade at its entry price.
SweepResolves ==
  /\ rpc = "exit" /\ ~held /\ rpc' = "book"
  /\ \/ Attributed /\ r' = [r EXCEPT !.result = "exit"]
     \/ /\ ~Unrelated
        /\ ~Attributed \/ exit \in {"close", "manual"} \/ ~r.ids
        /\ r' = [r EXCEPT !.result = "even"]
  /\ UNCHANGED <<setup, broker, journal, alert, crashes>>

\* A phantom is cleared when the account has no live order.
SweepSeesNoOrder ==
  /\ rpc = "orders" /\ stop # "working" /\ target # "working"
  /\ rpc' = "book" /\ r' = [r EXCEPT !.result = "cancelled"]
  /\ UNCHANGED <<setup, broker, journal, alert, crashes>>

SweepBooks ==
  /\ rpc = "book" /\ rpc' = "idle" /\ r' = NoSweep /\ WriteOutcome("sweep", r.result)
  /\ UNCHANGED <<setup, broker, ids, mode, jstop, prior, alert, crashes>>

\* The position is held, an order is live, or a read failed: do nothing.
SweepGivesUp ==
  /\ rpc \in {"position", "entry", "exit", "orders"}
  /\ rpc' = "idle" /\ r' = NoSweep
  /\ UNCHANGED <<setup, broker, journal, alert, crashes>>

Broker  == \/ StopHit \/ TargetHit \/ Liquidated \/ LiquidationDropped \/ ManualClose
           \/ ChildrenDie \/ ApplyMod \/ FillListed \/ SessionRoll \/ NewHigh
Alert   == \/ LogIds \/ Bar \/ Resolve \/ Liquidate \/ CancelWorking \/ ConfirmFlat
           \/ AskTrail \/ SkipTrail \/ ConfirmStop \/ LogStop \/ BookBar \/ Fallback
Sweeper == \/ Sweep \/ SweepSeesFlat \/ SweepReadsEntry \/ SweepResolves
           \/ SweepSeesNoOrder \/ SweepBooks \/ SweepGivesUp

Next == Broker \/ Alert \/ Sweeper \/ DayRoll \/ Crash

Spec == Init /\ [][Next]_vars

(***************************************************************************)
(* Properties.                                                             *)
(***************************************************************************)
Results == {"exit", "flatten", "even", "cancelled"}
Rows    == [by : {"alert", "sweep"}, result : Results]

Work    == [stop : Int, ids : BOOLEAN, kept : BOOLEAN, eod : BOOLEAN, sent : BOOLEAN,
            want : Int, would : Int, result : Results \union {"none"}]

SetupOK ==
  /\ exitMode \in {"static", "exit_mode", "legacy_flag"}
  /\ dayOnly \in BOOLEAN /\ entered \in BOOLEAN /\ mixed \in BOOLEAN
FillsOK ==
  /\ held \in BOOLEAN /\ exit \in {"none", "stop", "target", "close", "manual"}
  /\ listed \in {"none", "late", "listed", "gone"} /\ entryListed \in BOOLEAN
  /\ closing \in {"none", "sent", "dropped"}
OrdersOK ==
  /\ stop \in Child /\ target \in Child /\ stopAt \in Int /\ mods \in Seq(Int)
  /\ best \in Int
JournalOK ==
  /\ ids \in BOOLEAN /\ mode \in {"static", "runner"} /\ jstop \in Int
  /\ prior \in BOOLEAN
BookedOK == booked \in Seq(Rows)
AlertOK ==
  /\ pc \in {"ids", "idle", "resolve", "flatten", "cancel", "flat", "trail", "confirm",
             "log", "book"}
  /\ job \in {"none", "bar", "fallback"}
  /\ h \in Work
SweepOK ==
  /\ rpc \in {"idle", "position", "entry", "exit", "orders", "book"}
  /\ r \in [ids : BOOLEAN, prior : BOOLEAN, result : Results \union {"none"}]

\* Every variable keeps its type.
TypeOK == /\ SetupOK /\ FillsOK /\ OrdersOK /\ JournalOK /\ BookedOK /\ AlertOK /\ SweepOK
          /\ crashes \in 0..MaxCrashes

\* A trade is booked only when the broker holds nothing of it: no path writes
\* an OUTCOME on a read that is older than the position it closes.
BookedIsFlat == booked # <<>> => ~held

\* Each path books the trade at most once, whatever the other does meanwhile:
\* the alert lock covers the bar and the fallback, the loop the sweep.
EachPathBooksOnce ==
  \A j, k \in DOMAIN booked : booked[j].by = booked[k].by => j = k

\* A trade that was entered is cleared as a phantom only when the sweep was
\* blind: no order ids in the journal, or the entry's session over.
ClearedOnlyBlind ==
  \A k \in DOMAIN booked :
    booked[k].result = "cancelled" => ~entered \/ ~ids \/ ~entryListed

\* The stop a restart would read from the journal is one the broker's working
\* stop has reached: the journal is never ahead of the protection.
JournaledStopRests == stop = "working" => RoundToTick(jstop) <= stopAt

\* No sequence of moves, late, lost or repeated, loosens the resting stop.
StopOnlyTightens == [][stopAt' >= stopAt]_vars

\* The trade as its ledger shows it.
Ledger == INSTANCE TradeLedger WITH
            Paths <- {"alert", "sweep"},
            ended <- IF held THEN "held" ELSE IF exit = "none" THEN "unfilled" ELSE exit,
            rows  <- booked

\* Every step of the handler, the fallback, the sweep and the broker is a step of
\* the ledger: nothing is booked on a read older than what it says, booked twice
\* by one path, or taken back, across failed writes and restarts.
ImplementsLedger == Ledger!Spec

\* A closed trade is booked, by the sweep if by nobody else.
ClosedIsBooked == ~held ~> booked # <<>>

(***************************************************************************)
(* What the code says of itself and does not keep.                         *)
(***************************************************************************)
\* webhook/reconciler.py: only a zero-fill entry is cleared as a phantom.
OnlyPhantomsCleared ==
  \A k \in DOMAIN booked : booked[k].result = "cancelled" => ~entered

\* webhook/reconciler.py: it never books a close on a guess.  A trade its stop
\* or target closed, with its order ids known and its fills of this session,
\* is not booked flat at the entry price.
NoGuess ==
  \A k \in DOMAIN booked :
    booked[k].result = "even" /\ ids /\ entryListed => exit \notin {"stop", "target"}

\* webhook/reconciler.py: never prices from an unrelated fill.  A trade that the
\* broker never entered is not booked with an exit.
PricedFromOwnFill ==
  \A k \in DOMAIN booked : booked[k].result = "exit" => exit # "none"

\* webhook/runner.py: each instrument's own next bar resolves its position.
BarResolvesOpenRow == RowOpen => Complete

\* execution/tradovate_broker.py: liquidate first, so that cancelling the
\* children does not leave a real position naked.
CancelAfterLiquidation == held /\ stop = "canceled" => closing # "none"

(***************************************************************************)
(* Fairness.  The sweep's loop never ends; its position read, its resolver *)
(* and its write may fail again and again, not for ever; the day ends; the *)
(* handler that opened the trade finishes.                                 *)
(***************************************************************************)
Fairness ==
  /\ WF_vars(LogIds) /\ WF_vars(DayRoll)
  /\ WF_vars(Sweep) /\ WF_vars(SweepGivesUp)
  /\ SF_vars(SweepSeesFlat) /\ SF_vars(SweepResolves)
  /\ SF_vars(SweepBooks /\ booked' # booked)

=============================================================================
