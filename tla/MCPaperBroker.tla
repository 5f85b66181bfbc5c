---------------------------- MODULE MCPaperBroker ----------------------------
(* Model-checking instances of PaperBroker. *)
EXTENDS PaperBroker

\* Five ticks from stop to target, so that 1R is reached before it wherever the
\* entry fills, and a tick beyond the target for a bar that lies above it.
MCPlans == {[stop |-> 2, entry |-> 4, target |-> 12]}

\* config/settings.py with no environment set.
Defaults == {[entry |-> "market", pessimistic |-> TRUE, breakeven |-> FALSE, runner |-> FALSE]}
\* After the decision the configuration counts only as the order's own: with two
\* contracts nothing runs or breaks even, a runner does not break even, and only
\* a runner that runner_mode seeds reads the bar history.  States that agree in
\* this have the same future, and no property tells them apart.
View ==
  LET mode   == Mode(order)
      runs   == Runs(mode, order)
      seeded == runs /\ settings.runner
  IN IF order = NoOrder THEN <<settings>>
     ELSE <<[mode EXCEPT !.runner = runs, !.breakeven = @ /\ ~runs /\ order.qty = 1], seeded,
            order, kept, row, IF seeded THEN prior ELSE 0, keptFill, webFill>>
=============================================================================
