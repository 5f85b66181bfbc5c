----------------------------- MODULE MCOpenTrade -----------------------------
(***************************************************************************)
(* Progress of one trade.  With no high to trail to, the legacy flag adds  *)
(* nothing: such a trade is without a target, as with the exit mode, and   *)
(* its row is read whole, as a static one is.                              *)
(***************************************************************************)
EXTENDS OpenTrade

ProgressInit == Init /\ exitMode # "legacy_flag"

ProgressSpec == ProgressInit /\ [][Next]_vars /\ Fairness
=============================================================================
