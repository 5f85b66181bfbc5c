----------------------------- MODULE TradeLedger -----------------------------
(***************************************************************************)
(* What the booking of a journaled trade promises the day's P&L, whoever   *)
(* books it and on whatever reads: a row is written only of a trade that   *)
(* the broker no longer holds, says of its end what the broker did, and is *)
(* the only row of the path that wrote it; a trade that has ended stays    *)
(* ended, and a row that is written stays written.                         *)
(***************************************************************************)
EXTENDS Sequences

CONSTANT Paths    \* who books: each is serialised with itself, not with others

VARIABLES
  mixed,    \* a fill of another trade can pass for this one's exit
  ended,    \* "held", "unfilled", or what closed it
  rows      \* the OUTCOME rows

vars == <<mixed, ended, rows>>

Closers == {"stop", "target", "close", "manual"}

Init == mixed \in BOOLEAN /\ ended \in {"held", "unfilled"} /\ rows = <<>>

Close ==
  /\ ended = "held" /\ ended' \in Closers
  /\ UNCHANGED <<mixed, rows>>

\* An exit was a fill of this trade, or of one that cannot be told from it; the
\* price of a liquidation is that of the liquidation that closed it.  A row
\* without a price ("even", "cancelled") says no more than that it is over.
Warranted(result) ==
  \/ result \in {"even", "cancelled"}
  \/ result = "exit" /\ (ended \in Closers \/ mixed)
  \/ result = "flatten" /\ ended = "close"

Book(path, result) ==
  /\ ended # "held" /\ Warranted(result)
  /\ \A k \in DOMAIN rows : rows[k].by # path
  /\ rows' = Append(rows, [by |-> path, result |-> result])
  /\ UNCHANGED <<mixed, ended>>

Results == {"exit", "flatten", "even", "cancelled"}

Next == Close \/ \E path \in Paths, result \in Results : Book(path, result)

Spec == Init /\ [][Next]_vars
=============================================================================
