--------------------------- MODULE SubmissionStore ---------------------------
(***************************************************************************)
(* The durable record of one order submission and the decisions taken over *)
(* it (execution/order_submission_store.py).  Pure operators: a record is  *)
(* its state, a broker look-up is an evidence record, and the writes one   *)
(* look-up asks for are a sequence of states, applied one at a time under  *)
(* the store's lock by whoever runs the look-up.                           *)
(***************************************************************************)
EXTENDS Naturals, Sequences

CONSTANT Qty    \* contracts requested by every submission

ASSUME QtyAssumption == Qty \in Nat \ {0}

\* A record that does not exist (no file under records/).
NoRecord == "NO_RECORD"

Blocking == {"AMBIGUOUS", "RECONCILE_REQUIRED", "SUBMITTED", "PARTIALLY_FILLED"}
Terminal == {"REJECTED", "NO_FILL", "CANCELLED", "CLOSED"}
States   == Blocking \union Terminal \union {"OPEN"}

\* The transitions a record may make; creation writes AMBIGUOUS at once.
Transitions ==
  ({"AMBIGUOUS"} \X {"SUBMITTED", "REJECTED", "NO_FILL", "CANCELLED", "RECONCILE_REQUIRED"})
  \union
  ({"SUBMITTED"} \X {"OPEN", "PARTIALLY_FILLED", "NO_FILL", "CANCELLED", "RECONCILE_REQUIRED"})
  \union
  ({"RECONCILE_REQUIRED"} \X {"SUBMITTED", "OPEN", "PARTIALLY_FILLED", "NO_FILL", "CANCELLED",
                              "RECONCILE_REQUIRED"})
  \union
  ({"PARTIALLY_FILLED"} \X {"OPEN", "RECONCILE_REQUIRED", "CLOSED"})
  \union
  {<<"OPEN", "CLOSED">>}

\* Mutant: the transition table is not enforced.
AnyTransition(s) == IF s = NoRecord THEN {} ELSE States

Allowed(s) == {t \in States : <<s, t>> \in Transitions}

\* mark_reconcile_required: a record that may not go there keeps its state.
Marked(s) == IF "RECONCILE_REQUIRED" \in Allowed(s) THEN "RECONCILE_REQUIRED" ELSE s

\* What _note_submission(new) can leave on disk.  A transition that is illegal
\* or cannot be written falls back to marking; the marking can fail too.
NoteOutcomes(s, new) ==
  {s, Marked(s)} \union (IF new \in Allowed(s) THEN {new} ELSE {})

(***************************************************************************)
(* Evidence: what one read-only look-up established.                       *)
(***************************************************************************)
OrderStatus == {"none", "working", "filled", "canceled", "rejected"}

Evidence ==
  [error: BOOLEAN,        \* a read failed, or the reads contradict each other
   absent: BOOLEAN,       \* no order, fill, execution or position anywhere
   status: OrderStatus,   \* the parent order's status
   filled: 0 .. Qty,      \* its filled quantity
   linked: BOOLEAN,       \* the account's position is exactly this fill
   protected: BOOLEAN,    \* its protective stop is live
   closed: BOOLEAN]       \* flat again, and its own children did the exit

\* The write that asks mark_reconcile_required rather than a named transition.
MARK == "MARK"

\* A fill that fits the order needs SUBMITTED first when the ack was never seen.
Acknowledged(s) == IF s = "AMBIGUOUS" THEN <<"SUBMITTED">> ELSE <<>>

\* Mutant: a record proved unfilled stays marked.
StaysMarked(s, status) == "RECONCILE_REQUIRED"

\* Where a record proved unfilled goes.
ZeroFillTarget(s, status) ==
  LET wanted == IF status = "canceled" THEN "CANCELLED" ELSE "NO_FILL"
  IN  IF wanted \in Allowed(s) THEN wanted
      ELSE IF "NO_FILL" \in Allowed(s) THEN "NO_FILL" ELSE "RECONCILE_REQUIRED"

PartialPlan(s, ev) ==
  Acknowledged(s) \o
    (IF ev.linked /\ ev.protected THEN <<"PARTIALLY_FILLED", "OPEN">>
     ELSE IF s # "PARTIALLY_FILLED" THEN <<"PARTIALLY_FILLED">>
     ELSE <<"RECONCILE_REQUIRED">>)

\* Mutant: a fill is adopted whether or not its protective stop was seen.
HeldOnly(ev) == ev.status = "filled" /\ ev.filled = Qty /\ ev.linked

\* Whether a look-up proves a complete fill that is held and protected.
HeldAndProtected(ev) ==
  /\ ev.status = "filled" /\ ev.filled = Qty
  /\ ev.linked /\ ev.protected

\* Mutant: an order that filled nothing yet is taken for a dead one.
UnfilledSoFar(ev) == ev.filled = 0 /\ ~ev.linked

\* A look-up proves the order dead with nothing filled.
DeadUnfilled(ev) == ev.status \in {"canceled", "rejected"} /\ ev.filled = 0 /\ ~ev.linked

\* reconcile_with_evidence: the writes asked of a record read in state s.
Plan(s, ev) ==
  IF s \in Terminal \/ (s = "OPEN" /\ ~ev.closed) THEN <<>>
  ELSE IF s # "OPEN" /\ ev.error THEN <<MARK>>
  ELSE IF ev.closed THEN
    (IF s = "OPEN" THEN <<>> ELSE Acknowledged(s) \o <<"OPEN">>) \o <<"CLOSED">>
  ELSE IF HeldAndProtected(ev) THEN Acknowledged(s) \o <<"OPEN">>
  ELSE IF ev.filled > 0 /\ ev.filled < Qty THEN PartialPlan(s, ev)
  ELSE IF ev.absent THEN <<ZeroFillTarget(s, "none")>>
  ELSE IF DeadUnfilled(ev) THEN <<ZeroFillTarget(s, ev.status)>>
  ELSE <<MARK>>
=============================================================================
