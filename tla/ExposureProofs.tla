--------------------------- MODULE ExposureProofs ---------------------------
(***************************************************************************)
(* The record store is the source of truth for "an order may already       *)
(* exist": the inductive invariant behind ExposureIsTracked, what the      *)
(* recovery pass may clear and adopt, and why entries never stack.         *)
(***************************************************************************)
EXTENDS OrderSubmissionProofs

\* The handler has reserved cur, and has not reported on it yet.
Sending == {"post", "await", "confirm", "cancelling", "verify"}

Tracked(i) == rec[i] \in Blocking \union {"OPEN"}

\* The order is out of the market and filled nothing.
Gone(i) == order[i] \in {"none", "lost", "canceled", "rejected"} /\ filled[i] = 0

\* Its children closed all it asked for.
Done(i) == closed[i] = Qty

\* Also while it is being sent, before it can be a position: what the next
\* crash leaves behind must be found.
TrackedInv ==
  \A i \in Ids : (MayExpose(i) \/ (cur = i /\ pc \in Sending)) => (Tracked(i) \/ i \in unproven)

\* What the pass knows of the id it is at.  It only ever looks at ids that have
\* a record, so nothing can start sending one of them.
PassInv ==
  /\ \A j \in todo : rec[j] # NoRecord
  /\ rid # None => /\ rec[rid] # NoRecord
                   /\ quiet => ~(cur = rid /\ pc \in Sending)
  /\ rpc \in {"idle", "pick"} => ev = NoEvidence
  /\ rpc = "account" =>
       (quiet /\ (seen.status = "none" \/ (seen.status \in {"canceled", "rejected"} /\ seen.filled = 0))
          => Gone(rid))
  /\ rpc = "decide" => /\ ev.closed => Done(rid)
                       /\ quiet /\ (ev.absent \/ DeadUnfilled(ev)) => Gone(rid)
  /\ rpc = "write" =>
       \A k \in 1 .. Len(plan) :
         plan[k] \in Terminal => \/ plan[k] = "CLOSED" /\ Done(rid)
                                 \/ quiet => Gone(rid)

ExposureInv == Parts /\ TrackedInv /\ PassInv

(***************************************************************************)
(* The books only move one way.                                            *)
(***************************************************************************)
\* An order becomes a possible position only by being sent; one that is out
\* stays out until it is sent; what is closed stays closed.
BooksAge ==
  \A i \in Ids : /\ MayExpose(i)' => MayExpose(i) \/ Sends(i)
                 /\ Gone(i) => Gone(i)' \/ Sends(i)
                 /\ Done(i) => Done(i)'

LEMMA SettledIsOut ==
  ASSUME BooksOK, BooksBalance, NEW i \in Ids, Gone(i) \/ Done(i)
  PROVE  ~MayExpose(i)
<1>1. /\ filled[i] \in 0 .. Qty /\ closed[i] \in 0 .. Qty /\ liquidated[i] \in 0 .. Qty
      /\ closed[i] + liquidated[i] <= filled[i] /\ Qty \in Nat \ {0}
      /\ order[i] = "working" => filled[i] < Qty
      /\ order[i] = "inflight" => filled[i] = 0
  BY QtyAssumption DEF BooksOK, BooksBalance
<1>2. CASE Gone(i)
  BY <1>1, <1>2 DEF Gone, MayExpose, Exposure
<1>3. CASE Done(i)
  BY <1>1, <1>3 DEF Done, MayExpose, Exposure
<1> QED BY <1>2, <1>3

LEMMA BrokerAges ==
  ASSUME BooksOK, BooksBalance, Broker
  PROVE  BooksAge
<1>0. ASSUME NEW k \in Ids
      PROVE  /\ filled[k] \in 0 .. Qty /\ closed[k] \in 0 .. Qty /\ liquidated[k] \in 0 .. Qty
             /\ closed[k] + liquidated[k] <= filled[k] /\ Qty \in Nat \ {0}
             /\ order[k] = "working" => filled[k] < Qty
  BY QtyAssumption DEF BooksOK, BooksBalance
\* A step of one order: the others stay as they are.
<1> DEFINE Same(k) == /\ order'[k] = order[k] /\ filled'[k] = filled[k]
                      /\ closed'[k] = closed[k] /\ liquidated'[k] = liquidated[k]
           Age(k) == /\ MayExpose(k)' => MayExpose(k)
                     /\ Gone(k) => Gone(k)'
                     /\ Done(k) => Done(k)'
<1>1. ASSUME NEW k \in Ids, Same(k) PROVE Age(k)
  BY <1>1 DEF MayExpose, Exposure, Gone, Done
<1>2. ASSUME NEW i \in Ids, Land(i) \/ Lose(i) \/ CancelEntry(i), NEW k \in Ids PROVE Age(k)
  <2>1. order[i] \in {"inflight", "working"} /\ UNCHANGED <<filled, closed, liquidated>>
        /\ (k # i => order'[k] = order[k])
    BY <1>2 DEF Land, Lose, CancelEntry, BooksOK
  <2>2. CASE k = i
    BY <2>1, <2>2 DEF MayExpose, Exposure, Gone, Done
  <2>3. CASE k # i
    BY <1>1, <2>1, <2>3
  <2> QED BY <2>2, <2>3
<1>3. ASSUME NEW i \in Ids, FillEntry(i), NEW k \in Ids PROVE Age(k)
  <2>1. order[i] = "working" /\ UNCHANGED <<closed, liquidated>>
        /\ (k # i => order'[k] = order[k] /\ filled'[k] = filled[k])
    BY <1>3 DEF FillEntry, BooksOK
  <2>2. CASE k = i
    BY <2>1, <2>2 DEF MayExpose, Gone, Done
  <2>3. CASE k # i
    BY <1>1, <2>1, <2>3
  <2> QED BY <2>2, <2>3
<1>4. ASSUME NEW i \in Ids, ChildExit(i), NEW k \in Ids PROVE Age(k)
  <2>1. Exposure(i) > 0 /\ UNCHANGED <<order, filled, liquidated>>
        /\ closed' = [closed EXCEPT ![i] = closed[i] + Exposure(i)]
    BY <1>4 DEF ChildExit
  <2>2. CASE k = i
    <3>1. ~Gone(k) /\ ~Done(k) /\ MayExpose(k)
      BY <1>0, <2>1, <2>2 DEF Gone, Done, MayExpose, Exposure
    <3> QED BY <3>1
  <2>3. CASE k # i
    BY <1>1, <2>1, <2>3 DEF BooksOK
  <2> QED BY <2>2, <2>3
<1>5. ASSUME ManualClose, NEW k \in Ids PROVE Age(k)
  <2>1. /\ UNCHANGED <<filled, closed>>
        /\ order'[k] = (IF order[k] = "working" THEN "canceled" ELSE order[k])
        /\ liquidated'[k] = liquidated[k] + Exposure(k)
    BY <1>5 DEF ManualClose
  <2>2. Exposure(k)' = 0
    BY <1>0, <2>1 DEF Exposure
  <2> QED BY <2>1, <2>2 DEF MayExpose, Gone, Done
<1> QED BY <1>2, <1>3, <1>4, <1>5 DEF Broker, BooksAge

LEMMA HandlerAges ==
  ASSUME BooksOK, BooksBalance, ControlOK, Handler
  PROVE  BooksAge
<1>0. ASSUME NEW k \in Ids
      PROVE  /\ filled[k] \in 0 .. Qty /\ closed[k] \in 0 .. Qty /\ liquidated[k] \in 0 .. Qty
             /\ closed[k] + liquidated[k] <= filled[k]
  BY QtyAssumption DEF BooksOK, BooksBalance
<1>1. CASE UNCHANGED broker
  BY <1>1 DEF broker, BooksAge, MayExpose, Exposure, Gone, Done
<1>2. CASE Post
  <2>1. UNCHANGED <<filled, closed, liquidated>> /\ order' = [order EXCEPT ![cur] = "inflight"]
        /\ Sends(cur)
    BY <1>2 DEF Post, Sends
  <2>2. \A k \in Ids : k # cur => order'[k] = order[k]
    BY <2>1
  <2> QED BY <2>1, <2>2 DEF BooksAge, MayExpose, Exposure, Gone, Done
<1>3. ASSUME UNCHANGED <<filled, closed>>,
             \A k \in Ids : order'[k] = order[k] \/ (order[k] = "working" /\ order'[k] = "canceled"),
             \A k \in Ids : liquidated'[k] = liquidated[k] \/ Exposure(k)' = 0
      PROVE  BooksAge
  <2> SUFFICES ASSUME NEW k \in Ids
               PROVE  /\ MayExpose(k)' => MayExpose(k)
                      /\ Gone(k) => Gone(k)'
                      /\ Done(k) => Done(k)'
    BY DEF BooksAge
  <2>1. Exposure(k)' > 0 => Exposure(k)' = Exposure(k)
    BY <1>3 DEF Exposure
  <2> QED BY <1>3, <2>1 DEF MayExpose, Gone, Done
<1>4. CASE CancelOso
  <2>1. UNCHANGED <<filled, closed, liquidated>>
        /\ (order' = order \/ (order[cur] = "working" /\ order' = [order EXCEPT ![cur] = "canceled"]))
    BY <1>4 DEF CancelOso
  <2>2. \A k \in Ids : order'[k] = order[k] \/ (order[k] = "working" /\ order'[k] = "canceled")
    BY <2>1 DEF BooksOK
  <2> QED BY <1>3, <2>1, <2>2
<1>5. CASE ConfirmFlat
  <2>1. UNCHANGED <<order, filled, closed, liquidated>>
    BY <1>5 DEF ConfirmFlat
  <2> QED BY <1>3, <2>1
<1>6. CASE Flatten
  <2>1. UNCHANGED <<filled, closed>>
        /\ \A k \in Ids : order'[k] = order[k] \/ (order[k] = "working" /\ order'[k] = "canceled")
    BY <1>6 DEF Flatten
  <2>2. \A k \in Ids : liquidated'[k] = liquidated[k] \/ liquidated'[k] = liquidated[k] + Exposure(k)
    BY <1>6 DEF Flatten
  <2>3. \A k \in Ids : liquidated'[k] = liquidated[k] \/ Exposure(k)' = 0
    BY <1>0, <2>1, <2>2 DEF Exposure
  <2> QED BY <1>3, <2>1, <2>3
<1>7. Handler => Post \/ CancelOso \/ ConfirmFlat \/ Flatten \/ UNCHANGED broker
  BY DEF Handler, Alert, Recheck, Guard, PreSendError, BrokerTruth, AckLost, AckReject, AckAccept, ConfirmDead, ConfirmFilled, CancelConfirmed, CancelRaced, Unconfirmed, Verified, Journal, BrokerStays
<1> QED BY <1>1, <1>2, <1>4, <1>5, <1>6, <1>7

(***************************************************************************)
(* What a plan may clear.                                                  *)
(***************************************************************************)
\* The only terminal states a plan holds are CLOSED, after a round trip, and
\* the targets of a record proved unfilled.
LEMMA PlanClears ==
  ASSUME NEW s \in Recorded, NEW e \in Evidence,
         NEW k \in 1 .. Len(Plan(s, e)), Plan(s, e)[k] \in Terminal
  PROVE  \/ Plan(s, e)[k] = "CLOSED" /\ e.closed
         \/ e.absent \/ DeadUnfilled(e)
<1> DEFINE Live == {"SUBMITTED", "PARTIALLY_FILLED", "OPEN", "RECONCILE_REQUIRED", MARK}
           Safe(p) == \A n \in 1 .. Len(p) : p[n] \notin Terminal
<1>1. \A a \in Live : Len(<<a>>) = 1 /\ <<a>>[1] = a /\ a \notin Terminal
  BY DEF Terminal, MARK
<1>2. Len(<<>>) = 0
  OBVIOUS
<1>3. Acknowledged(s) = <<>> \/ Acknowledged(s) = <<"SUBMITTED">>
  BY DEF Acknowledged
<1>4. \A a, b \in Live : Safe(<<a, b>>)
  BY DEF Terminal, MARK
<1>5. \A a \in Live : Safe(<<a>>)
  BY <1>1
<1>6. Safe(<<>>)
  OBVIOUS
<1>7. Safe(Acknowledged(s) \o <<"OPEN">>)
  BY <1>3 DEF Terminal
<1>8. Safe(PartialPlan(s, e))
  BY <1>3 DEF PartialPlan, Terminal
<1>9. CASE s \in Terminal \/ (s = "OPEN" /\ ~e.closed)
  BY <1>6, <1>9 DEF Plan
<1>10. CASE ~(s \in Terminal \/ (s = "OPEN" /\ ~e.closed)) /\ s # "OPEN" /\ e.error
  BY <1>10, <1>5 DEF Plan
<1>11. CASE ~(s \in Terminal \/ (s = "OPEN" /\ ~e.closed)) /\ ~(s # "OPEN" /\ e.error) /\ e.closed
  <2>1. Plan(s, e) = (IF s = "OPEN" THEN <<>> ELSE Acknowledged(s) \o <<"OPEN">>) \o <<"CLOSED">>
    BY <1>11 DEF Plan
  <2>2. Plan(s, e)[k] \in Live \union {"CLOSED"}
    BY <2>1, <1>3
  <2> QED BY <2>2, <1>1, <1>11
<1>12. ASSUME ~(s \in Terminal \/ (s = "OPEN" /\ ~e.closed)), ~(s # "OPEN" /\ e.error), ~e.closed,
              ~e.absent, ~DeadUnfilled(e)
       PROVE  FALSE
  <2>1. \/ Plan(s, e) = Acknowledged(s) \o <<"OPEN">>
        \/ Plan(s, e) = PartialPlan(s, e)
        \/ Plan(s, e) = <<MARK>>
    BY <1>12 DEF Plan
  <2>2. Safe(Plan(s, e))
    BY <2>1, <1>5, <1>7, <1>8
  <2> QED BY <2>2
<1> QED BY <1>9, <1>10, <1>11, <1>12

(***************************************************************************)
(* The handler.                                                            *)
(***************************************************************************)
\* Noting a state that blocks or is OPEN keeps the record tracked.
LEMMA NoteTracks ==
  ASSUME RecOK, NEW i \in Ids, i = cur, NEW new \in Blocking \union {"OPEN"}, Note(new), Tracked(i)
  PROVE  Tracked(i)'
<1>1. PICK t \in NoteOutcomes(rec[cur], new) : rec' = [rec EXCEPT ![cur] = t]
  BY DEF Note
<1>2. t = rec[cur] \/ t \in {new, "RECONCILE_REQUIRED"}
  BY <1>1, NoteIsAllowed DEF RecOK
<1>3. t \in Blocking \union {"OPEN"}
  BY <1>2 DEF Tracked, Blocking
<1> QED BY <1>1, <1>3 DEF Tracked, RecOK

\* The records of the ids the handler is not at stay as they are, and it starts
\* no send of another.
LEMMA HandlerKeepsOthers ==
  ASSUME RecOK, ControlOK, Handler, NEW k \in Ids, k # cur
  PROVE  rec'[k] = rec[k] /\ ~(cur' = k /\ pc' \in Sending) /\ unproven \subseteq unproven'
<1>1. rec' = rec \/ \E t : rec' = [rec EXCEPT ![cur] = t]
  BY DEF Handler, Note, Alert, Recheck, Guard, PreSendError, BrokerTruth, Post, AckLost, AckReject, AckAccept, ConfirmDead, ConfirmFilled, CancelOso, CancelConfirmed, CancelRaced, Unconfirmed, ConfirmFlat, Verified, Flatten, Journal
<1>2. rec'[k] = rec[k]
  BY <1>1 DEF RecOK
<1>3. cur' \in {cur, None} \/ pc' = "orders?"
  BY DEF Handler, Goto, Alert, Recheck, Guard, PreSendError, BrokerTruth, Post, AckLost, AckReject, AckAccept, ConfirmDead, ConfirmFilled, CancelOso, CancelConfirmed, CancelRaced, Unconfirmed, ConfirmFlat, Verified, Flatten, Journal
<1>4. unproven \subseteq unproven'
  BY DEF Handler, Alert, Recheck, Guard, PreSendError, BrokerTruth, Post, AckLost, AckReject, AckAccept, ConfirmDead, ConfirmFilled, CancelOso, CancelConfirmed, CancelRaced, Unconfirmed, ConfirmFlat, Verified, Flatten, Journal
<1> QED BY <1>2, <1>3, <1>4, NoneAssumption DEF Sending

LEMMA HandlerTracks ==
  ASSUME Parts, TrackedInv, Handler
  PROVE  TrackedInv'
<1>0. RecOK /\ ControlOK /\ BooksOK /\ BooksBalance
  BY DEF Parts
<1>1. BooksAge
  BY <1>0, HandlerAges
<1> SUFFICES ASSUME NEW i \in Ids, MayExpose(i)' \/ (cur' = i /\ pc' \in Sending)
             PROVE  Tracked(i)' \/ i \in unproven'
  BY DEF TrackedInv
<1>2. CASE i # cur
  <2>1. ~Sends(i) /\ rec'[i] = rec[i] /\ ~(cur' = i /\ pc' \in Sending) /\ unproven \subseteq unproven'
    BY <1>0, <1>2, HandlerKeepsOthers DEF Sends
  <2>2. MayExpose(i)
    BY <1>1, <2>1 DEF BooksAge
  <2> QED BY <2>1, <2>2 DEF TrackedInv, Tracked
<1>3. CASE i = cur
  <2>0. cur \in Ids /\ pc # "idle" /\ pc \in PcLabels
    BY <1>0, <1>3, NoneAssumption DEF ControlOK
  <2>1. unproven \subseteq unproven'
    BY DEF Handler, Alert, Recheck, Guard, PreSendError, BrokerTruth, Post, AckLost, AckReject, AckAccept, ConfirmDead, ConfirmFilled, CancelOso, CancelConfirmed, CancelRaced, Unconfirmed, ConfirmFlat, Verified, Flatten, Journal
  <2>2. ASSUME Tracked(i) \/ i \in unproven, rec' = rec PROVE Tracked(i)' \/ i \in unproven'
    BY <2>1, <2>2 DEF Tracked
  <2>3. ASSUME Tracked(i) \/ i \in unproven, NEW new \in Blocking \union {"OPEN"}, Note(new)
        PROVE  Tracked(i)' \/ i \in unproven'
    BY <1>0, <1>3, <2>0, <2>1, <2>3, NoteTracks
  <2>4. (pc \in Sending \/ MayExpose(i)) => Tracked(i) \/ i \in unproven
    BY <1>3 DEF TrackedInv
  <2>5. pc \notin Sending => ~Sends(i)
    BY DEF Sends, Sending
  \* Before the send: nothing new can be exposed, and only Guard starts one.
  <2>6. CASE Guard
    <3>1. pc \notin Sending
      BY <2>6 DEF Guard, Sending
    <3>2. CASE rec' = [rec EXCEPT ![cur] = "AMBIGUOUS"]
      BY <1>0, <1>3, <2>0, <3>2 DEF RecOK, Tracked, Blocking
    <3>3. CASE rec' = rec /\ rec' # [rec EXCEPT ![cur] = "AMBIGUOUS"]
      <4>1. pc' \notin Sending
        BY <2>6, <3>3 DEF Guard, Goto, Sending
      <4>2. MayExpose(i)
        BY <4>1, <3>1, <2>5, <1>1 DEF BooksAge
      <4> QED BY <4>2, <2>4, <2>2, <3>3
    <3> QED BY <2>6, <3>2, <3>3 DEF Guard
  <2>7. CASE pc \notin Sending /\ ~Guard
    <3>1. rec' = rec /\ pc' \notin Sending
      BY <2>7 DEF Handler, Goto, Sending, Alert, Recheck, Guard, PreSendError, BrokerTruth, Post, AckLost, AckReject, AckAccept, ConfirmDead, ConfirmFilled, CancelOso, CancelConfirmed, CancelRaced, Unconfirmed, ConfirmFlat, Verified, Flatten, Journal
    <3>2. MayExpose(i)
      BY <3>1, <2>7, <2>5, <1>1 DEF BooksAge
    <3> QED BY <3>1, <3>2, <2>2, <2>4
  \* From the send on the record is tracked, until one of four reports.
  <2>8. CASE pc \in Sending /\ (AckReject \/ ConfirmDead \/ CancelConfirmed \/ ConfirmFlat)
    <3>1. pc' \notin Sending
      BY <2>8 DEF AckReject, ConfirmDead, CancelConfirmed, ConfirmFlat, Goto, Sending
    <3>2. i \in unproven' \/ (order[i] \in {"canceled", "rejected"} /\ filled[i] = 0)
      <4>1. filled[i] \in 0 .. Qty /\ (order[i] = "rejected" => filled[i] = 0)
        BY <1>0 DEF BooksOK, BooksBalance
      <4> QED BY <1>3, <2>8, <4>1, QtyAssumption DEF AckReject, ConfirmDead, CancelConfirmed, ConfirmFlat
    <3>3. UNCHANGED <<order, filled, closed, liquidated>>
      BY <2>8 DEF AckReject, ConfirmDead, CancelConfirmed, ConfirmFlat, BrokerStays, broker
    <3>4. Gone(i) => ~MayExpose(i)'
      BY <1>0, <3>3, SettledIsOut DEF MayExpose, Exposure
    <3> QED BY <3>1, <3>2, <3>4 DEF Gone
  <2>9. CASE pc \in Sending /\ ~(AckReject \/ ConfirmDead \/ CancelConfirmed \/ ConfirmFlat) /\ ~Guard
    <3>1. rec' = rec \/ \E new \in Blocking \union {"OPEN"} : Note(new)
      BY <2>9 DEF Handler, Sending, Alert, Recheck, Guard, PreSendError, BrokerTruth, Post, AckLost, UnansweredState, AckAccept, ConfirmFilled, CancelOso, CancelRaced, Unconfirmed, Verified, Flatten, Journal, Blocking
    <3> QED BY <3>1, <2>9, <2>4, <2>2, <2>3
  <2> QED BY <2>6, <2>7, <2>8, <2>9
<1> QED BY <1>2, <1>3

(***************************************************************************)
(* The recovery pass.                                                      *)
(***************************************************************************)
LEMMA RecordsStay ==
  ASSUME RecOK, RecordStep, NEW k \in Ids, rec[k] # NoRecord
  PROVE  rec'[k] # NoRecord
<1>1. ASSUME NEW i \in Ids, Moves(i) PROVE rec'[k] # NoRecord
  <2>1. PICK t \in Allowed(rec[i]) : rec' = [rec EXCEPT ![i] = t]
    BY <1>1 DEF Moves
  <2>2. t # NoRecord
    BY <2>1, AllowedStates DEF RecOK, NoRecord, States, Blocking, Terminal
  <2> QED BY <2>1, <2>2 DEF RecOK
<1>2. ASSUME NEW i \in Ids, Reserves(i) \/ Sends(i) PROVE rec'[k] # NoRecord
  BY <1>2 DEF Reserves, Sends, RecOK, NoRecord
<1> QED BY <1>1, <1>2 DEF RecordStep

\* Only an id without a record can start to be sent.
StartsNew ==
  \A r \in Ids : rec[r] # NoRecord /\ ~(cur = r /\ pc \in Sending)
                   => ~(cur' = r /\ pc' \in Sending)

LEMMA HandlerStartsNew ==
  ASSUME RecOK, ControlOK, Handler
  PROVE  StartsNew
<1> SUFFICES ASSUME NEW r \in Ids, rec[r] # NoRecord, ~(cur = r /\ pc \in Sending)
             PROVE  ~(cur' = r /\ pc' \in Sending)
  BY DEF StartsNew
<1>1. CASE r # cur
  BY <1>1, HandlerKeepsOthers
<1>2. CASE r = cur /\ Guard
  BY <1>2 DEF Guard, FirstReservation, Goto, Sending
<1>3. CASE r = cur /\ ~Guard
  <2>1. pc \notin Sending
    BY <1>3
  <2>2. pc' \notin Sending
    BY <1>3, <2>1 DEF Handler, Goto, Sending, Alert, Recheck, PreSendError, BrokerTruth, Post, AckLost, AckReject, AckAccept, ConfirmDead, ConfirmFilled, CancelOso, CancelConfirmed, CancelRaced, Unconfirmed, ConfirmFlat, Verified, Flatten, Journal
  <2> QED BY <2>2
<1> QED BY <1>1, <1>2, <1>3

\* What the pass knows survives every step that is not its own.
LEMMA PassKept ==
  ASSUME RecOK, PassOK, PassInv, BooksAge, RecordStep, StartsNew, UNCHANGED <<recovery, quiet>>
  PROVE  PassInv'
<1>0. UNCHANGED <<rpc, todo, rid, seen, ev, plan, quiet>>
  BY DEF recovery
<1>1. \A j \in todo : rec[j] # NoRecord => rec'[j] # NoRecord
  BY RecordsStay DEF PassOK
<1>2. ASSUME rid # None
      PROVE  /\ rec'[rid] # NoRecord
             /\ quiet => ~(cur' = rid /\ pc' \in Sending)
             /\ Done(rid) => Done(rid)'
             /\ quiet /\ Gone(rid) => Gone(rid)'
  <2>1. rid \in Ids /\ rec[rid] # NoRecord /\ (quiet => ~(cur = rid /\ pc \in Sending))
    BY <1>2 DEF PassOK, PassInv
  <2>2. quiet => ~Sends(rid)
    BY <2>1 DEF Sends, Sending
  <2>3. Done(rid)' <=> closed'[rid] = Qty
    BY <1>0 DEF Done
  <2>4. Gone(rid)' <=> order'[rid] \in {"none", "lost", "canceled", "rejected"} /\ filled'[rid] = 0
    BY <1>0 DEF Gone
  <2>5. (Done(rid) => closed'[rid] = Qty)
        /\ (Gone(rid) => (order'[rid] \in {"none", "lost", "canceled", "rejected"} /\ filled'[rid] = 0) \/ Sends(rid))
    BY <2>1 DEF BooksAge, Done, Gone
  <2> QED BY <2>1, <2>2, <2>3, <2>4, <2>5, RecordsStay DEF StartsNew
<1>3. rpc \in {"account", "decide", "write"} => rid # None
  BY DEF PassOK
<1> QED BY <1>0, <1>1, <1>2, <1>3 DEF PassInv, DeadUnfilled

\* A pass that gives its id up, or ends, knows nothing.
LEMMA Forgotten ==
  ASSUME PassInv, UNCHANGED rec, todo' \subseteq todo, rid' = None, ev' = NoEvidence,
         rpc' \in {"idle", "pick"}
  PROVE  PassInv'
BY DEF PassInv

LEMMA RecoveryKnows ==
  ASSUME Parts, PassInv, Recovery
  PROVE  PassInv'
<1>0. RecOK /\ PassOK /\ BooksOK /\ BooksBalance
  BY DEF Parts
<1>1. UNCHANGED <<order, filled, closed, liquidated, pc, cur>>
  <2>1. UNCHANGED <<broker, handler>>
    BY RecoveryControl DEF Parts
  <2> QED BY <2>1 DEF broker, handler
<1>3. ASSUME NEW readable \in BOOLEAN, RecList(readable) PROVE PassInv'
  <2>1. rpc = "idle" /\ rpc' = "pick" /\ rid' = rid /\ ev' = ev /\ rec' = rec
        /\ todo' \subseteq BlockingIds
    BY <1>3 DEF RecList, RecGoto, Unresolved
  <2>2. rid' = None /\ ev' = NoEvidence
    BY <1>0, <2>1 DEF PassOK, PassInv
  <2>3. \A j \in todo' : rec'[j] # NoRecord
    BY <2>1 DEF BlockingIds, Blocking, NoRecord
  <2> QED BY <2>1, <2>2, <2>3 DEF PassInv
<1>4. CASE RecEnd
  <2>1. rpc' = "idle" /\ rid' = rid /\ ev' = ev /\ rec' = rec /\ todo' = todo /\ rpc = "pick"
    BY <1>4 DEF RecEnd, RecGoto
  <2>2. rid' = None /\ ev' = NoEvidence
    BY <1>0, <2>1 DEF PassOK, PassInv
  <2> QED BY <2>1, <2>2, Forgotten
<1>5. CASE RecAbort
  <2>1. rpc' = "idle" /\ rid' = rid /\ ev' = ev /\ rec' = rec /\ todo' = {} /\ rpc = "pick"
    BY <1>5 DEF RecAbort, RecGoto
  <2>2. rid' = None /\ ev' = NoEvidence
    BY <1>0, <2>1 DEF PassOK, PassInv
  <2> QED BY <2>1, <2>2, Forgotten
<1>6. CASE RecWriteFails \/ RecDone
  <2>1. rpc' = "pick" /\ rid' = None /\ ev' = NoEvidence /\ rec' = rec /\ todo' = todo
    BY <1>6 DEF RecWriteFails, RecDone, NextId, Forget, RecGoto
  <2> QED BY <2>1, Forgotten
<1>7. ASSUME NEW i \in Ids, ReadOrders(i)
      PROVE  /\ rec' = rec /\ rid' = i /\ ev' = NoEvidence /\ rec'[i] # NoRecord
             /\ \A j \in todo' : rec'[j] # NoRecord
             /\ quiet' => cur # i /\ order[i] # "inflight"
  BY <1>7 DEF ReadOrders, PassInv
<1>8. ASSUME NEW i \in Ids, RecOrdersUnread(i) PROVE PassInv'
  <2>1. ReadOrders(i) /\ rpc' = "decide"
    BY <1>8 DEF RecOrdersUnread, RecGoto
  <2>2. ~NoEvidence.closed /\ ~NoEvidence.absent /\ ~DeadUnfilled(NoEvidence)
    BY DEF NoEvidence, DeadUnfilled
  <2>3. ~ev'.closed /\ ~(ev'.absent \/ DeadUnfilled(ev'))
    BY <1>7, <2>1, <2>2
  <2> QED BY <1>1, <1>7, <2>1, <2>3 DEF PassInv
<1>9. ASSUME NEW i \in Ids, RecReadOrders(i) PROVE PassInv'
  <2>1. ReadOrders(i) /\ rpc' = "account"
        /\ seen' = IF order[i] \in Landed
                   THEN [status |-> order[i], filled |-> filled[i], bracket |-> bracket[i]]
                   ELSE NoRow
    BY <1>9 DEF RecReadOrders, RecGoto
  <2>2. order[i] \in OrderState /\ filled[i] \in 0 .. Qty
        /\ (order[i] \in {"none", "lost"} => filled[i] = 0)
    BY <1>0 DEF BooksOK, BooksBalance
  <2>3. quiet' /\ (seen'.status = "none" \/ (seen'.status \in {"canceled", "rejected"} /\ seen'.filled = 0))
          => order[i] \in {"none", "lost", "canceled", "rejected"} /\ filled[i] = 0
    BY <1>7, <2>1, <2>2 DEF NoRow, Landed, OrderState, Pending
  <2> QED BY <1>1, <1>7, <2>1, <2>3 DEF PassInv, Gone
<1>10. ASSUME NEW e \in Evidence, ReadAccount(e),
              e.closed => Done(rid),
              quiet /\ (e.absent \/ DeadUnfilled(e)) => Gone(rid)
       PROVE  PassInv'
  <2>1. rpc = "account" /\ rpc' = "decide" /\ ev' = e /\ UNCHANGED <<rec, todo, rid, quiet>>
    BY <1>10 DEF ReadAccount, RecGoto
  <2>2. Done(rid)' = Done(rid) /\ Gone(rid)' = Gone(rid)
    BY <1>1, <2>1 DEF Done, Gone
  <2> QED BY <1>1, <1>10, <2>1, <2>2 DEF PassInv
<1>11. CASE RecReadAccount
  <2>1. rid \in Ids /\ rpc = "account"
    BY <1>0, <1>11 DEF RecReadAccount, ReadAccount, PassOK
  <2>2. Observed(rid) \in Evidence /\ closed[rid] \in 0 .. Qty
    BY <1>0, <2>1, EvidenceTyped DEF PassOK, BooksOK
  <2>3. Observed(rid).closed => Done(rid)
    BY <2>2, QtyAssumption DEF Observed, Done
  <2>4. Observed(rid).absent \/ DeadUnfilled(Observed(rid))
          => seen.status = "none" \/ (seen.status \in {"canceled", "rejected"} /\ seen.filled = 0)
    BY DEF Observed, DeadUnfilled
  <2>5. quiet /\ (Observed(rid).absent \/ DeadUnfilled(Observed(rid))) => Gone(rid)
    BY <2>1, <2>4 DEF PassInv
  <2> QED BY <1>10, <1>11, <2>2, <2>3, <2>5 DEF RecReadAccount
<1>12. CASE RecAccountUnread
  <2>1. ~NoEvidence.closed /\ ~NoEvidence.absent /\ ~DeadUnfilled(NoEvidence)
    BY DEF NoEvidence, DeadUnfilled
  <2> QED BY <1>10, <1>12, <2>1, EmptyRows DEF RecAccountUnread
<1>13. CASE RecDecide
  <2>1. rpc = "decide" /\ rpc' = "write" /\ plan' = Plan(rec[rid], ev)
        /\ UNCHANGED <<rec, todo, rid, quiet>>
    BY <1>13 DEF RecDecide, RecGoto
  <2>2. rid \in Ids /\ rec[rid] \in Recorded /\ ev \in Evidence
    BY <1>0, <2>1 DEF PassOK, RecOK
  <2>3. \A k \in 1 .. Len(plan') : plan'[k] \in Terminal =>
           \/ plan'[k] = "CLOSED" /\ Done(rid)
           \/ quiet => Gone(rid)
    BY <2>1, <2>2, PlanClears DEF PassInv
  <2>4. Done(rid)' = Done(rid) /\ Gone(rid)' = Gone(rid)
    BY <1>1, <2>1 DEF Done, Gone
  <2> QED BY <1>1, <2>1, <2>3, <2>4 DEF PassInv
<1>14. CASE RecWrite
  <2>1. rpc = "write" /\ rpc' = "write" /\ plan # <<>> /\ plan' = Tail(plan)
        /\ UNCHANGED <<todo, rid, quiet>>
    BY <1>14 DEF RecWrite
  <2>2. plan \in Seq(States \union {MARK}) /\ rid \in Ids /\ todo \subseteq Ids
    BY <1>0, <2>1 DEF PassOK
  <2>3. RecordStep
    BY RecoveryControl DEF Parts, OnlyMoves, RecordStep
  <2>4. \A j \in Ids : rec[j] # NoRecord => rec'[j] # NoRecord
    BY <1>0, <2>3, RecordsStay
  <2>5. \A k \in 1 .. Len(plan') : k + 1 \in 1 .. Len(plan) /\ plan'[k] = plan[k + 1]
    BY <2>1, <2>2
  <2>6. Done(rid)' = Done(rid) /\ Gone(rid)' = Gone(rid)
    BY <1>1, <2>1 DEF Done, Gone
  <2>7. \A k \in 1 .. Len(plan') : plan'[k] \in Terminal =>
           \/ plan'[k] = "CLOSED" /\ Done(rid)
           \/ quiet => Gone(rid)
    BY <2>1, <2>5 DEF PassInv
  <2> QED BY <1>1, <2>1, <2>2, <2>4, <2>6, <2>7 DEF PassInv
<1> QED BY <1>3, <1>4, <1>5, <1>6, <1>8, <1>9, <1>11, <1>12, <1>13, <1>14 DEF Recovery

\* What a write of the pass does to the record of rid.
LEMMA WriteIsPlanned ==
  ASSUME RecOK, PassOK, RecWrite
  PROVE  /\ rid \in Ids /\ 1 \in 1 .. Len(plan)
         /\ \/ rec' = rec
            \/ /\ rec' = [rec EXCEPT ![rid] = Wanted] /\ Wanted \in States
               /\ Wanted = plan[1] \/ Wanted = "RECONCILE_REQUIRED"
<1>1. rpc = "write" /\ plan # <<>> /\ WriteLegal /\ rec' = [rec EXCEPT ![rid] = Wanted]
  BY DEF RecWrite
<1>2. rid \in Ids /\ plan \in Seq(States \union {MARK})
  BY <1>1 DEF PassOK
<1>3. 1 \in 1 .. Len(plan) /\ Head(plan) = plan[1]
  BY <1>1, <1>2
<1>4. CASE Head(plan) = MARK
  <2>1. Wanted = rec[rid] \/ Wanted = "RECONCILE_REQUIRED"
    BY <1>4 DEF Wanted, Marked
  <2> QED BY <1>1, <1>2, <1>3, <2>1 DEF RecOK, States, Blocking
<1>5. CASE Head(plan) # MARK
  BY <1>1, <1>2, <1>3, <1>5, AllowedStates DEF Wanted, WriteLegal, RecOK
<1> QED BY <1>4, <1>5

LEMMA RecoveryTracks ==
  ASSUME Parts, TrackedInv, PassInv, Recovery
  PROVE  TrackedInv'
<1>0. RecOK /\ PassOK /\ BooksOK /\ BooksBalance
  BY DEF Parts
<1>1. UNCHANGED <<order, filled, closed, liquidated, pc, cur>>
  <2>1. UNCHANGED <<broker, handler>>
    BY RecoveryControl DEF Parts
  <2> QED BY <2>1 DEF broker, handler
<1>2. \A i \in Ids : MayExpose(i)' <=> MayExpose(i)
  BY <1>1 DEF MayExpose, Exposure
<1>3. CASE RecWrite
  <2>1. unproven' = (IF Wanted \in Terminal /\ ~quiet THEN unproven \union {rid} ELSE unproven)
        /\ rpc = "write"
    BY <1>3 DEF RecWrite
  <2>2. CASE rec' = rec
    BY <1>1, <1>2, <2>1, <2>2 DEF TrackedInv, Tracked
  <2>3. CASE rec' # rec
    <3>1. /\ rid \in Ids /\ 1 \in 1 .. Len(plan) /\ rec' = [rec EXCEPT ![rid] = Wanted]
          /\ Wanted \in States /\ (Wanted = plan[1] \/ Wanted = "RECONCILE_REQUIRED")
      BY <1>0, <1>3, <2>3, WriteIsPlanned
    <3>2. ASSUME NEW i \in Ids, i # rid, MayExpose(i)' \/ (cur' = i /\ pc' \in Sending)
          PROVE  Tracked(i)' \/ i \in unproven'
      <4>1. Tracked(i) \/ i \in unproven
        BY <1>1, <1>2, <3>2 DEF TrackedInv
      <4> QED BY <2>1, <3>1, <3>2, <4>1 DEF Tracked, RecOK
    <3>3. CASE Wanted \notin Terminal
      <4>1. rec'[rid] \in Blocking \union {"OPEN"}
        BY <1>0, <3>1, <3>3 DEF RecOK, States
      <4> QED BY <3>2, <4>1 DEF TrackedInv, Tracked
    <3>4. CASE Wanted \in Terminal /\ ~quiet
      BY <2>1, <3>2, <3>4 DEF TrackedInv
    <3>5. CASE Wanted \in Terminal /\ quiet
      <4>1. Wanted = plan[1]
        BY <3>1, <3>5 DEF Terminal
      <4>2. Done(rid) \/ Gone(rid)
        BY <2>1, <3>1, <3>5, <4>1 DEF PassInv
      <4>3. ~MayExpose(rid)
        BY <1>0, <3>1, <4>2, SettledIsOut
      <4>4. ~(cur = rid /\ pc \in Sending)
        BY <3>1, <3>5, NoneAssumption DEF PassInv
      <4> QED BY <1>1, <1>2, <3>1, <3>2, <4>3, <4>4 DEF TrackedInv
    <3> QED BY <3>3, <3>4, <3>5
  <2> QED BY <2>2, <2>3
<1>4. CASE ~RecWrite
  <2>1. rec' = rec /\ unproven' = unproven
    BY <1>4 DEF Recovery, RecList, RecReadOrders, RecOrdersUnread, ReadOrders, RecReadAccount, RecAccountUnread, ReadAccount, RecDecide, RecWriteFails, RecDone, RecEnd, RecAbort
  <2> QED BY <1>1, <1>2, <2>1 DEF TrackedInv, Tracked
<1> QED BY <1>3, <1>4

(***************************************************************************)
(* The invariant.                                                          *)
(***************************************************************************)
LEMMA ExposureInit == Init => ExposureInv
<1> SUFFICES ASSUME Init PROVE ExposureInv
  OBVIOUS
<1>1. Parts
  BY TypeAndSendInit, TypeParts DEF TypeAndSend, Parts
<1>2. TrackedInv
  BY QtyAssumption DEF Init, TrackedInv, MayExpose, Exposure, Sending
<1>3. PassInv
  BY DEF Init, PassInv
<1> QED BY <1>1, <1>2, <1>3 DEF ExposureInv

LEMMA ExposureStep ==
  ASSUME ExposureInv, [Next]_vars
  PROVE  ExposureInv'
<1>0. Parts /\ TrackedInv /\ PassInv /\ RecOK /\ BooksOK /\ BooksBalance /\ ControlOK /\ PassOK
  BY DEF ExposureInv, Parts
<1>1. Parts' /\ RecordStep
  BY <1>0, PartsStep
<1>2. CASE Broker
  <2>1. UNCHANGED <<rec, unproven, pc, cur, recovery, quiet>>
    BY <1>0, <1>2, BrokerBalances DEF NotBooks, disk, handler, history
  <2>2. BooksAge
    BY <1>0, <1>2, BrokerAges
  <2>3. StartsNew
    BY <2>1 DEF StartsNew
  <2>4. PassInv'
    BY <1>0, <1>1, <2>1, <2>2, <2>3, PassKept
  <2>5. \A i \in Ids : Sends(i) => cur = i /\ pc \in Sending
    BY DEF Sends, Sending
  <2>6. TrackedInv'
    BY <1>0, <2>1, <2>2, <2>5 DEF TrackedInv, BooksAge, Tracked
  <2> QED BY <1>1, <2>4, <2>6 DEF ExposureInv
<1>3. CASE Handler
  <2>1. UNCHANGED <<recovery, quiet>>
    BY <1>0, <1>3, HandlerControl
  <2>2. BooksAge /\ StartsNew
    BY <1>0, <1>3, HandlerAges, HandlerStartsNew
  <2>3. PassInv'
    BY <1>0, <1>1, <2>1, <2>2, PassKept
  <2>4. TrackedInv'
    BY <1>0, <1>3, HandlerTracks
  <2> QED BY <1>1, <2>3, <2>4 DEF ExposureInv
<1>4. CASE Recovery
  BY <1>0, <1>1, <1>4, RecoveryKnows, RecoveryTracks DEF ExposureInv
<1>5. CASE Crash
  <2>1. UNCHANGED <<rec, order, filled, closed, liquidated, unproven>> /\ cur' = None
        /\ pc' = "idle" /\ todo' = {} /\ rid' = None /\ ev' = NoEvidence /\ rpc' = "idle"
    BY <1>5 DEF Crash, disk, broker
  <2>2. PassInv'
    BY <2>1 DEF PassInv
  <2>3. TrackedInv'
    BY <1>0, <2>1 DEF TrackedInv, Tracked, MayExpose, Exposure, Sending
  <2> QED BY <1>1, <2>2, <2>3 DEF ExposureInv
<1>6. CASE ResolveOpen \/ UNCHANGED vars
  <2>1. UNCHANGED <<rec, order, filled, closed, liquidated, unproven, pc, cur,
                    rpc, todo, rid, seen, ev, plan, quiet>>
    BY <1>6 DEF ResolveOpen, vars, disk, broker, handler, recovery, history
  <2>2. TrackedInv'
    BY <1>0, <2>1 DEF TrackedInv, Tracked, MayExpose, Exposure
  <2>3. BooksAge /\ StartsNew
    BY <2>1 DEF BooksAge, StartsNew, MayExpose, Exposure, Gone, Done
  <2>4. PassInv'
    BY <1>0, <1>1, <2>1, <2>3, PassKept DEF recovery
  <2> QED BY <1>1, <2>2, <2>4 DEF ExposureInv
<1> QED BY <1>2, <1>3, <1>4, <1>5, <1>6 DEF Next

\* Whatever order may be, or may become, a position has a record that blocks
\* entries or says OPEN, outside the handler that is sending it: after crashes,
\* lost answers and passes that race the handler, unless the record was closed
\* on evidence that proves nothing.
THEOREM ExposureTracked == Spec => []ExposureIsTracked
<1>1. Init => ExposureInv
  BY ExposureInit
<1>2. ExposureInv /\ [Next]_vars => ExposureInv'
  BY ExposureStep
<1>3. ExposureInv => ExposureIsTracked
  BY DEF ExposureInv, TrackedInv, Tracked, ExposureIsTracked
<1> QED BY <1>1, <1>2, <1>3, PTL DEF Spec

\* The pass writes a record only in its own write step.
LEMMA WhoWrites ==
  ASSUME ExposureInv, [Next]_vars, RecoveryWrites, quiet
  PROVE  RecWrite
<1>0. Parts /\ PassInv /\ RecOK /\ BooksOK /\ BooksBalance /\ ControlOK /\ PassOK
  BY DEF ExposureInv, Parts
<1>1. rpc = "write" /\ rec'[rid] # rec[rid] /\ rid \in Ids /\ rec[rid] # NoRecord
      /\ ~(cur = rid /\ pc \in Sending)
  BY <1>0, NoneAssumption DEF RecoveryWrites, PassOK, PassInv
<1>2. rec' # rec
  BY <1>1
<1>3. ~Broker
  BY <1>0, <1>2, BrokerBalances DEF NotBooks, disk
<1>4. ~Handler
  <2> SUFFICES ASSUME Handler PROVE FALSE
    OBVIOUS
  <2>1. rid = cur
    BY <1>0, <1>1, HandlerKeepsOthers
  <2>2. pc \notin Sending
    BY <1>1, <2>1
  <2>3. Guard \/ rec' = rec
    BY <2>2 DEF Handler, Sending, Alert, Recheck, PreSendError, BrokerTruth, Post, AckLost, AckReject, AckAccept, ConfirmDead, ConfirmFilled, CancelOso, CancelConfirmed, CancelRaced, Unconfirmed, ConfirmFlat, Verified, Flatten, Journal
  <2>4. ~Guard
    BY <1>1, <1>2, <2>1 DEF Guard, FirstReservation
  <2> QED BY <1>2, <2>3, <2>4
<1>5. ~Crash /\ ~ResolveOpen /\ ~UNCHANGED vars
  BY <1>2 DEF Crash, ResolveOpen, vars, disk
<1>6. Recovery
  BY <1>3, <1>4, <1>5 DEF Next
<1> QED BY <1>2, <1>6 DEF Recovery, RecList, RecReadOrders, RecOrdersUnread, ReadOrders, RecReadAccount, RecAccountUnread, ReadAccount, RecDecide, RecWriteFails, RecDone, RecEnd, RecAbort

\* A record read while nobody was sending it is cleared as never filled only
\* when its order is out of the market and filled nothing, however long ago the
\* reads were and whatever happened at the broker since.
THEOREM ClearsOnlyUnfilled == Spec => RecoveryClearSound
<1>1. Init => ExposureInv
  BY ExposureInit
<1>2. ExposureInv /\ [Next]_vars => ExposureInv'
  BY ExposureStep
<1>3. ExposureInv /\ [Next]_vars =>
        [(RecoveryWrites /\ quiet /\ rec'[rid] \in {"NO_FILL", "CANCELLED"}) =>
           (filled[rid] = 0 /\ ~MayExpose(rid))]_vars
  <2> SUFFICES ASSUME ExposureInv, [Next]_vars, RecoveryWrites, quiet,
                      rec'[rid] \in {"NO_FILL", "CANCELLED"}
               PROVE  filled[rid] = 0 /\ ~MayExpose(rid)
    OBVIOUS
  <2>1. RecWrite /\ rec'[rid] # rec[rid] /\ rpc = "write"
    BY WhoWrites DEF RecoveryWrites
  <2>2. Parts /\ PassInv /\ RecOK /\ PassOK /\ BooksOK /\ BooksBalance
    BY DEF ExposureInv, Parts
  <2>3. rid \in Ids /\ 1 \in 1 .. Len(plan) /\ rec' = [rec EXCEPT ![rid] = Wanted]
        /\ (Wanted = plan[1] \/ Wanted = "RECONCILE_REQUIRED")
    BY <2>1, <2>2, WriteIsPlanned
  <2>4. plan[1] \in {"NO_FILL", "CANCELLED"}
    BY <2>2, <2>3 DEF RecOK
  <2>5. Gone(rid)
    BY <2>1, <2>2, <2>3, <2>4 DEF PassInv, Terminal
  <2> QED BY <2>2, <2>3, <2>5, SettledIsOut DEF Gone
<1> QED BY <1>1, <1>2, <1>3, PTL DEF Spec, RecoveryClearSound

-----------------------------------------------------------------------------
(***************************************************************************)
(* What reaches the account: two entries never stack, and what the pass    *)
(* adopts as an open trade is protected.                                   *)
(***************************************************************************)

InPlay == {"inflight", "working"}

\* While the handler is at an id, nobody else's record is unresolved.
SenderAlone == cur # None => \A j \in Ids \ {cur} : rec[j] \notin Blocking

\* Children, and a record that says OPEN, belong to an order that has landed.
LandedInv == \A i \in Ids : bracket[i] # "none" \/ rec[i] = "OPEN" => order[i] \in Landed

\* The pass has seen a protected position, or a finished one, and counts on it.
Relies ==
  \/ rpc = "account" /\ seen.bracket = "armed"
  \/ rpc = "decide" /\ ev.protected
  \/ rpc = "write" /\ \E k \in 1 .. Len(plan) : plan[k] = "OPEN"

\* Nothing of the order is held without a live child, and nothing will be.
Safe(i) == bracket[i] = "armed" \/ (Exposure(i) = 0 /\ order[i] \notin InPlay)

RelyInv == Relies => /\ order[rid] \in Landed
                     /\ quiet /\ rec[rid] \in Blocking => Safe(rid)

\* Once the handler has found no live order, the others stay out of the market;
\* once it has found the account flat, they stay out for good.
AloneInv ==
  \A j \in Ids \ (unproven \union {cur}) :
    /\ pc \in {"position?", "guard", "post"} => order[j] \notin InPlay
    /\ pc \in {"guard", "post"} => ~MayExpose(j)

EntryInv == ExposureInv /\ SenderAlone /\ LandedInv /\ RelyInv /\ AloneInv

(***************************************************************************)
(* The broker's books.                                                     *)
(***************************************************************************)
\* An order that has landed has landed; one that is out stays out until it is
\* sent; children come only with a landing order; what is safe stays safe.
BooksSettle ==
  \A i \in Ids : /\ order[i] \in Landed => order'[i] \in Landed
                 /\ order[i] \notin InPlay => order'[i] \notin InPlay \/ Sends(i)
                 /\ bracket'[i] # "none" => bracket[i] # "none" \/ order'[i] \in Landed

LEMMA DoneIsSafe ==
  ASSUME BooksOK, BooksBalance, NEW i \in Ids, Done(i)
  PROVE  order[i] \in Landed /\ Safe(i)
<1>1. /\ order[i] \in OrderState /\ closed[i] = Qty /\ Qty \in Nat \ {0}
      /\ filled[i] \in 0 .. Qty /\ liquidated[i] \in 0 .. Qty
      /\ closed[i] + liquidated[i] <= filled[i]
      /\ order[i] \in {"none", "lost", "inflight", "rejected"} => filled[i] = 0
      /\ order[i] = "working" => filled[i] < Qty
  BY QtyAssumption DEF BooksOK, BooksBalance, Done
<1>2. filled[i] = Qty /\ liquidated[i] = 0
  BY <1>1
<1> QED BY <1>1, <1>2 DEF OrderState, Landed, Pending, Safe, Exposure, InPlay

LEMMA BrokerSettles ==
  ASSUME BooksOK, BooksBalance, LandedInv, Broker
  PROVE  BooksSettle /\ \A i \in Ids : Safe(i) => Safe(i)'
<1>0. ASSUME NEW k \in Ids
      PROVE  /\ order[k] \in OrderState /\ filled[k] \in 0 .. Qty /\ closed[k] \in 0 .. Qty
             /\ liquidated[k] \in 0 .. Qty /\ closed[k] + liquidated[k] <= filled[k]
             /\ order[k] \in {"none", "lost", "inflight", "rejected"} => filled[k] = 0
  BY QtyAssumption DEF BooksOK, BooksBalance
<1> DEFINE Same(k) == /\ order'[k] = order[k] /\ filled'[k] = filled[k] /\ bracket'[k] = bracket[k]
                      /\ closed'[k] = closed[k] /\ liquidated'[k] = liquidated[k]
           Settle(k) == /\ order[k] \in Landed => order'[k] \in Landed
                        /\ order[k] \notin InPlay => order'[k] \notin InPlay
                        /\ bracket'[k] # "none" => bracket[k] # "none" \/ order'[k] \in Landed
                        /\ Safe(k) => Safe(k)'
<1>1. ASSUME NEW k \in Ids, Same(k) PROVE Settle(k)
  BY <1>1 DEF Safe, Exposure
<1>2. ASSUME NEW i \in Ids, Land(i) \/ Lose(i), NEW k \in Ids PROVE Settle(k)
  <2>1. order[i] = "inflight" /\ UNCHANGED <<filled, closed, liquidated>>
        /\ (k # i => order'[k] = order[k] /\ bracket'[k] = bracket[k])
    BY <1>2 DEF Land, Lose, BooksOK
  <2>2. CASE k = i
    <3>1. order'[i] \in {"rejected", "working", "lost"}
          /\ (order'[i] # "working" => bracket'[i] = bracket[i])
      BY <1>2 DEF Land, Lose, BooksOK
    <3>2. ~Safe(i)
      BY <2>1 DEF Safe, InPlay, LandedInv, Landed
    <3> QED BY <2>1, <2>2, <3>1, <3>2 DEF Landed, InPlay
  <2>3. CASE k # i
    BY <1>1, <2>1, <2>3
  <2> QED BY <2>2, <2>3
<1>3. ASSUME NEW i \in Ids, FillEntry(i), NEW k \in Ids PROVE Settle(k)
  <2>1. order[i] = "working" /\ UNCHANGED <<bracket, closed, liquidated>>
        /\ order'[i] \in {"working", "filled"}
        /\ (k # i => order'[k] = order[k] /\ filled'[k] = filled[k])
    BY <1>3 DEF FillEntry, BooksOK
  <2>2. CASE k = i
    BY <2>1, <2>2 DEF Landed, InPlay, Safe
  <2>3. CASE k # i
    BY <1>1, <2>1, <2>3
  <2> QED BY <2>2, <2>3
<1>4. ASSUME NEW i \in Ids, CancelEntry(i), NEW k \in Ids PROVE Settle(k)
  <2>1. order[i] = "working" /\ UNCHANGED <<filled, closed, liquidated>>
        /\ order' = [order EXCEPT ![i] = "canceled"]
        /\ bracket' = [bracket EXCEPT ![i] = IF filled[i] = 0 THEN "dead" ELSE bracket[i]]
    BY <1>4 DEF CancelEntry
  <2>2. CASE k = i
    <3>1. filled[i] = 0 => Exposure(i)' = 0
      BY <1>0, <2>1 DEF Exposure
    <3> QED BY <2>1, <2>2, <3>1 DEF Landed, InPlay, Safe, BooksOK
  <2>3. CASE k # i
    BY <1>1, <2>1, <2>3 DEF BooksOK
  <2> QED BY <2>2, <2>3
<1>5. ASSUME NEW i \in Ids, ChildExit(i), NEW k \in Ids PROVE Settle(k)
  <2>1. order[i] \in {"filled", "canceled"} /\ bracket[i] = "armed"
        /\ UNCHANGED <<order, filled, liquidated>>
        /\ closed' = [closed EXCEPT ![i] = closed[i] + Exposure(i)]
        /\ (k # i => bracket'[k] = bracket[k])
    BY <1>5 DEF ChildExit, BooksOK
  <2>2. CASE k = i
    <3>1. Exposure(i)' = 0
      BY <1>0, <2>1 DEF Exposure, BooksOK
    <3> QED BY <2>1, <2>2, <3>1 DEF InPlay, Landed, Safe
  <2>3. CASE k # i
    BY <1>1, <2>1, <2>3 DEF BooksOK
  <2> QED BY <2>2, <2>3
<1>6. ASSUME ManualClose, NEW k \in Ids PROVE Settle(k)
  <2>1. /\ UNCHANGED <<filled, closed>>
        /\ order'[k] = (IF order[k] = "working" THEN "canceled" ELSE order[k])
        /\ liquidated'[k] = liquidated[k] + Exposure(k)
        /\ bracket'[k] = (IF bracket[k] = "armed" /\ order[k] \in Landed THEN "dead" ELSE bracket[k])
    BY <1>6 DEF ManualClose
  <2>2. Exposure(k)' = 0
    BY <1>0, <2>1 DEF Exposure
  <2> QED BY <2>1, <2>2 DEF Landed, InPlay, Safe
<1> QED BY <1>2, <1>3, <1>4, <1>5, <1>6 DEF Broker, BooksSettle

LEMMA HandlerSettles ==
  ASSUME BooksOK, ControlOK, SendInv, Handler
  PROVE  BooksSettle
<1>1. CASE UNCHANGED broker
  BY <1>1 DEF broker, BooksSettle
<1>2. CASE Post
  <2>1. order' = [order EXCEPT ![cur] = "inflight"] /\ UNCHANGED bracket /\ Sends(cur) /\ pc = "post"
    BY <1>2 DEF Post, Sends
  <2>2. cur \in Ids /\ order[cur] = "none"
    BY <2>1, NoneAssumption DEF ControlOK, SendInv
  <2> QED BY <2>1, <2>2 DEF BooksSettle, BooksOK, Landed
<1>3. ASSUME \A k \in Ids : /\ order'[k] = order[k] \/ (order[k] = "working" /\ order'[k] = "canceled")
                            /\ bracket'[k] # "none" => bracket[k] # "none"
      PROVE  BooksSettle
  BY <1>3 DEF BooksSettle, Landed, InPlay
<1>4. CASE CancelOso \/ ConfirmFlat \/ Flatten
  <2>1. \A k \in Ids : order'[k] = order[k] \/ (order[k] = "working" /\ order'[k] = "canceled")
    BY <1>4 DEF CancelOso, ConfirmFlat, Flatten, BooksOK
  <2>2. \A k \in Ids : bracket'[k] = bracket[k] \/ bracket[k] = "armed"
    BY <1>4 DEF CancelOso, ConfirmFlat, Flatten, BooksOK
  <2> QED BY <1>3, <2>1, <2>2
<1>5. Handler => Post \/ CancelOso \/ ConfirmFlat \/ Flatten \/ UNCHANGED broker
  BY DEF Handler, Alert, Recheck, Guard, PreSendError, BrokerTruth, AckLost, AckReject, AckAccept, ConfirmDead, ConfirmFilled, CancelConfirmed, CancelRaced, Unconfirmed, Verified, Journal, BrokerStays
<1> QED BY <1>1, <1>2, <1>4, <1>5

(***************************************************************************)
(* The handler.                                                            *)
(***************************************************************************)
\* The handler starts at an id only when nothing is unresolved, keeps to it, and
\* writes no other record.
LEMMA HandlerAlone ==
  ASSUME RecOK, ControlOK, SenderAlone, Handler
  PROVE  SenderAlone'
<1>1. CASE cur = None
  <2>1. PICK i \in Ids : Alert(i)
    BY <1>1 DEF ControlOK, Handler, Recheck, Guard, PreSendError, BrokerTruth, Post, AckLost, AckReject, AckAccept, ConfirmDead, ConfirmFilled, CancelOso, CancelConfirmed, CancelRaced, Unconfirmed, ConfirmFlat, Verified, Flatten, Journal
  <2> QED BY <2>1 DEF Alert, Unresolved, BlockingIds, SenderAlone
<1>2. CASE cur # None
  <2>1. cur' \in {cur, None}
    BY <1>2 DEF ControlOK, Handler, Goto, Alert, Recheck, Guard, PreSendError, BrokerTruth, Post, AckLost, AckReject, AckAccept, ConfirmDead, ConfirmFilled, CancelOso, CancelConfirmed, CancelRaced, Unconfirmed, ConfirmFlat, Verified, Flatten, Journal
  <2>2. \A k \in Ids : k # cur => rec'[k] = rec[k]
    BY HandlerKeepsOthers
  <2> QED BY <1>2, <2>1, <2>2 DEF SenderAlone
<1> QED BY <1>1, <1>2

\* The handler says OPEN only of an order whose children it has seen.
LEMMA HandlerOpens ==
  ASSUME RecOK, ControlOK, Handler, NEW k \in Ids, rec[k] # "OPEN", rec'[k] = "OPEN"
  PROVE  bracket[k] # "none" /\ UNCHANGED broker
<1>1. k = cur
  BY HandlerKeepsOthers
<1>2. ~Note("RECONCILE_REQUIRED") /\ ~Note("REJECTED") /\ ~Note("SUBMITTED") /\ ~Note("NO_FILL")
      /\ ~Note("CANCELLED")
  <2> SUFFICES ASSUME NEW new, new # "OPEN", Note(new) PROVE FALSE
    OBVIOUS
  <2>1. PICK t \in NoteOutcomes(rec[cur], new) : rec' = [rec EXCEPT ![cur] = t]
    BY DEF Note
  <2>2. rec[cur] \in Recorded /\ t = "OPEN"
    BY <1>1, <2>1 DEF RecOK
  <2> QED BY <1>1, <2>1, <2>2, NoteIsAllowed
<1>3. rec' # rec /\ ~Guard
  BY <1>1 DEF Guard, RecOK
<1>4. Verified
  BY <1>2, <1>3 DEF Handler, Alert, Recheck, PreSendError, BrokerTruth, Post, AckLost, UnansweredState, AckReject, AckAccept, ConfirmDead, ConfirmFilled, CancelOso, CancelConfirmed, CancelRaced, Unconfirmed, ConfirmFlat, Flatten, Journal
<1> QED BY <1>1, <1>4 DEF Verified, BrokerStays

\* Up to the send, the handler changes nothing at the broker and writes no record
\* but the reservation.
LEMMA BeforeTheSend ==
  ASSUME Handler, pc \notin Sending
  PROVE  UNCHANGED <<broker, unproven>>
BY DEF Handler, Sending, Alert, Recheck, Guard, PreSendError, BrokerTruth, Post, AckLost, AckReject, AckAccept, ConfirmDead, ConfirmFilled, CancelOso, CancelConfirmed, CancelRaced, Unconfirmed, ConfirmFlat, Verified, Flatten, Journal, BrokerStays

\* No live order, then no position: after the first look no other order is in
\* the market, after the second none can be held either.
LEMMA HandlerLooks ==
  ASSUME RecOK, ControlOK, BooksOK, TrackedInv, SenderAlone, LandedInv, AloneInv, Handler
  PROVE  AloneInv'
<1>1. CASE Recheck
  <2>1. UNCHANGED <<rec, broker, unproven>> /\ pc \in {"orders?", "position?"} /\ cur # None
    BY <1>1 DEF Recheck, BrokerStays, ControlOK
  <2>2. CASE pc' = "position?"
    <3>1. cur' = cur /\ \A j \in Ids : order[j] # "working"
      BY <1>1, <2>1, <2>2 DEF Recheck, AccountQuiet, Goto, ListedLive
    <3>2. ASSUME NEW j \in Ids \ (unproven \union {cur}) PROVE order[j] # "inflight"
      <4> SUFFICES ASSUME order[j] = "inflight" PROVE FALSE
        OBVIOUS
      <4>1. Tracked(j)
        BY DEF TrackedInv, MayExpose
      <4>2. rec[j] = "OPEN"
        BY <2>1, <4>1 DEF Tracked, SenderAlone
      <4> QED BY <4>2 DEF LandedInv, Landed
    <3> QED BY <2>1, <2>2, <3>1, <3>2 DEF AloneInv, InPlay, broker
  <2>3. CASE pc' = "guard"
    <3>1. cur' = cur /\ Flat /\ pc = "position?"
      BY <1>1, <2>1, <2>3 DEF Recheck, AccountQuiet, Goto
    <3>2. \A j \in Ids : Exposure(j) = 0
      BY <3>1 DEF Flat
    <3> QED BY <2>1, <2>3, <3>1, <3>2 DEF AloneInv, InPlay, broker, MayExpose, Exposure
  <2>4. pc' \in {"position?", "guard", "idle"}
    BY <1>1 DEF Recheck, AccountQuiet, Goto
  <2> QED BY <2>2, <2>3, <2>4 DEF AloneInv
<1>2. CASE Guard
  <2>1. pc = "guard" /\ UNCHANGED <<broker, unproven>> /\ (cur' = cur \/ pc' = "idle")
        /\ pc' \in {"post", "idle"}
    BY <1>2 DEF Guard, BrokerStays, Goto
  <2> QED BY <2>1 DEF AloneInv, broker, MayExpose, Exposure
<1>3. ~Recheck /\ ~Guard => pc' \notin {"position?", "guard", "post"}
  BY DEF Handler, Goto, Alert, PreSendError, BrokerTruth, Post, AckLost, AckReject, AckAccept, ConfirmDead, ConfirmFilled, CancelOso, CancelConfirmed, CancelRaced, Unconfirmed, ConfirmFlat, Verified, Flatten, Journal
<1> QED BY <1>1, <1>2, <1>3 DEF AloneInv

(***************************************************************************)
(* The recovery pass.                                                      *)
(***************************************************************************)
\* Only a protected position, or a finished one, is called OPEN.
LEMMA PlanOpens ==
  ASSUME NEW s \in Recorded, NEW e \in Evidence,
         NEW k \in 1 .. Len(Plan(s, e)), Plan(s, e)[k] = "OPEN"
  PROVE  e.closed \/ e.protected
<1> SUFFICES ASSUME ~e.closed, ~e.protected PROVE FALSE
  OBVIOUS
<1>1. \A a : Len(<<a>>) = 1 /\ <<a>>[1] = a
  OBVIOUS
<1>2. Acknowledged(s) = <<>> \/ Acknowledged(s) = <<"SUBMITTED">>
  BY DEF Acknowledged
<1>3. ASSUME NEW n \in 1 .. Len(PartialPlan(s, e)) PROVE PartialPlan(s, e)[n] # "OPEN"
  BY <1>2 DEF PartialPlan
<1>4. \A status : ZeroFillTarget(s, status) # "OPEN"
  BY DEF ZeroFillTarget
<1>5. \/ Plan(s, e) = <<>>
      \/ Plan(s, e) = <<MARK>>
      \/ Plan(s, e) = PartialPlan(s, e)
      \/ \E status : Plan(s, e) = <<ZeroFillTarget(s, status)>>
  BY DEF Plan, HeldAndProtected
<1> QED BY <1>1, <1>3, <1>4, <1>5 DEF MARK

\* What a pass relies on, it has read, and the reads stay true.
LEMMA RecoveryRelies ==
  ASSUME Parts, PassInv, LandedInv, RelyInv, Recovery
  PROVE  RelyInv'
<1>0. RecOK /\ PassOK /\ BooksOK /\ BooksBalance
  BY DEF Parts
<1>1. UNCHANGED <<order, filled, bracket, closed, liquidated>> /\ OnlyMoves
  <2>1. UNCHANGED broker /\ OnlyMoves
    BY RecoveryControl DEF Parts
  <2> QED BY <2>1 DEF broker
<1>2. ASSUME rid' = rid, quiet' = quiet, rid \in Ids, Relies' => Relies PROVE RelyInv'
  <2>1. rec'[rid] \in Blocking => rec[rid] \in Blocking
    <3>1. ASSUME NEW i \in Ids, Moves(i), rec[rid] \notin Blocking PROVE rec'[rid] \notin Blocking
      <4>1. PICK t \in Allowed(rec[i]) : rec' = [rec EXCEPT ![i] = t]
        BY <3>1 DEF Moves
      <4> QED BY <1>0, <1>2, <3>1, <4>1, NeverReblocks DEF RecOK
    <3> QED BY <1>1, <3>1 DEF OnlyMoves
  <2>2. Safe(rid) => Safe(rid)'
    BY <1>1, <1>2 DEF Safe, Exposure
  <2> QED BY <1>1, <1>2, <2>1, <2>2 DEF RelyInv
<1>3. CASE \E readable \in BOOLEAN : RecList(readable)
  BY <1>3 DEF RecList, RecGoto, RelyInv, Relies
<1>4. CASE RecEnd \/ RecAbort \/ RecWriteFails \/ RecDone
  BY <1>4 DEF RecEnd, RecAbort, RecWriteFails, RecDone, NextId, RecGoto, RelyInv, Relies
<1>5. ASSUME NEW i \in Ids, RecOrdersUnread(i) PROVE RelyInv'
  <2>1. rpc = "pick" /\ rpc' = "decide" /\ ev' = ev
    BY <1>5 DEF RecOrdersUnread, ReadOrders, RecGoto
  <2>2. ~ev'.protected
    BY <2>1 DEF PassInv, NoEvidence
  <2> QED BY <2>1, <2>2 DEF RelyInv, Relies
<1>6. ASSUME NEW i \in Ids, RecReadOrders(i) PROVE RelyInv'
  <2>1. rpc' = "account" /\ rid' = i
        /\ seen' = IF order[i] \in Landed
                   THEN [status |-> order[i], filled |-> filled[i], bracket |-> bracket[i]]
                   ELSE NoRow
    BY <1>6 DEF RecReadOrders, ReadOrders, RecGoto
  <2>2. Relies' => bracket[i] = "armed" /\ order[i] \in Landed
    BY <2>1 DEF Relies, NoRow
  <2> QED BY <1>1, <2>1, <2>2 DEF RelyInv, Safe
<1>7. ASSUME NEW e, ReadAccount(e), e.protected => Relies \/ Done(rid) PROVE RelyInv'
  <2>1. rpc = "account" /\ rpc' = "decide" /\ ev' = e /\ UNCHANGED <<rec, rid, quiet>>
    BY <1>7 DEF ReadAccount, RecGoto
  <2>2. rid \in Ids
    BY <1>0, <2>1 DEF PassOK
  <2>3. CASE e.protected /\ Done(rid)
    <3>1. order[rid] \in Landed /\ Safe(rid)
      BY <1>0, <2>2, <2>3, DoneIsSafe
    <3> QED BY <1>1, <2>1, <3>1 DEF RelyInv, Safe, Exposure
  <2>4. CASE ~(e.protected /\ Done(rid))
    <3>1. Relies' => Relies
      BY <1>7, <2>1, <2>4 DEF Relies
    <3> QED BY <1>2, <2>1, <2>2, <3>1
  <2> QED BY <2>3, <2>4
<1>8. CASE RecReadAccount
  <2>1. rid \in Ids /\ rpc = "account"
    BY <1>0, <1>8 DEF RecReadAccount, ReadAccount, PassOK
  <2>2. Observed(rid).protected => seen.bracket = "armed" \/ (closed[rid] >= Qty)
    BY DEF Observed
  <2>3. closed[rid] >= Qty => Done(rid)
    BY <1>0, <2>1, QtyAssumption DEF BooksOK, Done
  <2>4. Observed(rid).protected => Relies \/ Done(rid)
    BY <2>1, <2>2, <2>3 DEF Relies
  <2> QED BY <1>7, <1>8, <2>4 DEF RecReadAccount
<1>9. CASE RecAccountUnread
  <2>1. ~NoEvidence.protected
    BY DEF NoEvidence
  <2> QED BY <1>7, <1>9, <2>1 DEF RecAccountUnread
<1>10. CASE RecDecide
  <2>1. rpc = "decide" /\ rpc' = "write" /\ plan' = Plan(rec[rid], ev) /\ UNCHANGED <<rec, rid, quiet>>
    BY <1>10 DEF RecDecide, RecGoto
  <2>2. rid \in Ids /\ rec[rid] \in Recorded /\ ev \in Evidence
    BY <1>0, <2>1 DEF PassOK, RecOK
  <2>3. Relies' => ev.closed \/ ev.protected
    BY <2>1, <2>2, PlanOpens DEF Relies
  <2>4. CASE ev.closed
    <3>1. order[rid] \in Landed /\ Safe(rid)
      BY <1>0, <2>1, <2>2, <2>4, DoneIsSafe DEF PassInv
    <3> QED BY <1>1, <2>1, <3>1 DEF RelyInv, Safe, Exposure
  <2>5. CASE ~ev.closed
    <3>1. Relies' => Relies
      BY <2>1, <2>3, <2>5 DEF Relies
    <3> QED BY <1>2, <2>1, <2>2, <3>1
  <2> QED BY <2>4, <2>5
<1>11. CASE RecWrite
  <2>1. rpc = "write" /\ rpc' = "write" /\ plan # <<>> /\ plan' = Tail(plan) /\ UNCHANGED <<rid, quiet>>
    BY <1>11 DEF RecWrite
  <2>2. plan \in Seq(States \union {MARK}) /\ rid \in Ids
    BY <1>0, <2>1 DEF PassOK
  <2>3. \A k \in 1 .. Len(plan') : k + 1 \in 1 .. Len(plan) /\ plan'[k] = plan[k + 1]
    BY <2>1, <2>2
  <2>4. Relies' => Relies
    BY <2>1, <2>3 DEF Relies
  <2> QED BY <1>2, <2>1, <2>2, <2>4
<1> QED BY <1>3, <1>4, <1>5, <1>6, <1>8, <1>9, <1>10, <1>11 DEF Recovery

(***************************************************************************)
(* The invariant.                                                          *)
(***************************************************************************)
LEMMA EntryInit == Init => EntryInv
<1> SUFFICES ASSUME Init PROVE EntryInv
  OBVIOUS
<1>1. ExposureInv
  BY ExposureInit
<1>2. SenderAlone /\ LandedInv /\ RelyInv /\ AloneInv
  BY DEF Init, SenderAlone, LandedInv, RelyInv, Relies, AloneInv, NoRecord
<1> QED BY <1>1, <1>2 DEF EntryInv

\* A step that neither writes the records nor moves the handler or the pass.
LEMMA OnlyBooksMove ==
  ASSUME Parts, EntryInv, BooksSettle, BooksAge, \A i \in Ids : Safe(i) => Safe(i)', \A i \in Ids : ~Sends(i),
         UNCHANGED <<rec, unproven, pc, cur, recovery, quiet>>
  PROVE  SenderAlone' /\ LandedInv' /\ RelyInv' /\ AloneInv'
<1>1. UNCHANGED <<rpc, rid, seen, ev, plan, quiet>> /\ PassOK
  BY DEF recovery, Parts
<1>2. SenderAlone' /\ LandedInv'
  BY DEF EntryInv, SenderAlone, LandedInv, BooksSettle
<1>3. RelyInv'
  <2>1. Relies' => Relies /\ rid \in Ids
    BY <1>1 DEF Relies, PassOK
  <2>2. rid \in Ids /\ Safe(rid) => Safe(rid)'
    BY <1>1 DEF Safe, Exposure
  <2> QED BY <1>1, <2>1, <2>2 DEF EntryInv, RelyInv, BooksSettle
<1>4. AloneInv'
  BY DEF EntryInv, AloneInv, BooksSettle, BooksAge
<1> QED BY <1>2, <1>3, <1>4

\* While the pass is at an unresolved record nobody is sending, the handler does
\* nothing at the broker.
LEMMA HandlerRelies ==
  ASSUME Parts, EntryInv, Handler, BooksSettle
  PROVE  RelyInv'
<1>0. RecOK /\ ControlOK /\ PassOK /\ PassInv /\ SenderAlone /\ RelyInv
  BY DEF Parts, EntryInv, ExposureInv
<1>1. UNCHANGED <<rpc, rid, seen, ev, plan, quiet>>
  BY <1>0, HandlerControl DEF recovery
<1> SUFFICES ASSUME Relies
             PROVE  order'[rid] \in Landed /\ (quiet /\ rec'[rid] \in Blocking => Safe(rid)')
  BY <1>1 DEF RelyInv, Relies
<1>2. rid \in Ids /\ rid # None /\ rec[rid] # NoRecord
  BY <1>0, NoneAssumption DEF Relies, PassOK, PassInv
<1>3. order'[rid] \in Landed
  BY <1>0, <1>2 DEF RelyInv, BooksSettle
<1>4. ASSUME quiet, rec'[rid] \in Blocking PROVE Safe(rid)'
  <2>1. ~(cur = rid /\ pc \in Sending)
    BY <1>0, <1>2, <1>4 DEF PassInv
  <2>2. pc \notin Sending
    <3> SUFFICES ASSUME pc \in Sending PROVE FALSE
      OBVIOUS
    <3>1. cur # None /\ cur # rid
      BY <1>0, <2>1 DEF ControlOK, Sending
    <3>2. rec'[rid] = rec[rid]
      BY <1>0, <1>2, <3>1, HandlerKeepsOthers
    <3> QED BY <1>0, <1>2, <1>4, <3>1, <3>2 DEF SenderAlone
  <2>3. UNCHANGED broker
    BY <2>2, BeforeTheSend
  <2>4. rec[rid] \in Blocking
    <3>1. rec' = rec \/ Guard
      BY <2>2 DEF Handler, Sending, Alert, Recheck, PreSendError, BrokerTruth, Post, AckLost, AckReject, AckAccept, ConfirmDead, ConfirmFilled, CancelOso, CancelConfirmed, CancelRaced, Unconfirmed, ConfirmFlat, Verified, Flatten, Journal
    <3>2. Guard => rec'[rid] = rec[rid]
      BY <1>0, <1>2, HandlerKeepsOthers DEF Guard, FirstReservation
    <3> QED BY <1>4, <3>1, <3>2
  <2> QED BY <1>0, <1>1, <1>4, <2>3, <2>4 DEF RelyInv, Safe, Exposure, broker
<1> QED BY <1>3, <1>4

LEMMA EntryStep ==
  ASSUME EntryInv, [Next]_vars
  PROVE  EntryInv'
<1>0. Parts /\ ExposureInv /\ TrackedInv /\ PassInv /\ RecOK /\ BooksOK /\ BooksBalance /\ ControlOK
      /\ PassOK /\ SendInv /\ SenderAlone /\ LandedInv /\ RelyInv /\ AloneInv
  BY DEF EntryInv, ExposureInv, Parts
<1>1. ExposureInv'
  BY <1>0, ExposureStep
<1>2. CASE Broker
  <2>1. UNCHANGED <<rec, posts, unproven, pc, cur, recovery, quiet>>
    BY <1>0, <1>2, BrokerBalances DEF NotBooks, disk, handler, history
  <2>2. \A i \in Ids : ~Sends(i)
    BY <1>0, <2>1 DEF Sends, PostsOK, Parts
  <2>3. BooksAge /\ BooksSettle /\ \A i \in Ids : Safe(i) => Safe(i)'
    BY <1>0, <1>2, BrokerAges, BrokerSettles
  <2> QED BY <1>0, <1>1, <2>1, <2>2, <2>3, OnlyBooksMove DEF EntryInv
<1>3. CASE Handler
  <2>1. BooksSettle
    BY <1>0, <1>3, HandlerSettles
  <2>2. LandedInv'
    <3> SUFFICES ASSUME NEW i \in Ids, bracket'[i] # "none" \/ rec'[i] = "OPEN"
                 PROVE  order'[i] \in Landed
      BY DEF LandedInv
    <3>1. CASE bracket'[i] # "none" \/ rec[i] = "OPEN"
      BY <1>0, <2>1, <3>1 DEF LandedInv, BooksSettle
    <3>2. CASE rec[i] # "OPEN" /\ rec'[i] = "OPEN"
      <4>1. bracket[i] # "none"
        BY <1>0, <1>3, <3>2, HandlerOpens
      <4> QED BY <1>0, <2>1, <4>1 DEF LandedInv, BooksSettle
    <3> QED BY <3>1, <3>2
  <2>3. SenderAlone' /\ AloneInv' /\ RelyInv'
    BY <1>0, <1>3, <2>1, HandlerAlone, HandlerLooks, HandlerRelies
  <2> QED BY <1>1, <2>2, <2>3 DEF EntryInv
<1>4. CASE Recovery
  <2>1. OnlyMoves /\ UNCHANGED <<broker, handler>>
    BY <1>0, <1>4, RecoveryControl
  <2>2. UNCHANGED <<order, filled, bracket, closed, liquidated, pc, cur>>
    BY <2>1 DEF broker, handler
  <2>3. SenderAlone'
    <3>1. ASSUME NEW i \in Ids, Moves(i), NEW j \in Ids, rec[j] \notin Blocking
          PROVE  rec'[j] \notin Blocking
      <4>1. PICK t \in Allowed(rec[i]) : rec' = [rec EXCEPT ![i] = t]
        BY <3>1 DEF Moves
      <4> QED BY <1>0, <3>1, <4>1, NeverReblocks DEF RecOK
    <3> QED BY <1>0, <2>1, <2>2, <3>1 DEF SenderAlone, OnlyMoves
  <2>4. LandedInv'
    <3> SUFFICES ASSUME NEW i \in Ids, rec[i] # "OPEN", rec'[i] = "OPEN" PROVE order[i] \in Landed
      BY <1>0, <2>2 DEF LandedInv
    <3>1. RecWrite /\ rpc = "write"
      BY <1>4 DEF Recovery, RecWrite, RecList, RecReadOrders, RecOrdersUnread, ReadOrders, RecReadAccount, RecAccountUnread, ReadAccount, RecDecide, RecWriteFails, RecDone, RecEnd, RecAbort
    <3>2. rid = i /\ 1 \in 1 .. Len(plan) /\ plan[1] = "OPEN"
      BY <1>0, <3>1, WriteIsPlanned DEF RecOK
    <3> QED BY <1>0, <3>1, <3>2 DEF RelyInv, Relies
  <2>5. RelyInv'
    BY <1>0, <1>4, RecoveryRelies
  <2>6. unproven \subseteq unproven'
    BY <1>4 DEF Recovery, RecWrite, RecList, RecReadOrders, RecOrdersUnread, ReadOrders, RecReadAccount, RecAccountUnread, ReadAccount, RecDecide, RecWriteFails, RecDone, RecEnd, RecAbort
  <2>7. AloneInv'
    BY <1>0, <2>2, <2>6 DEF AloneInv, MayExpose, Exposure
  <2> QED BY <1>1, <2>3, <2>4, <2>5, <2>7 DEF EntryInv
<1>5. CASE Crash
  <2>1. UNCHANGED <<rec, order, bracket>> /\ cur' = None /\ pc' = "idle" /\ rpc' = "idle"
    BY <1>5 DEF Crash, disk, broker
  <2> QED BY <1>0, <1>1, <2>1 DEF EntryInv, SenderAlone, LandedInv, RelyInv, Relies, AloneInv
<1>6. CASE ResolveOpen \/ UNCHANGED vars
  <2>1. UNCHANGED <<rec, order, filled, bracket, closed, liquidated, posts, unproven, pc, cur, recovery, quiet>>
    BY <1>6 DEF ResolveOpen, vars, disk, broker, handler, history
  <2>2. \A i \in Ids : ~Sends(i)
    BY <1>0, <2>1 DEF Sends, PostsOK, Parts
  <2>3. BooksAge /\ BooksSettle /\ \A i \in Ids : Safe(i) => Safe(i)'
    BY <2>1 DEF BooksAge, BooksSettle, Safe, MayExpose, Exposure, Gone, Done
  <2> QED BY <1>0, <1>1, <2>1, <2>2, <2>3, OnlyBooksMove DEF EntryInv
<1> QED BY <1>2, <1>3, <1>4, <1>5, <1>6 DEF Next

\* A request leaves only when no other order is, or can become, a position,
\* except those whose record was closed on evidence that proves nothing: the
\* block of unresolved records and the two looks at the account, each at a time
\* of its own, together never let two entries stack.
THEOREM EntriesNeverStack == Spec => NoStackedEntry
<1>1. Init => EntryInv
  BY EntryInit
<1>2. EntryInv /\ [Next]_vars => EntryInv'
  BY EntryStep
<1>3. EntryInv /\ [Next]_vars =>
        [posts' # posts => \A j \in Ids \ (unproven \union {cur}) : ~MayExpose(j)]_vars
  <2> SUFFICES ASSUME EntryInv, [Next]_vars, posts' # posts
               PROVE  \A j \in Ids \ (unproven \union {cur}) : ~MayExpose(j)
    OBVIOUS
  <2>1. Parts /\ AloneInv
    BY DEF EntryInv, ExposureInv
  <2>2. RecordStep
    BY <2>1, PartsStep
  <2>3. pc = "post"
    BY <2>2 DEF RecordStep, Reserves, Moves, Sends
  <2> QED BY <2>1, <2>3 DEF AloneInv
<1> QED BY <1>1, <1>2, <1>3, PTL DEF Spec, NoStackedEntry

\* A record read while nobody was sending it becomes OPEN only when the position
\* is protected, or gone again, however long ago the reads were and whatever
\* filled, was cancelled or was closed since.
THEOREM AdoptsOnlyProtected == Spec => AdoptionIsProtected
<1>1. Init => EntryInv
  BY EntryInit
<1>2. EntryInv /\ [Next]_vars => EntryInv'
  BY EntryStep
<1>3. EntryInv /\ [Next]_vars =>
        [(RecoveryWrites /\ quiet /\ rec'[rid] = "OPEN") =>
           (bracket[rid] = "armed" \/ Exposure(rid) = 0)]_vars
  <2> SUFFICES ASSUME EntryInv, [Next]_vars, RecoveryWrites, quiet, rec'[rid] = "OPEN"
               PROVE  bracket[rid] = "armed" \/ Exposure(rid) = 0
    OBVIOUS
  <2>1. ExposureInv /\ RelyInv /\ RecOK /\ PassOK
    BY DEF EntryInv, ExposureInv, Parts
  <2>2. RecWrite /\ rec'[rid] # rec[rid] /\ rpc = "write"
    BY <2>1, WhoWrites DEF RecoveryWrites
  <2>3. rid \in Ids /\ 1 \in 1 .. Len(plan) /\ rec' = [rec EXCEPT ![rid] = Wanted]
        /\ (Wanted = plan[1] \/ Wanted = "RECONCILE_REQUIRED")
    BY <2>1, <2>2, WriteIsPlanned
  <2>4. Relies
    BY <2>1, <2>2, <2>3 DEF Relies, RecOK
  <2>5. rec[rid] \in Blocking
    <3>1. RecordStep
      BY <2>1, PartsStep DEF ExposureInv
    <3>2. rec[rid] \in Recorded
      BY <2>1, <2>3 DEF RecOK
    <3>3. \/ rec[rid] = NoRecord /\ rec'[rid] = "AMBIGUOUS"
          \/ rec'[rid] \in Allowed(rec[rid])
      BY <2>1, <2>2, <2>3, <3>1 DEF RecordStep, Reserves, Sends, Moves, RecOK
    <3> QED BY <2>2, <3>2, <3>3, NeverReblocks DEF Recorded
  <2> QED BY <2>1, <2>4, <2>5 DEF RelyInv, Safe
<1> QED BY <1>1, <1>2, <1>3, PTL DEF Spec, AdoptionIsProtected

(***************************************************************************)
(* What the journal shows open has arrived.                                *)
(***************************************************************************)
\* Before its send and after its answer the handler's order is not on its way.
ArrivedInv == pc \notin {"idle", "post", "await"} => order[cur] # "inflight" \/ cur \in unproven

\* An id no one is sending whose record does not block is not on its way.
LEMMA ResolvedHasArrived ==
  ASSUME EntryInv, NEW i \in Ids, cur # i, rec[i] \notin Blocking
  PROVE  order[i] # "inflight" \/ i \in unproven
<1> SUFFICES ASSUME order[i] = "inflight", i \notin unproven PROVE FALSE
  OBVIOUS
<1>1. rec[i] = "OPEN"
  BY DEF EntryInv, ExposureInv, TrackedInv, MayExpose, Tracked, Blocking
<1>2. order[i] \in Landed
  BY <1>1 DEF EntryInv, LandedInv
<1> QED BY <1>2 DEF Landed

LEMMA HandlerArrives ==
  ASSUME EntryInv, ArrivedInv, Handler
  PROVE  ArrivedInv'
<1> USE DEF ArrivedInv
<1>0. ControlOK /\ BooksOK
  BY DEF EntryInv, ExposureInv, Parts
<1>1. ASSUME NEW i \in Ids, Alert(i) PROVE ArrivedInv'
  <2>1. cur # i /\ rec[i] \notin Blocking
    BY <1>0, <1>1, NoneAssumption DEF Alert, ControlOK, Unresolved, BlockingIds
  <2>2. cur' = i /\ UNCHANGED <<order, unproven>>
    BY <1>1 DEF Alert, BrokerStays, broker
  <2> QED BY <2>1, <2>2, ResolvedHasArrived
<1>2. CASE Guard \/ Post \/ AckLost \/ AckReject
  BY <1>2 DEF Guard, Post, AckLost, AckReject, Goto
<1>3. CASE AckAccept
  BY <1>3 DEF AckAccept, Goto, BrokerStays, broker, Landed
<1>4. CASE Recheck \/ PreSendError \/ BrokerTruth \/ ConfirmFilled \/ CancelRaced \/ Verified
           \/ Journal
  <2>1. pc \notin {"idle", "post", "await"} /\ UNCHANGED <<order, unproven>>
    BY <1>4 DEF Recheck, PreSendError, BrokerTruth, ConfirmFilled, CancelRaced, Verified,
       Journal, BrokerStays, broker
  <2>2. pc' = "idle" \/ cur' = cur
    BY <1>4 DEF Recheck, PreSendError, BrokerTruth, ConfirmFilled, CancelRaced, Verified,
       Journal, Goto
  <2> QED BY <2>1, <2>2
<1>5. CASE ConfirmDead \/ CancelConfirmed \/ Unconfirmed \/ ConfirmFlat
  BY <1>5 DEF ConfirmDead, CancelConfirmed, Unconfirmed, ConfirmFlat, Goto
<1>6. CASE CancelOso
  <2>1. cur \in Ids /\ pc = "confirm"
    BY <1>0, <1>6 DEF CancelOso, ControlOK
  <2>2. order'[cur] \in {order[cur], "canceled"}
    BY <1>0, <1>6, <2>1 DEF CancelOso, BooksOK
  <2>3. cur' = cur /\ unproven' = unproven
    BY <1>6 DEF CancelOso, Goto
  <2> QED BY <2>1, <2>2, <2>3
<1>7. CASE Flatten
  <2>1. cur \in Ids /\ pc = "verify"
    BY <1>0, <1>7 DEF Flatten, ControlOK
  <2>2. order'[cur] \in {order[cur], "canceled"}
    BY <1>7, <2>1 DEF Flatten
  <2>3. unproven' = unproven /\ (pc' = "idle" \/ cur' = cur)
    BY <1>7 DEF Flatten, Goto
  <2> QED BY <2>1, <2>2, <2>3
<1> QED BY <1>1, <1>2, <1>3, <1>4, <1>5, <1>6, <1>7 DEF Handler

LEMMA ArrivedStep ==
  ASSUME EntryInv, ArrivedInv, [Next]_vars
  PROVE  ArrivedInv'
<1>0. Parts /\ RecOK /\ BooksOK /\ BooksBalance /\ ControlOK /\ PassOK
  BY DEF EntryInv, ExposureInv, Parts
<1>1. CASE Broker
  <2>1. UNCHANGED <<unproven, pc, cur>>
    BY <1>0, <1>1, BrokerBalances DEF NotBooks, handler, history
  <2>2. \A i \in Ids : order'[i] = "inflight" => order[i] = "inflight"
    BY <1>0, <1>1 DEF Broker, Land, Lose, FillEntry, CancelEntry, ChildExit, ManualClose, BooksOK
  <2>3. pc # "idle" => cur \in Ids
    BY <1>0 DEF ControlOK
  <2> QED BY <2>1, <2>2, <2>3 DEF ArrivedInv
<1>2. CASE Handler
  BY <1>2, HandlerArrives
<1>3. CASE Recovery
  <2>1. UNCHANGED <<order, pc, cur>>
    BY <1>0, <1>3, RecoveryControl DEF broker, handler
  <2>2. unproven \subseteq unproven'
    BY <1>3 DEF Recovery, RecWrite, RecList, RecReadOrders, RecOrdersUnread, ReadOrders,
       RecReadAccount, RecAccountUnread, ReadAccount, RecDecide, RecWriteFails, RecDone, RecEnd,
       RecAbort
  <2> QED BY <2>1, <2>2 DEF ArrivedInv
<1>4. CASE Crash
  BY <1>4 DEF Crash, ArrivedInv
<1>5. CASE ResolveOpen \/ UNCHANGED vars
  BY <1>5 DEF ResolveOpen, vars, broker, handler, history, ArrivedInv
<1> QED BY <1>1, <1>2, <1>3, <1>4, <1>5 DEF Next

\* An order whose TRADE row is written is not still on its way to the broker,
\* except one whose record was closed on evidence that proves nothing: an open
\* trade (OpenTrade) has its entry behind it.
THEOREM JournaledHasArrived ==
  Spec => [][open' \notin {open, None} => order[open'] # "inflight" \/ open' \in unproven]_vars
<1>1. Init => EntryInv /\ ArrivedInv
  BY EntryInit DEF Init, ArrivedInv
<1>2. EntryInv /\ ArrivedInv /\ [Next]_vars => (EntryInv /\ ArrivedInv)'
  BY EntryStep, ArrivedStep
<1>3. EntryInv /\ ArrivedInv /\ [Next]_vars =>
        [open' \notin {open, None} => order[open'] # "inflight" \/ open' \in unproven]_vars
  <2> SUFFICES ASSUME ArrivedInv, [Next]_vars, open' \notin {open, None}
               PROVE  order[open'] # "inflight" \/ open' \in unproven
    OBVIOUS
  <2>1. pc = "journal"
    BY SendsAndOpens
  <2>2. open' = cur
    <3>1. Handler
      BY DEF Next, Broker, Land, Lose, FillEntry, CancelEntry, ChildExit, ManualClose, disk,
         Recovery, RecWrite, RecList, RecReadOrders, RecOrdersUnread, ReadOrders, RecReadAccount,
         RecAccountUnread, ReadAccount, RecDecide, RecWriteFails, RecDone, RecEnd, RecAbort,
         RecPassStays, OthersStay, Crash, ResolveOpen, vars
    <3>2. Journal
      BY <2>1, <3>1 DEF Handler, Alert, Recheck, Guard, PreSendError, BrokerTruth, Post, AckLost,
         AckReject, AckAccept, ConfirmDead, ConfirmFilled, CancelOso, CancelConfirmed,
         CancelRaced, Unconfirmed, ConfirmFlat, Verified, Flatten
    <3> QED BY <3>2 DEF Journal
  <2> QED BY <2>1, <2>2 DEF ArrivedInv
<1> QED BY <1>1, <1>2, <1>3, PTL DEF Spec
=============================================================================
