------------------------ MODULE OrderSubmissionProofs ------------------------
(***************************************************************************)
(* What holds of OrderSubmission for every set of signals, every quantity  *)
(* and any number of crashes.                                              *)
(***************************************************************************)
EXTENDS OrderSubmission, SequenceTheorems, TLAPS

(***************************************************************************)
(* The record store.                                                       *)
(***************************************************************************)
Recorded == States \union {NoRecord}

\* Transitions lead to states.
LEMMA AllowedStates ==
  ASSUME NEW s \in Recorded, NEW t \in Allowed(s)
  PROVE  t \in States
BY DEF Recorded, States, Blocking, Terminal, NoRecord, Allowed

\* No transition takes a record that does not block entries to one that does.
LEMMA NeverReblocks ==
  ASSUME NEW s \in Recorded, s \notin Blocking, NEW t \in Allowed(s)
  PROVE  t \notin Blocking /\ t # NoRecord /\ s = "OPEN" /\ t = "CLOSED"
BY DEF Recorded, States, Blocking, Terminal, NoRecord, Allowed, Transitions

\* Noting a state leaves the record alone or makes an allowed transition, to
\* that state or to the mark.
LEMMA NoteIsAllowed ==
  ASSUME NEW s \in Recorded, NEW new, NEW t \in NoteOutcomes(s, new)
  PROVE  t = s \/ (t \in Allowed(s) /\ t \in {new, "RECONCILE_REQUIRED"})
BY DEF NoteOutcomes, Marked

\* A plan is a sequence of states and marks.
LEMMA PlanIsSequence ==
  ASSUME NEW s \in Recorded, NEW e \in Evidence
  PROVE  Plan(s, e) \in Seq(States \union {MARK})
<1> DEFINE W == States \union {MARK}
<1>1. \A a \in W : <<a>> \in Seq(W)
  OBVIOUS
<1>2. \A a, b \in W : <<a, b>> \in Seq(W)
  OBVIOUS
<1>3. <<>> \in Seq(W)
  OBVIOUS
<1>4. Acknowledged(s) \in Seq(W)
  BY <1>1, <1>3 DEF Acknowledged, States, Blocking
<1>5. \A p, q \in Seq(W) : p \o q \in Seq(W)
  OBVIOUS
<1>6. PartialPlan(s, e) \in Seq(W)
  <2>1. {"PARTIALLY_FILLED", "OPEN", "RECONCILE_REQUIRED"} \subseteq W
    BY DEF States, Blocking
  <2> HIDE DEF W
  <2> QED BY <1>1, <1>2, <1>4, <1>5, <2>1 DEF PartialPlan
<1>7. \A status : ZeroFillTarget(s, status) \in W
  BY DEF ZeroFillTarget, States, Blocking, Terminal
<1>8. {"OPEN", "CLOSED", MARK} \subseteq W
  BY DEF States, Blocking, Terminal
<1> HIDE DEF W
<1>9. (IF s = "OPEN" THEN <<>> ELSE Acknowledged(s) \o <<"OPEN">>) \o <<"CLOSED">> \in Seq(W)
  BY <1>1, <1>3, <1>4, <1>5, <1>8
<1>10. Acknowledged(s) \o <<"OPEN">> \in Seq(W)
  BY <1>1, <1>4, <1>5, <1>8
<1>11. Plan(s, e) \in Seq(W)
  BY <1>1, <1>3, <1>6, <1>7, <1>8, <1>9, <1>10 DEF Plan
<1> QED BY <1>11 DEF W

(***************************************************************************)
(* Types, and the arithmetic of the broker's books.                        *)
(***************************************************************************)
\* No order fills more than it asked for, an order not in the market has filled
\* nothing, and nobody closes more of it than it filled.
BooksBalance ==
  \A i \in Ids :
    /\ closed[i] + liquidated[i] <= filled[i]
    /\ order[i] \in {"none", "lost", "inflight", "rejected"} => filled[i] = 0
    /\ order[i] = "working" => filled[i] < Qty

\* The types of the broker's books.
BooksOK ==
  /\ order \in [Ids -> OrderState] /\ bracket \in [Ids -> Children]
  /\ filled \in [Ids -> 0 .. Qty] /\ closed \in [Ids -> 0 .. Qty]
  /\ liquidated \in [Ids -> 0 .. Qty]

LEMMA EmptyRows == NoRow \in Rows /\ NoEvidence \in Evidence
BY QtyAssumption DEF NoRow, NoEvidence, Rows, Evidence, OrderStatus, Children

LEMMA TypeInit == Init => TypeOK /\ BooksBalance
<1> SUFFICES ASSUME Init PROVE TypeOK /\ BooksBalance
  OBVIOUS
<1> USE QtyAssumption, CrashAssumption DEF Init
<1>1. /\ seen \in Rows /\ ev \in Evidence /\ plan \in Seq(States \union {MARK})
      /\ posts \in [Ids -> Nat] /\ crashes \in 0 .. MaxCrashes
  BY EmptyRows
<1>2. BooksOK
  BY DEF BooksOK, OrderState, Children
<1>3. /\ rec \in [Ids -> States \union {NoRecord}] /\ open = None /\ unproven \subseteq Ids
      /\ (cur = None) = (pc = "idle") /\ pc \in PcLabels /\ rpc \in RpcLabels
      /\ (rid = None) = (rpc \in {"idle", "pick"})
  BY DEF PcLabels, RpcLabels
<1>4. TypeOK
  BY <1>1, <1>2, <1>3 DEF TypeOK, BooksOK
<1>5. BooksBalance
  BY DEF BooksBalance
<1> QED BY <1>4, <1>5

\* What the steps of the broker leave alone.
NotBooks == <<disk, phase, latch, handler, recovery, history>>

\* Steps of the broker change only its books, and keep them balanced.
LEMMA BrokerBalances ==
  ASSUME BooksOK, BooksBalance, Broker
  PROVE  UNCHANGED NotBooks /\ BooksOK' /\ BooksBalance'
<1> USE QtyAssumption DEF BooksOK, BooksBalance
<1>0. \A k \in Ids : /\ filled[k] \in 0 .. Qty /\ closed[k] \in 0 .. Qty
                    /\ liquidated[k] \in 0 .. Qty
  OBVIOUS
<1>1. ASSUME NEW i \in Ids, Land(i) PROVE UNCHANGED NotBooks /\ BooksOK' /\ BooksBalance'
  <2>1. BooksOK'
    BY <1>1 DEF Land, OrderState, Landed, Children
  <2>2. order[i] = "inflight" /\ filled[i] = 0 /\ UNCHANGED <<filled, closed, liquidated>>
        /\ \A k \in Ids : k # i => order'[k] = order[k]
    BY <1>1 DEF Land
  <2>3. BooksBalance'
    BY <2>2, <1>0
  <2> QED BY <2>1, <2>3, <1>1 DEF Land, NotBooks
<1>2. ASSUME NEW i \in Ids, Lose(i) PROVE UNCHANGED NotBooks /\ BooksOK' /\ BooksBalance'
  <2>1. BooksOK'
    BY <1>2 DEF Lose, OrderState
  <2>2. order[i] = "inflight" /\ filled[i] = 0 /\ UNCHANGED <<filled, closed, liquidated>>
        /\ order'[i] = "lost" /\ \A k \in Ids : k # i => order'[k] = order[k]
    BY <1>2 DEF Lose
  <2>3. BooksBalance'
    BY <2>2, <1>0
  <2> QED BY <2>1, <2>3, <1>2 DEF Lose, NotBooks
<1>3. ASSUME NEW i \in Ids, FillEntry(i) PROVE UNCHANGED NotBooks /\ BooksOK' /\ BooksBalance'
  <2>1. /\ order[i] = "working" /\ filled[i] \in 0 .. Qty /\ filled[i] < Qty
        /\ UNCHANGED <<bracket, closed, liquidated>>
    BY <1>0, <1>3 DEF FillEntry
  <2>2. filled' = [filled EXCEPT ![i] = filled[i] + 1]
    BY <1>3 DEF FillEntry
  <2>3. filled[i] + 1 \in 0 .. Qty
    BY <2>1
  <2>4. filled' \in [Ids -> 0 .. Qty]
    BY <2>2, <2>3
  <2>5. order' = [order EXCEPT ![i] = IF filled[i] + 1 = Qty THEN "filled" ELSE "working"]
    BY <1>3 DEF FillEntry
  <2>6. BooksOK'
    BY <2>1, <2>4, <2>5 DEF OrderState, Landed
  <2>7. BooksBalance'
    <3> SUFFICES ASSUME NEW k \in Ids
                 PROVE  /\ closed[k] + liquidated[k] <= filled'[k]
                        /\ order'[k] \in {"none", "lost", "inflight", "rejected"} => filled'[k] = 0
                        /\ order'[k] = "working" => filled'[k] < Qty
      BY <2>1
    <3>1. CASE k = i
      <4>1. filled'[k] = filled[k] + 1 /\ closed[k] + liquidated[k] <= filled[k]
        BY <3>1, <2>2
      <4>2. order'[k] = IF filled[k] + 1 = Qty THEN "filled" ELSE "working"
        BY <3>1, <2>5
      <4> QED BY <3>1, <1>0, <2>1, <4>1, <4>2
    <3>2. CASE k # i
      BY <3>2, <2>2, <2>5
    <3> QED BY <3>1, <3>2
  <2> QED BY <2>6, <2>7, <1>3 DEF FillEntry, NotBooks
<1>4. ASSUME NEW i \in Ids, CancelEntry(i) PROVE UNCHANGED NotBooks /\ BooksOK' /\ BooksBalance'
  <2>1. BooksOK'
    BY <1>4 DEF CancelEntry, OrderState, Landed, Children
  <2>2. UNCHANGED <<filled, closed, liquidated>>
        /\ order'[i] = "canceled" /\ \A k \in Ids : k # i => order'[k] = order[k]
    BY <1>4 DEF CancelEntry
  <2>3. BooksBalance'
    BY <2>2
  <2> QED BY <2>1, <2>3, <1>4 DEF CancelEntry, NotBooks
<1>5. ASSUME NEW i \in Ids, ChildExit(i) PROVE UNCHANGED NotBooks /\ BooksOK' /\ BooksBalance'
  <2>1. closed[i] + Exposure(i) = filled[i] - liquidated[i] /\ filled[i] - liquidated[i] \in 0 .. Qty
    BY <1>0 DEF Exposure
  <2>2. closed' = [closed EXCEPT ![i] = filled[i] - liquidated[i]]
    BY <1>5, <2>1 DEF ChildExit
  <2>3. bracket' = [bracket EXCEPT ![i] = "filled"] /\ UNCHANGED <<order, filled, liquidated>>
    BY <1>5 DEF ChildExit
  <2>4. closed' \in [Ids -> 0 .. Qty]
    BY <2>1, <2>2
  <2>5. BooksOK'
    BY <2>3, <2>4 DEF Children
  <2>6. BooksBalance'
    BY <1>0, <2>1, <2>2, <2>3
  <2> QED BY <2>5, <2>6, <1>5 DEF ChildExit, NotBooks
<1>6. CASE ManualClose
  <2>1. \A k \in Ids : liquidated[k] + Exposure(k) = filled[k] - closed[k]
                      /\ filled[k] - closed[k] \in 0 .. Qty
    BY <1>0 DEF Exposure
  <2>2. liquidated' = [k \in Ids |-> filled[k] - closed[k]] /\ UNCHANGED <<filled, closed>>
    BY <1>6, <2>1 DEF ManualClose
  <2>3. liquidated' \in [Ids -> 0 .. Qty]
    BY <2>1, <2>2
  <2>4. order' \in [Ids -> OrderState] /\ bracket' \in [Ids -> Children]
    BY <1>6 DEF ManualClose, OrderState, Landed, Children
  <2>5. BooksOK'
    BY <2>2, <2>3, <2>4
  <2>6. \A k \in Ids : order'[k] = order[k] \/ order'[k] = "canceled"
    BY <1>6 DEF ManualClose
  <2>7. \A k \in Ids : closed[k] + liquidated'[k] <= filled[k]
    BY <1>0, <2>1, <2>2
  <2>8. BooksBalance'
    BY <2>2, <2>6, <2>7
  <2> QED BY <2>5, <2>8, <1>6 DEF ManualClose, NotBooks
<1> QED BY <1>1, <1>2, <1>3, <1>4, <1>5, <1>6 DEF Broker

(***************************************************************************)
(* What a step does to the records and the requests.                       *)
(***************************************************************************)
Reserves(i) ==
  /\ rec[i] = NoRecord /\ BlockingIds \subseteq {i}
  /\ rec' = [rec EXCEPT ![i] = "AMBIGUOUS"] /\ posts' = posts

Sends(i) ==
  /\ pc = "post" /\ cur = i
  /\ rec' = rec /\ posts' = [posts EXCEPT ![i] = @ + 1]

Moves(i) ==
  \E t \in Allowed(rec[i]) : rec' = [rec EXCEPT ![i] = t] /\ posts' = posts

RecordStep ==
  \/ UNCHANGED <<rec, posts>>
  \/ \E i \in Ids : Reserves(i) \/ Sends(i) \/ Moves(i)

OnlyMoves == UNCHANGED <<rec, posts>> \/ \E i \in Ids : Moves(i)

\* The types of the handler's and the process's variables.
ControlOK ==
  /\ open \in Ids \union {None} /\ latch \in BOOLEAN /\ phase \in {"starting", "serving"}
  /\ pc \in PcLabels /\ cur \in Ids \union {None}
  /\ (cur = None) = (pc = "idle")
  /\ unproven \subseteq Ids

\* The types of the recovery pass.
PassOK ==
  /\ rpc \in RpcLabels /\ todo \subseteq Ids /\ rid \in Ids \union {None}
  /\ (rid = None) = (rpc \in {"idle", "pick"})
  /\ seen \in Rows /\ ev \in Evidence /\ plan \in Seq(States \union {MARK})
  /\ quiet \in BOOLEAN /\ bootTrusted \in BOOLEAN /\ crashes \in 0 .. MaxCrashes

RecOK == rec \in [Ids -> Recorded]

PostsOK == posts \in [Ids -> Nat]

LEMMA TypeParts == TypeOK <=> RecOK /\ PostsOK /\ BooksOK /\ ControlOK /\ PassOK
BY DEF TypeOK, RecOK, PostsOK, BooksOK, ControlOK, PassOK, Recorded

LEMMA NoteMoves ==
  ASSUME RecOK, cur \in Ids, NEW new, Note(new), posts' = posts
  PROVE  UNCHANGED <<rec, posts>> \/ Moves(cur)
<1>1. PICK t \in NoteOutcomes(rec[cur], new) : rec' = [rec EXCEPT ![cur] = t]
  BY DEF Note
<1>2. rec[cur] \in Recorded
  BY DEF RecOK
<1>3. CASE t = rec[cur]
  BY <1>1, <1>3 DEF RecOK
<1>4. CASE t \in Allowed(rec[cur])
  BY <1>1, <1>4 DEF Moves
<1> QED BY <1>1, <1>2, <1>3, <1>4, NoteIsAllowed

LEMMA RecordStepTypes ==
  ASSUME RecOK, PostsOK, RecordStep
  PROVE  RecOK' /\ PostsOK'
<1>1. ASSUME NEW i \in Ids, Reserves(i) PROVE RecOK' /\ PostsOK'
  BY <1>1 DEF Reserves, RecOK, PostsOK, Recorded, States, Blocking
<1>2. ASSUME NEW i \in Ids, Sends(i) PROVE RecOK' /\ PostsOK'
  BY <1>2 DEF Sends, RecOK, PostsOK
<1>3. ASSUME NEW i \in Ids, Moves(i) PROVE RecOK' /\ PostsOK'
  <2>1. PICK t \in Allowed(rec[i]) : rec' = [rec EXCEPT ![i] = t] /\ posts' = posts
    BY <1>3 DEF Moves
  <2>2. t \in Recorded
    BY AllowedStates DEF RecOK, Recorded
  <2> QED BY <2>1, <2>2 DEF RecOK, PostsOK
<1>4. CASE UNCHANGED <<rec, posts>>
  BY <1>4 DEF RecOK, PostsOK
<1> QED BY <1>1, <1>2, <1>3, <1>4 DEF RecordStep

\* Every step of the handler keeps its own variables typed, leaves the pass
\* alone, and does one of these things to the records.
LEMMA HandlerControl ==
  ASSUME RecOK, ControlOK, Handler
  PROVE  ControlOK' /\ RecordStep /\ UNCHANGED <<recovery, quiet, bootTrusted, crashes>>
<1> DEFINE Goal == ControlOK' /\ RecordStep /\ UNCHANGED <<recovery, quiet, bootTrusted, crashes>>
<1> USE NoneAssumption
<1>0. pc # "idle" => cur \in Ids
  BY DEF ControlOK
<1>1. ASSUME NEW i \in Ids, Alert(i) PROVE Goal
  BY <1>1 DEF Alert, Stays, BrokerStays, BookStays, ControlOK, PcLabels, RecordStep
<1>2. CASE Guard
  <2>1. pc = "guard" /\ cur \in Ids
    BY <1>0, <1>2 DEF Guard
  <2>2. ControlOK'
    BY <1>2, <2>1 DEF Guard, Goto, Stays, BookStays, ControlOK, PcLabels
  <2>3. UNCHANGED rec \/ Reserves(cur)
    BY <1>2 DEF Guard, Reserves, MayReserve, FirstReservation, Unresolved
  <2> QED BY <1>2, <2>1, <2>2, <2>3 DEF Guard, Stays, RecordStep
<1>3. CASE Post
  <2>1. pc = "post" /\ cur \in Ids
    BY <1>0, <1>3 DEF Post
  <2>2. ControlOK'
    BY <1>3, <2>1 DEF Post, Goto, Stays, BookStays, ControlOK, PcLabels
  <2>3. Sends(cur)
    BY <1>3 DEF Post, Sends
  <2> QED BY <1>3, <2>1, <2>2, <2>3 DEF Post, Stays, RecordStep
<1>4. CASE Recheck
  BY <1>0, <1>4 DEF Recheck, Goto, Stays, BrokerStays, BookStays, ControlOK, PcLabels, RecordStep
<1>5. CASE PreSendError
  BY <1>0, <1>5 DEF PreSendError, Goto, Stays, BrokerStays, BookStays, ControlOK, PcLabels, RecordStep
<1>6. CASE BrokerTruth
  BY <1>0, <1>6 DEF BrokerTruth, Goto, Stays, BrokerStays, BookStays, ControlOK, PcLabels, RecordStep
<1>7. CASE ConfirmFilled
  BY <1>0, <1>7 DEF ConfirmFilled, Goto, Stays, BrokerStays, BookStays, ControlOK, PcLabels, RecordStep
<1>8. CASE CancelOso
  BY <1>0, <1>8 DEF CancelOso, Goto, Stays, BookStays, ControlOK, PcLabels, RecordStep
<1>9. CASE CancelRaced
  BY <1>0, <1>9 DEF CancelRaced, Goto, Stays, BrokerStays, BookStays, ControlOK, PcLabels, RecordStep
<1>10. CASE Flatten
  BY <1>0, <1>10 DEF Flatten, Goto, Stays, BookStays, ControlOK, PcLabels, RecordStep
<1>11. CASE Journal
  BY <1>0, <1>11 DEF Journal, Goto, Stays, BrokerStays, ControlOK, PcLabels, RecordStep
<1>12. CASE AckLost
  <2>1. cur \in Ids /\ posts' = posts
    BY <1>0, <1>12 DEF AckLost
  <2>2. ControlOK'
    BY <2>1, <1>12 DEF AckLost, UnansweredState, Goto, Stays, BrokerStays, BookStays, ControlOK, PcLabels
  <2>3. \E new : Note(new)
    BY <1>12 DEF AckLost
  <2>4. UNCHANGED <<rec, posts>> \/ Moves(cur)
    BY <2>1, <2>3, NoteMoves
  <2> QED BY <1>12, <2>1, <2>2, <2>4 DEF AckLost, Stays, RecordStep
<1>13. CASE AckReject
  <2>1. cur \in Ids /\ posts' = posts
    BY <1>0, <1>13 DEF AckReject
  <2>2. ControlOK'
    BY <2>1, <1>13 DEF AckReject, Goto, Stays, BrokerStays, BookStays, ControlOK, PcLabels
  <2>3. \E new : Note(new)
    BY <1>13 DEF AckReject
  <2>4. UNCHANGED <<rec, posts>> \/ Moves(cur)
    BY <2>1, <2>3, NoteMoves
  <2> QED BY <1>13, <2>1, <2>2, <2>4 DEF AckReject, Stays, RecordStep
<1>14. CASE AckAccept
  <2>1. cur \in Ids /\ posts' = posts
    BY <1>0, <1>14 DEF AckAccept
  <2>2. ControlOK'
    BY <2>1, <1>14 DEF AckAccept, Goto, Stays, BrokerStays, BookStays, ControlOK, PcLabels
  <2>3. \E new : Note(new)
    BY <1>14 DEF AckAccept
  <2>4. UNCHANGED <<rec, posts>> \/ Moves(cur)
    BY <2>1, <2>3, NoteMoves
  <2> QED BY <1>14, <2>1, <2>2, <2>4 DEF AckAccept, Stays, RecordStep
<1>15. CASE ConfirmDead
  <2>1. cur \in Ids /\ posts' = posts
    BY <1>0, <1>15 DEF ConfirmDead
  <2>2. ControlOK'
    BY <2>1, <1>15 DEF ConfirmDead, Goto, Stays, BrokerStays, BookStays, ControlOK, PcLabels
  <2>3. \E new : Note(new)
    BY <1>15 DEF ConfirmDead
  <2>4. UNCHANGED <<rec, posts>> \/ Moves(cur)
    BY <2>1, <2>3, NoteMoves
  <2> QED BY <1>15, <2>1, <2>2, <2>4 DEF ConfirmDead, Stays, RecordStep
<1>16. CASE CancelConfirmed
  <2>1. cur \in Ids /\ posts' = posts
    BY <1>0, <1>16 DEF CancelConfirmed
  <2>2. ControlOK'
    BY <2>1, <1>16 DEF CancelConfirmed, Goto, Stays, BrokerStays, BookStays, ControlOK, PcLabels
  <2>3. \E new : Note(new)
    BY <1>16 DEF CancelConfirmed
  <2>4. UNCHANGED <<rec, posts>> \/ Moves(cur)
    BY <2>1, <2>3, NoteMoves
  <2> QED BY <1>16, <2>1, <2>2, <2>4 DEF CancelConfirmed, Stays, RecordStep
<1>17. CASE Unconfirmed
  <2>1. cur \in Ids /\ posts' = posts
    BY <1>0, <1>17 DEF Unconfirmed
  <2>2. ControlOK'
    BY <2>1, <1>17 DEF Unconfirmed, Goto, Stays, BrokerStays, BookStays, ControlOK, PcLabels
  <2>3. \E new : Note(new)
    BY <1>17 DEF Unconfirmed
  <2>4. UNCHANGED <<rec, posts>> \/ Moves(cur)
    BY <2>1, <2>3, NoteMoves
  <2> QED BY <1>17, <2>1, <2>2, <2>4 DEF Unconfirmed, Stays, RecordStep
<1>18. CASE ConfirmFlat
  <2>1. cur \in Ids /\ posts' = posts
    BY <1>0, <1>18 DEF ConfirmFlat
  <2>2. ControlOK'
    BY <2>1, <1>18 DEF ConfirmFlat, Goto, Stays, BookStays, ControlOK, PcLabels
  <2>3. \E new : Note(new)
    BY <1>18 DEF ConfirmFlat
  <2>4. UNCHANGED <<rec, posts>> \/ Moves(cur)
    BY <2>1, <2>3, NoteMoves
  <2> QED BY <1>18, <2>1, <2>2, <2>4 DEF ConfirmFlat, Stays, RecordStep
<1>19. CASE Verified
  <2>1. cur \in Ids /\ posts' = posts
    BY <1>0, <1>19 DEF Verified
  <2>2. ControlOK'
    BY <2>1, <1>19 DEF Verified, Goto, Stays, BrokerStays, BookStays, ControlOK, PcLabels
  <2>3. \E new : Note(new)
    BY <1>19 DEF Verified
  <2>4. UNCHANGED <<rec, posts>> \/ Moves(cur)
    BY <2>1, <2>3, NoteMoves
  <2> QED BY <1>19, <2>1, <2>2, <2>4 DEF Verified, Stays, RecordStep
<1> QED BY <1>1, <1>2, <1>3, <1>4, <1>5, <1>6, <1>7, <1>8, <1>9, <1>10, <1>11, <1>12, <1>13, <1>14, <1>15, <1>16, <1>17, <1>18, <1>19 DEF Handler

LEMMA EvidenceTyped ==
  ASSUME BooksOK, seen \in Rows, NEW i \in Ids
  PROVE  Observed(i) \in Evidence
<1>1. /\ seen.status \in OrderStatus /\ seen.filled \in 0 .. Qty /\ seen.bracket \in Children
      /\ filled[i] \in 0 .. Qty
  BY DEF Rows, BooksOK
<1> QED BY <1>1 DEF Observed, Evidence

LEMMA ForgetTyped ==
  ASSUME NextId
  PROVE  rid' = None /\ rpc' = "pick" /\ seen' \in Rows /\ ev' \in Evidence /\ plan' = <<>> /\ quiet' = TRUE
BY EmptyRows DEF NextId, Forget, RecGoto

\* Every step of the pass keeps its variables typed, leaves the broker and the
\* handler alone, and makes at most an allowed transition of its record.
LEMMA RecoveryControl ==
  ASSUME RecOK, BooksOK, ControlOK, PassOK, Recovery
  PROVE  PassOK' /\ ControlOK' /\ OnlyMoves /\ UNCHANGED <<open, broker, handler, posts, crashes>>
<1> DEFINE Goal == PassOK' /\ ControlOK' /\ OnlyMoves
                   /\ UNCHANGED <<open, broker, handler, posts, crashes>>
<1> USE NoneAssumption
<1>1. ASSUME NEW readable \in BOOLEAN, RecList(readable) PROVE Goal
  <2>1. todo' \subseteq Ids
    BY <1>1 DEF RecList, Unresolved, BlockingIds
  <2>2. latch' \in BOOLEAN /\ bootTrusted' \in BOOLEAN
    BY <1>1 DEF RecList, StartupBlocks, ControlOK, PassOK
  <2>3. PassOK'
    BY <1>1, <2>1, <2>2 DEF RecList, RecGoto, OthersStay, PassOK, RpcLabels
  <2>4. ControlOK'
    BY <1>1, <2>2 DEF RecList, OthersStay, handler, ControlOK
  <2> QED BY <1>1, <2>3, <2>4 DEF RecList, OthersStay, OnlyMoves
<1>2. CASE RecEnd
  <2>1. PassOK'
    BY <1>2 DEF RecEnd, RecGoto, OthersStay, PassOK, RpcLabels
  <2>2. ControlOK'
    BY <1>2 DEF RecEnd, OthersStay, handler, ControlOK
  <2> QED BY <1>2, <2>1, <2>2 DEF RecEnd, OthersStay, OnlyMoves
<1>3. ASSUME NEW i \in Ids, RecReadOrders(i) PROVE Goal
  <2>1. seen' \in Rows
    <3>1. CASE order[i] \in Landed
      BY <1>3, <3>1 DEF RecReadOrders, Rows, BooksOK, Landed, OrderStatus
    <3>2. CASE order[i] \notin Landed
      BY <1>3, <3>2, EmptyRows DEF RecReadOrders
    <3> QED BY <3>1, <3>2
  <2>2. PassOK'
    BY <1>3, <2>1 DEF RecReadOrders, ReadOrders, RecGoto, RecPassStays, OthersStay, PassOK, RpcLabels
  <2>3. ControlOK'
    BY <1>3 DEF RecReadOrders, ReadOrders, RecPassStays, OthersStay, handler, ControlOK
  <2> QED BY <1>3, <2>2, <2>3 DEF RecReadOrders, ReadOrders, RecPassStays, OthersStay, OnlyMoves
<1>4. ASSUME NEW i \in Ids, RecOrdersUnread(i) PROVE Goal
  <2>2. PassOK'
    BY <1>4 DEF RecOrdersUnread, ReadOrders, RecGoto, RecPassStays, OthersStay, PassOK, RpcLabels
  <2>3. ControlOK'
    BY <1>4 DEF RecOrdersUnread, ReadOrders, RecPassStays, OthersStay, handler, ControlOK
  <2> QED BY <1>4, <2>2, <2>3 DEF RecOrdersUnread, ReadOrders, RecPassStays, OthersStay, OnlyMoves
<1>5. ASSUME NEW e \in Evidence, ReadAccount(e) PROVE Goal
  <2>1. seen' \in Rows
    BY <1>5, EmptyRows DEF ReadAccount
  <2>2. PassOK'
    BY <1>5, <2>1 DEF ReadAccount, RecGoto, RecPassStays, OthersStay, PassOK, RpcLabels
  <2>3. ControlOK'
    BY <1>5 DEF ReadAccount, RecPassStays, OthersStay, handler, ControlOK
  <2> QED BY <1>5, <2>2, <2>3 DEF ReadAccount, RecPassStays, OthersStay, OnlyMoves
<1>6. CASE RecReadAccount
  <2>1. rid \in Ids
    BY <1>6 DEF RecReadAccount, ReadAccount, PassOK
  <2>2. Observed(rid) \in Evidence
    BY <2>1, EvidenceTyped DEF PassOK
  <2> QED BY <1>5, <1>6, <2>2 DEF RecReadAccount
<1>7. CASE RecAccountUnread
  BY <1>5, <1>7, EmptyRows DEF RecAccountUnread
<1>8. CASE RecDecide
  <2>1. rid \in Ids
    BY <1>8 DEF RecDecide, PassOK
  <2>2. plan' \in Seq(States \union {MARK})
    BY <1>8, <2>1, PlanIsSequence DEF RecDecide, PassOK, RecOK
  <2>3. PassOK'
    BY <1>8, <2>2, EmptyRows DEF RecDecide, RecGoto, RecPassStays, OthersStay, PassOK, RpcLabels
  <2>4. ControlOK'
    BY <1>8 DEF RecDecide, RecPassStays, OthersStay, handler, ControlOK
  <2> QED BY <1>8, <2>3, <2>4 DEF RecDecide, RecPassStays, OthersStay, OnlyMoves
<1>9. CASE RecWrite
  <2>1. rid \in Ids /\ rpc = "write" /\ plan # <<>>
    BY <1>9 DEF RecWrite, PassOK
  <2>2. plan' \in Seq(States \union {MARK})
    BY <1>9, <2>1, HeadTailProperties DEF RecWrite, PassOK
  <2>3. PassOK'
    BY <1>9, <2>2 DEF RecWrite, RecPassStays, OthersStay, PassOK
  <2>4. ControlOK'
    BY <1>9, <2>1 DEF RecWrite, RecPassStays, OthersStay, handler, ControlOK
  <2>5. Wanted = rec[rid] \/ Wanted \in Allowed(rec[rid])
    BY <1>9 DEF RecWrite, WriteLegal, Wanted, Marked
  <2>6. UNCHANGED rec \/ \E t \in Allowed(rec[rid]) : rec' = [rec EXCEPT ![rid] = t]
    BY <1>9, <2>1, <2>5 DEF RecWrite, RecOK
  <2>7. posts' = posts
    BY <1>9 DEF RecWrite, RecPassStays, OthersStay
  <2>8. OnlyMoves
    BY <2>1, <2>6, <2>7 DEF OnlyMoves, Moves
  <2> QED BY <1>9, <2>3, <2>4, <2>8 DEF RecWrite, RecPassStays, OthersStay
<1>10. ASSUME NextId, RecPassStays, todo' \subseteq Ids, rec' = rec, unproven' = unproven PROVE Goal
  <2>1. plan' \in Seq(States \union {MARK})
    BY <1>10, ForgetTyped
  <2>2. PassOK'
    BY <1>10, <2>1, ForgetTyped DEF RecPassStays, OthersStay, PassOK, RpcLabels
  <2>3. ControlOK'
    BY <1>10 DEF RecPassStays, OthersStay, handler, ControlOK
  <2> QED BY <1>10, <2>2, <2>3 DEF RecPassStays, OthersStay, OnlyMoves
<1>11. CASE RecWriteFails
  BY <1>10, <1>11 DEF RecWriteFails, PassOK
<1>12. CASE RecDone
  BY <1>10, <1>12 DEF RecDone, PassOK
<1>13. CASE RecAbort
  <2>1. PassOK'
    BY <1>13 DEF RecAbort, RecGoto, RecPassStays, OthersStay, PassOK, RpcLabels
  <2>2. ControlOK'
    BY <1>13 DEF RecAbort, RecPassStays, OthersStay, handler, ControlOK
  <2> QED BY <1>13, <2>1, <2>2 DEF RecAbort, RecPassStays, OthersStay, OnlyMoves
<1> QED BY <1>1, <1>2, <1>3, <1>4, <1>6, <1>7, <1>8, <1>9, <1>11, <1>12, <1>13 DEF Recovery

\* A crash and the booking of the journal's trade leave the records alone.
LEMMA OtherControl ==
  ASSUME ControlOK, PassOK, Crash \/ ResolveOpen
  PROVE  ControlOK' /\ PassOK' /\ UNCHANGED <<rec, posts, broker, unproven>>
<1> USE NoneAssumption, CrashAssumption
<1>1. CASE Crash
  <2>1. plan' \in Seq(States \union {MARK}) /\ seen' \in Rows /\ ev' \in Evidence
    BY <1>1, EmptyRows DEF Crash
  <2>2. crashes' \in 0 .. MaxCrashes
    BY <1>1 DEF Crash, PassOK
  <2>3. PassOK'
    BY <1>1, <2>1, <2>2 DEF Crash, PassOK, RpcLabels
  <2>4. ControlOK'
    BY <1>1 DEF Crash, disk, ControlOK, PcLabels
  <2> QED BY <1>1, <2>3, <2>4 DEF Crash, disk
<1>2. CASE ResolveOpen
  BY <1>2 DEF ResolveOpen, ControlOK, PassOK, handler, recovery, history
<1> QED BY <1>1, <1>2

(***************************************************************************)
(* Sending once.                                                           *)
(***************************************************************************)
\* A request leaves at most once, after its record exists; until it has left
\* the broker knows nothing of it; the handler about to send has not sent.
SendInv ==
  \A i \in Ids :
    /\ posts[i] <= 1
    /\ rec[i] = NoRecord => posts[i] = 0
    /\ posts[i] = 0 => order[i] = "none"
    /\ (pc = "post" /\ cur = i) => posts[i] = 0 /\ rec[i] # NoRecord

\* An order the broker never saw stays unseen, except for the one being sent.
Unseen == \A i \in Ids : order[i] = "none" => (order'[i] = "none" \/ (pc = "post" /\ cur = i /\ Sends(i)))

LEMMA BrokerUnseen ==
  ASSUME BooksOK, Broker
  PROVE  Unseen
<1>1. ASSUME NEW i \in Ids, Land(i) \/ Lose(i) \/ FillEntry(i) \/ CancelEntry(i) \/ ChildExit(i)
      PROVE  Unseen
  BY <1>1 DEF Land, Lose, FillEntry, CancelEntry, ChildExit, Unseen, BooksOK
<1>2. CASE ManualClose
  BY <1>2 DEF ManualClose, Unseen
<1> QED BY <1>1, <1>2 DEF Broker

\* Steps of the handler keep the broker's books balanced.
LEMMA HandlerBalances ==
  ASSUME BooksOK, BooksBalance, SendInv, ControlOK, Handler
  PROVE  BooksOK' /\ BooksBalance' /\ Unseen
<1> DEFINE Goal == BooksOK' /\ BooksBalance' /\ Unseen
<1> USE QtyAssumption, NoneAssumption
<1>0. \A k \in Ids : /\ filled[k] \in 0 .. Qty /\ closed[k] \in 0 .. Qty
                    /\ liquidated[k] \in 0 .. Qty
                    /\ closed[k] + liquidated[k] <= filled[k]
  BY DEF BooksOK, BooksBalance
<1>1. CASE UNCHANGED broker
  BY <1>1 DEF broker, BooksOK, BooksBalance, Unseen
<1>2. CASE Post
  <2>1. pc = "post" /\ cur \in Ids /\ posts[cur] = 0 /\ order[cur] = "none"
    BY <1>2 DEF Post, ControlOK, SendInv
  <2>2. order' = [order EXCEPT ![cur] = "inflight"]
        /\ UNCHANGED <<filled, bracket, closed, liquidated>> /\ Sends(cur)
    BY <1>2 DEF Post, Sends
  <2>3. BooksOK'
    BY <2>2 DEF BooksOK, OrderState, Pending
  <2>4. filled[cur] = 0
    BY <2>1 DEF BooksBalance
  <2>5. BooksBalance'
    BY <2>2, <2>4 DEF BooksBalance, BooksOK
  <2>6. Unseen
    BY <2>1, <2>2 DEF Unseen, BooksOK
  <2> QED BY <2>3, <2>5, <2>6
\* Cancelling what works and killing what is armed changes no fill.
<1>3. ASSUME order' \in [Ids -> OrderState], bracket' \in [Ids -> Children],
             \A k \in Ids : order'[k] = order[k] \/ (order[k] = "working" /\ order'[k] = "canceled"),
             UNCHANGED <<filled, closed>>,
             liquidated' \in [Ids -> 0 .. Qty],
             \A k \in Ids : closed[k] + liquidated'[k] <= filled[k]
      PROVE  Goal
  <2>1. BooksOK'
    BY <1>3 DEF BooksOK
  <2>2. BooksBalance'
    BY <1>3 DEF BooksBalance
  <2>3. Unseen
    BY <1>3 DEF Unseen
  <2> QED BY <2>1, <2>2, <2>3
<1>4. CASE CancelOso
  <2>1. cur \in Ids /\ UNCHANGED <<filled, closed, liquidated>>
    BY <1>4 DEF CancelOso, ControlOK
  <2>2. order' = order \/ (order[cur] = "working" /\ order' = [order EXCEPT ![cur] = "canceled"])
    BY <1>4 DEF CancelOso
  <2>3. bracket' = bracket \/ bracket' = [bracket EXCEPT ![cur] = "dead"]
    BY <1>4 DEF CancelOso
  <2>4. order' \in [Ids -> OrderState] /\ bracket' \in [Ids -> Children]
    BY <2>1, <2>2, <2>3 DEF BooksOK, OrderState, Landed, Children
  <2>5. \A k \in Ids : order'[k] = order[k] \/ (order[k] = "working" /\ order'[k] = "canceled")
    BY <2>1, <2>2 DEF BooksOK
  <2>6. liquidated' \in [Ids -> 0 .. Qty]
    BY <2>1 DEF BooksOK
  <2> QED BY <1>0, <1>3, <2>1, <2>4, <2>5, <2>6
<1>5. CASE ConfirmFlat
  <2>1. cur \in Ids /\ UNCHANGED <<order, filled, closed, liquidated>>
    BY <1>5 DEF ConfirmFlat, ControlOK
  <2>2. bracket' \in [Ids -> Children]
    BY <1>5, <2>1 DEF ConfirmFlat, BooksOK, Children
  <2>3. order' \in [Ids -> OrderState] /\ liquidated' \in [Ids -> 0 .. Qty]
    BY <2>1 DEF BooksOK
  <2> QED BY <1>0, <1>3, <2>1, <2>2, <2>3
<1>6. CASE Flatten
  <2>1. UNCHANGED <<filled, closed>>
    BY <1>6 DEF Flatten
  <2>2. PICK entries, children \in SUBSET Ids :
          /\ order' = [k \in Ids |-> IF order[k] = "working" /\ k \in entries
                                     THEN "canceled" ELSE order[k]]
          /\ bracket' = [k \in Ids |-> IF bracket[k] = "armed" /\ k \in children
                                       THEN "dead" ELSE bracket[k]]
    BY <1>6 DEF Flatten
  <2>3. order' \in [Ids -> OrderState] /\ bracket' \in [Ids -> Children]
    BY <2>2 DEF BooksOK, OrderState, Landed, Children
  <2>4. \A k \in Ids : order'[k] = order[k] \/ (order[k] = "working" /\ order'[k] = "canceled")
    BY <2>2
  <2>5. \A k \in Ids : liquidated[k] + Exposure(k) = filled[k] - closed[k]
                      /\ filled[k] - closed[k] \in 0 .. Qty
    BY <1>0 DEF Exposure
  <2>6. UNCHANGED liquidated \/ liquidated' = [k \in Ids |-> filled[k] - closed[k]]
    BY <1>6, <2>5 DEF Flatten
  <2>7. liquidated' \in [Ids -> 0 .. Qty] /\ \A k \in Ids : closed[k] + liquidated'[k] <= filled[k]
    BY <1>0, <2>5, <2>6 DEF BooksOK
  <2> QED BY <1>3, <2>1, <2>3, <2>4, <2>7
<1>7. Handler => Post \/ CancelOso \/ ConfirmFlat \/ Flatten \/ UNCHANGED broker
  BY DEF Handler, Alert, Recheck, Guard, PreSendError, BrokerTruth, AckLost, AckReject, AckAccept, ConfirmDead, ConfirmFilled, CancelConfirmed, CancelRaced, Unconfirmed, Verified, Journal, BrokerStays
<1> QED BY <1>1, <1>2, <1>4, <1>5, <1>6, <1>7

\* The handler gets to the send only through a reservation of its own.
LEMMA PostReserved ==
  ASSUME Handler, pc' = "post"
  PROVE  Reserves(cur) /\ cur' = cur
<1>1. CASE Guard
  BY <1>1 DEF Guard, Goto, Reserves, MayReserve, FirstReservation, Unresolved
<1>2. ~Guard => pc' # "post"
  BY DEF Handler, Goto, CancelOso, ConfirmFlat, Flatten, Post, Alert, Recheck, PreSendError, BrokerTruth, AckLost, AckReject, AckAccept, ConfirmDead, ConfirmFilled, CancelConfirmed, CancelRaced, Unconfirmed, Verified, Journal
<1> QED BY <1>1, <1>2

TypeAndSend == TypeOK /\ BooksBalance /\ SendInv

LEMMA RecordStepSends ==
  ASSUME RecOK, PostsOK, SendInv, RecordStep, Unseen,
         pc' = "post" => cur' = cur /\ (Reserves(cur) \/ (pc = "post" /\ OnlyMoves))
  PROVE  SendInv'
<1> SUFFICES ASSUME NEW k \in Ids
             PROVE  /\ posts'[k] <= 1
                    /\ rec'[k] = NoRecord => posts'[k] = 0
                    /\ posts'[k] = 0 => order'[k] = "none"
                    /\ (pc' = "post" /\ cur' = k) => posts'[k] = 0 /\ rec'[k] # NoRecord
  BY DEF SendInv
<1>0. posts[k] \in Nat /\ posts[k] <= 1 /\ (rec[k] = NoRecord => posts[k] = 0)
      /\ (posts[k] = 0 => order[k] = "none")
      /\ ((pc = "post" /\ cur = k) => posts[k] = 0 /\ rec[k] # NoRecord)
  BY DEF PostsOK, SendInv
<1>1. \A i \in Ids : Moves(i) => /\ posts' = posts /\ (rec'[k] = NoRecord => rec[k] = NoRecord)
  <2> SUFFICES ASSUME NEW i \in Ids, Moves(i)
               PROVE  posts' = posts /\ (rec'[k] = NoRecord => rec[k] = NoRecord)
    OBVIOUS
  <2>1. PICK t \in Allowed(rec[i]) : rec' = [rec EXCEPT ![i] = t] /\ posts' = posts
    BY DEF Moves
  <2>2. t # NoRecord
    BY <2>1, AllowedStates DEF RecOK, NoRecord, States, Blocking, Terminal
  <2> QED BY <2>1, <2>2 DEF RecOK
<1>2. \A i \in Ids : Reserves(i) => /\ posts' = posts /\ posts[i] = 0 /\ rec'[i] # NoRecord
                                   /\ (rec'[k] = NoRecord => rec[k] = NoRecord)
  BY DEF Reserves, SendInv, RecOK, NoRecord
<1>3. \A i \in Ids : Sends(i) => /\ rec' = rec /\ posts[i] = 0 /\ rec[i] # NoRecord
                                /\ posts'[k] = (IF k = i THEN 1 ELSE posts[k])
  BY DEF Sends, SendInv, PostsOK
<1>4. posts'[k] <= 1
  BY <1>0, <1>1, <1>2, <1>3 DEF RecordStep
<1>5. rec'[k] = NoRecord => posts'[k] = 0
  BY <1>0, <1>1, <1>2, <1>3 DEF RecordStep
<1>6. posts'[k] = 0 => order'[k] = "none"
  <2>1. posts'[k] = 0 => posts[k] = 0 /\ ~(cur = k /\ Sends(k))
    BY <1>0, <1>1, <1>2, <1>3 DEF RecordStep
  <2> QED BY <1>0, <2>1 DEF Unseen
<1>7. (pc' = "post" /\ cur' = k) => posts'[k] = 0 /\ rec'[k] # NoRecord
  BY <1>0, <1>1, <1>2 DEF OnlyMoves
<1> QED BY <1>4, <1>5, <1>6, <1>7

\* The inductive invariant of the types and the sends.
Parts == RecOK /\ PostsOK /\ BooksOK /\ ControlOK /\ PassOK /\ BooksBalance /\ SendInv

LEMMA PartsStep ==
  ASSUME Parts, [Next]_vars
  PROVE  Parts' /\ RecordStep
<1>0. RecOK /\ PostsOK /\ BooksOK /\ ControlOK /\ PassOK /\ BooksBalance /\ SendInv
  BY DEF Parts
<1>1. CASE Broker
  <2>1. UNCHANGED NotBooks /\ BooksOK' /\ BooksBalance'
    BY <1>0, <1>1, BrokerBalances
  <2>2. RecOK' /\ PostsOK' /\ ControlOK' /\ PassOK' /\ UNCHANGED <<rec, posts, pc, cur>>
    BY <1>0, <2>1 DEF NotBooks, disk, handler, recovery, history, RecOK, PostsOK, ControlOK, PassOK
  <2>3. RecordStep /\ OnlyMoves /\ Unseen
    BY <1>0, <1>1, <2>2, BrokerUnseen DEF RecordStep, OnlyMoves
  <2>4. SendInv'
    BY <1>0, <2>2, <2>3, RecordStepSends
  <2> QED BY <2>1, <2>2, <2>3, <2>4 DEF Parts
<1>2. CASE Handler
  <2>1. ControlOK' /\ RecordStep /\ UNCHANGED <<recovery, quiet, bootTrusted, crashes>>
    BY <1>0, <1>2, HandlerControl
  <2>2. RecOK' /\ PostsOK'
    BY <1>0, <2>1, RecordStepTypes
  <2>3. PassOK'
    BY <1>0, <2>1 DEF PassOK, recovery
  <2>4. BooksOK' /\ BooksBalance' /\ Unseen
    BY <1>0, <1>2, HandlerBalances
  <2>5. pc' = "post" => Reserves(cur) /\ cur' = cur
    BY <1>2, PostReserved
  <2>6. SendInv'
    BY <1>0, <2>1, <2>4, <2>5, RecordStepSends
  <2> QED BY <2>1, <2>2, <2>3, <2>4, <2>6 DEF Parts
<1>3. CASE Recovery
  <2>1. PassOK' /\ ControlOK' /\ OnlyMoves /\ UNCHANGED <<open, broker, handler, posts, crashes>>
    BY <1>0, <1>3, RecoveryControl
  <2>2. RecordStep /\ UNCHANGED <<pc, cur>>
    BY <2>1 DEF RecordStep, OnlyMoves, handler
  <2>3. RecOK' /\ PostsOK'
    BY <1>0, <2>2, RecordStepTypes
  <2>4. BooksOK' /\ BooksBalance' /\ Unseen
    BY <1>0, <2>1 DEF broker, BooksOK, BooksBalance, Unseen
  <2>5. SendInv'
    BY <1>0, <2>1, <2>2, <2>4, RecordStepSends
  <2> QED BY <2>1, <2>2, <2>3, <2>4, <2>5 DEF Parts
<1>4. CASE Crash \/ ResolveOpen
  <2>1. ControlOK' /\ PassOK' /\ UNCHANGED <<rec, posts, broker, unproven>>
    BY <1>0, <1>4, OtherControl
  <2>2. RecOK' /\ PostsOK' /\ BooksOK' /\ BooksBalance' /\ RecordStep
    BY <1>0, <2>1 DEF broker, RecOK, PostsOK, BooksOK, BooksBalance, RecordStep
  <2>3. pc' = "post" => UNCHANGED <<pc, cur>>
    BY <1>4 DEF Crash, ResolveOpen, handler
  <2>4. SendInv'
    BY <1>0, <2>1, <2>3 DEF SendInv, broker
  <2> QED BY <2>1, <2>2, <2>4 DEF Parts
<1>5. CASE UNCHANGED vars
  <2>1. UNCHANGED <<disk, broker, phase, latch, handler, recovery, history>>
    BY <1>5 DEF vars
  <2>2. RecOK' /\ PostsOK' /\ BooksOK' /\ BooksBalance' /\ RecordStep
    BY <1>0, <2>1 DEF disk, broker, history, RecOK, PostsOK, BooksOK, BooksBalance, RecordStep
  <2>3. ControlOK' /\ PassOK'
    BY <1>0, <2>1 DEF disk, handler, recovery, history, ControlOK, PassOK
  <2>4. SendInv'
    BY <1>0, <2>1 DEF disk, broker, handler, history, SendInv
  <2> QED BY <2>2, <2>3, <2>4 DEF Parts
<1> QED BY <1>1, <1>2, <1>3, <1>4, <1>5 DEF Next

LEMMA TypeAndSendStep ==
  ASSUME TypeAndSend, [Next]_vars
  PROVE  TypeAndSend' /\ RecordStep
<1>1. Parts
  BY TypeParts DEF TypeAndSend, Parts
<1>2. Parts' /\ RecordStep
  BY <1>1, PartsStep
<1>3. TypeOK'
  <2>1. RecOK' /\ PostsOK' /\ BooksOK' /\ ControlOK' /\ PassOK'
    BY <1>2 DEF Parts
  <2> QED BY <2>1 DEF TypeOK, RecOK, PostsOK, BooksOK, ControlOK, PassOK, Recorded
<1> QED BY <1>2, <1>3 DEF TypeAndSend, Parts

LEMMA TypeAndSendInit == Init => TypeAndSend
<1> SUFFICES ASSUME Init PROVE TypeAndSend
  OBVIOUS
<1>1. SendInv
  BY DEF Init, SendInv
<1> QED BY <1>1, TypeInit DEF TypeAndSend

\* Every variable keeps its type.
THEOREM TypeCorrect == Spec => []TypeOK
<1>1. Init => TypeAndSend
  BY TypeAndSendInit
<1>2. TypeAndSend /\ [Next]_vars => TypeAndSend'
  BY TypeAndSendStep
<1>3. TypeAndSend => TypeOK
  BY DEF TypeAndSend
<1> QED BY <1>1, <1>2, <1>3, PTL DEF Spec

\* No order id is sent twice, whatever crashes, however often the signal is
\* presented again, and whatever the recovery pass writes meanwhile.
THEOREM SentOnce == Spec => []SendOnce
<1>1. Init => TypeAndSend
  BY TypeAndSendInit
<1>2. TypeAndSend /\ [Next]_vars => TypeAndSend'
  BY TypeAndSendStep
<1>3. TypeAndSend => SendOnce
  BY DEF TypeAndSend, SendInv, SendOnce
<1> QED BY <1>1, <1>2, <1>3, PTL DEF Spec

(***************************************************************************)
(* One unresolved submission.                                              *)
(***************************************************************************)
LEMMA OneUnresolvedStep ==
  ASSUME RecOK, OneUnresolved, RecordStep
  PROVE  OneUnresolved'
<1>1. CASE UNCHANGED <<rec, posts>>
  BY <1>1 DEF OneUnresolved, BlockingIds
<1>2. ASSUME NEW i \in Ids, Reserves(i) PROVE OneUnresolved'
  <2>1. BlockingIds' \subseteq {i}
    BY <1>2 DEF Reserves, BlockingIds, RecOK
  <2> QED BY <2>1 DEF OneUnresolved
<1>3. ASSUME NEW i \in Ids, Sends(i) PROVE OneUnresolved'
  BY <1>3 DEF Sends, OneUnresolved, BlockingIds
<1>4. ASSUME NEW i \in Ids, Moves(i) PROVE OneUnresolved'
  <2>1. PICK t \in Allowed(rec[i]) : rec' = [rec EXCEPT ![i] = t]
    BY <1>4 DEF Moves
  <2>2. rec[i] \notin Blocking => t \notin Blocking
    BY <2>1, NeverReblocks DEF RecOK
  <2>3. BlockingIds' \subseteq BlockingIds
    BY <2>1, <2>2 DEF BlockingIds, RecOK
  <2> QED BY <2>3 DEF OneUnresolved
<1> QED BY <1>1, <1>2, <1>3, <1>4 DEF RecordStep

\* At most one submission is unresolved at any time.
THEOREM NeverTwoUnresolved == Spec => []OneUnresolved
<1> DEFINE Inv == TypeAndSend /\ OneUnresolved
<1>1. Init => Inv
  <2>1. Init => OneUnresolved
    BY DEF Init, OneUnresolved, BlockingIds, Blocking, NoRecord
  <2> QED BY <2>1, TypeAndSendInit
<1>2. Inv /\ [Next]_vars => Inv'
  BY TypeAndSendStep, OneUnresolvedStep, TypeParts DEF TypeAndSend
<1>3. Inv => OneUnresolved
  OBVIOUS
<1> QED BY <1>1, <1>2, <1>3, PTL DEF Spec

(***************************************************************************)
(* The lifecycle.                                                          *)
(***************************************************************************)
StageOf == [i \in Ids |-> Stage(rec[i])]
SentIds == {i \in Ids : posts[i] > 0}

\* What a record's stage can be, and when.
LEMMA Stages ==
  ASSUME NEW s \in Recorded
  PROVE  /\ Stage(s) = "new" <=> s = NoRecord
         /\ Stage(s) = "unresolved" <=> s \in Blocking
         /\ Stage(s) = "held" <=> s = "OPEN"
         /\ Stage(s) = "closed" <=> s \in Terminal
BY DEF Recorded, States, Blocking, Terminal, NoRecord, Stage

\* An allowed transition keeps the stage or resolves the record.
LEMMA TransitionResolves ==
  ASSUME NEW s \in Recorded, NEW t \in Allowed(s)
  PROVE  \/ Stage(t) = Stage(s)
         \/ Stage(s) = "unresolved" /\ Stage(t) \in {"held", "closed"}
         \/ Stage(s) = "held" /\ Stage(t) = "closed"
BY DEF Recorded, States, Blocking, Terminal, NoRecord, Allowed, Transitions, Stage

LEMMA LifecycleStep ==
  ASSUME RecOK, PostsOK, SendInv, RecordStep, PostsOK'
  PROVE  [Lifecycle!Next]_(Lifecycle!vars)
<1> DEFINE New == [Lifecycle!Next]_(Lifecycle!vars)
<1>1. CASE UNCHANGED <<rec, posts>>
  BY <1>1 DEF Lifecycle!vars
<1>2. ASSUME NEW i \in Ids, Reserves(i) PROVE New
  <2>1. StageOf[i] = "new" /\ \A k \in Ids : StageOf[k] # "unresolved"
    BY <1>2, Stages DEF Reserves, BlockingIds, RecOK, StageOf, Stage, NoRecord, Blocking
  <2>2. StageOf' = [StageOf EXCEPT ![i] = "unresolved"]
    BY <1>2 DEF Reserves, RecOK, StageOf, Stage, NoRecord, Blocking
  <2>3. SentIds' = SentIds
    BY <1>2 DEF Reserves, SentIds
  <2>4. Lifecycle!Reserve(i)
    BY <2>1, <2>2, <2>3 DEF Lifecycle!Reserve, StageOf, SentIds
  <2> QED BY <2>4 DEF Lifecycle!Next
<1>3. ASSUME NEW i \in Ids, Sends(i) PROVE New
  <2>1. rec[i] # NoRecord /\ posts[i] = 0 /\ rec' = rec
    BY <1>3 DEF Sends, SendInv
  <2>2. StageOf[i] # "new" /\ i \notin SentIds
    BY <2>1, Stages DEF StageOf, SentIds, RecOK
  <2>3. SentIds' = SentIds \union {i}
    BY <1>3, <2>1 DEF Sends, SentIds, PostsOK
  <2>4. StageOf' = StageOf
    BY <2>1 DEF StageOf
  <2>5. Lifecycle!Send(i)
    BY <2>2, <2>3, <2>4 DEF Lifecycle!Send, StageOf, SentIds
  <2> QED BY <2>5 DEF Lifecycle!Next
<1>4. ASSUME NEW i \in Ids, Moves(i) PROVE New
  <2>1. PICK t \in Allowed(rec[i]) : rec' = [rec EXCEPT ![i] = t] /\ posts' = posts
    BY <1>4 DEF Moves
  <2>2. StageOf' = [StageOf EXCEPT ![i] = Stage(t)] /\ SentIds' = SentIds
    BY <2>1 DEF RecOK, StageOf, SentIds
  <2>3. \/ Stage(t) = StageOf[i]
        \/ StageOf[i] = "unresolved" /\ Stage(t) \in {"held", "closed"}
        \/ StageOf[i] = "held" /\ Stage(t) = "closed"
    BY <2>1, TransitionResolves DEF RecOK, StageOf
  <2>4. CASE Stage(t) = StageOf[i]
    <3>1. StageOf' = StageOf
      BY <2>2, <2>4 DEF StageOf
    <3> QED BY <2>2, <3>1 DEF Lifecycle!vars, StageOf, SentIds
  <2>5. CASE Stage(t) # StageOf[i]
    <3>1. Lifecycle!Resolve(i)
      BY <2>2, <2>3, <2>5 DEF Lifecycle!Resolve, StageOf, SentIds
    <3> QED BY <3>1 DEF Lifecycle!Next
  <2> QED BY <2>4, <2>5
<1> QED BY <1>1, <1>2, <1>3, <1>4 DEF RecordStep

\* The system implements the lifecycle: a signal is reserved before it is sent,
\* is sent once, is reserved only while nothing is unresolved, and a resolved
\* one never blocks again.
THEOREM SystemImplementsLifecycle == Spec => ImplementsLifecycle
<1>1. Init => Lifecycle!Init
  <2> SUFFICES ASSUME Init PROVE Lifecycle!Init
    OBVIOUS
  <2>1. StageOf = [i \in Ids |-> "new"]
    BY DEF Init, StageOf, Stage
  <2>2. SentIds = {}
    BY DEF Init, SentIds
  <2> QED BY <2>1, <2>2 DEF Lifecycle!Init, StageOf, SentIds
<1>2. TypeAndSend /\ TypeAndSend' /\ [Next]_vars => [Lifecycle!Next]_(Lifecycle!vars)
  BY TypeAndSendStep, LifecycleStep, TypeParts DEF TypeAndSend, TypeOK, PostsOK
<1>3. Init => TypeAndSend
  BY TypeAndSendInit
<1>4. TypeAndSend /\ [Next]_vars => TypeAndSend'
  BY TypeAndSendStep
<1> QED BY <1>1, <1>2, <1>3, <1>4, PTL DEF Spec, ImplementsLifecycle, Lifecycle!Spec

(***************************************************************************)
(* One trade at a time.                                                    *)
(***************************************************************************)
\* A handler at work found no trade open and entries not latched; it is the only
\* one to open a trade, and nobody latches entries under it.
SoloInv ==
  /\ pc # "idle" => open = None /\ ~latch
  /\ phase = "starting" => pc = "idle"

LEMMA SoloInit == Init => SoloInv
BY DEF Init, SoloInv

\* A step of the handler leaves the trade and the latch alone, or is its last.
LEMMA HandlerSolo ==
  Handler => /\ UNCHANGED phase
             /\ UNCHANGED <<open, latch>> \/ pc' = "idle"
             /\ pc = "idle" => open = None /\ ~latch /\ phase = "serving"
<1> SUFFICES ASSUME Handler
             PROVE  /\ UNCHANGED phase
                    /\ UNCHANGED <<open, latch>> \/ pc' = "idle"
                    /\ pc = "idle" => open = None /\ ~latch /\ phase = "serving"
  OBVIOUS
<1>1. ASSUME NEW i \in Ids, Alert(i)
      PROVE  /\ UNCHANGED <<phase, open, latch>>
             /\ open = None /\ ~latch /\ phase = "serving"
  BY <1>1 DEF Alert, Stays, BookStays
<1>2. CASE Journal
  BY <1>2 DEF Journal, Goto, Stays
<1>3. CASE Recheck \/ Guard \/ PreSendError \/ BrokerTruth \/ Post \/ AckLost \/ AckReject
           \/ AckAccept \/ ConfirmDead \/ ConfirmFilled \/ CancelOso \/ CancelConfirmed
           \/ CancelRaced \/ Unconfirmed \/ ConfirmFlat \/ Verified \/ Flatten
  <2>1. pc # "idle"
    BY <1>3 DEF Recheck, Guard, PreSendError, BrokerTruth, Post, AckLost, AckReject, AckAccept,
       ConfirmDead, ConfirmFilled, CancelOso, CancelConfirmed, CancelRaced, Unconfirmed,
       ConfirmFlat, Verified, Flatten
  <2>2. UNCHANGED <<phase, open, latch>>
    BY <1>3 DEF Recheck, Guard, PreSendError, BrokerTruth, Post, AckLost, AckReject, AckAccept,
       ConfirmDead, ConfirmFilled, CancelOso, CancelConfirmed, CancelRaced, Unconfirmed,
       ConfirmFlat, Verified, Flatten, Stays, BookStays
  <2> QED BY <2>1, <2>2
<1> QED BY <1>1, <1>2, <1>3 DEF Handler

LEMMA SoloNext == SoloInv /\ [Next]_vars => SoloInv'
<1> SUFFICES ASSUME SoloInv, [Next]_vars PROVE SoloInv'
  OBVIOUS
<1> USE DEF SoloInv
<1>1. CASE Broker
  BY <1>1 DEF Broker, Land, Lose, FillEntry, CancelEntry, ChildExit, ManualClose, disk, handler
<1>2. CASE Handler
  BY <1>2, HandlerSolo
<1>3. CASE Recovery
  <2>1. UNCHANGED <<open, pc>>
    BY <1>3 DEF Recovery, RecList, RecReadOrders, RecOrdersUnread, ReadOrders, RecAbort,
       RecReadAccount, RecAccountUnread, ReadAccount, RecDecide, RecWrite, RecWriteFails,
       RecDone, RecEnd, RecPassStays, OthersStay, handler
  <2>2. phase' \in {phase, "serving"}
    BY <1>3 DEF Recovery, RecList, RecReadOrders, RecOrdersUnread, ReadOrders, RecAbort,
       RecReadAccount, RecAccountUnread, ReadAccount, RecDecide, RecWrite, RecWriteFails,
       RecDone, RecEnd, RecPassStays, OthersStay
  <2>3. latch' = latch \/ phase = "starting"
    BY <1>3 DEF Recovery, RecList, RecReadOrders, RecOrdersUnread, ReadOrders, RecAbort,
       RecReadAccount, RecAccountUnread, ReadAccount, RecDecide, RecWrite, RecWriteFails,
       RecDone, RecEnd, RecPassStays, OthersStay
  <2> QED BY <2>1, <2>2, <2>3
<1>4. CASE Crash
  BY <1>4 DEF Crash
<1>5. CASE ResolveOpen
  BY <1>5 DEF ResolveOpen, handler
<1>6. CASE UNCHANGED vars
  BY <1>6 DEF vars, disk, handler
<1> QED BY <1>1, <1>2, <1>3, <1>4, <1>5, <1>6 DEF Next

\* Who but the handler, at its send and at its row, sends or opens a trade.
LEMMA SendsAndOpens ==
  ASSUME [Next]_vars
  PROVE  /\ posts' # posts => pc = "post"
         /\ open' \notin {open, None} => pc = "journal"
<1>1. CASE Broker
  BY <1>1 DEF Broker, Land, Lose, FillEntry, CancelEntry, ChildExit, ManualClose, disk, history
<1>2. CASE Handler
  BY <1>2 DEF Handler, Alert, Recheck, Guard, PreSendError, BrokerTruth, Post, AckLost,
     AckReject, AckAccept, ConfirmDead, ConfirmFilled, CancelOso, CancelConfirmed, CancelRaced,
     Unconfirmed, ConfirmFlat, Verified, Flatten, Journal, BookStays
<1>3. CASE Recovery
  BY <1>3 DEF Recovery, RecList, RecReadOrders, RecOrdersUnread, ReadOrders, RecAbort,
     RecReadAccount, RecAccountUnread, ReadAccount, RecDecide, RecWrite, RecWriteFails,
     RecDone, RecEnd, RecPassStays, OthersStay
<1>4. CASE Crash \/ ResolveOpen
  BY <1>4 DEF Crash, ResolveOpen, disk, history
<1>5. CASE UNCHANGED vars
  BY <1>5 DEF vars, disk, history
<1> QED BY <1>1, <1>2, <1>3, <1>4, <1>5 DEF Next

\* A request leaves only while the journal shows no trade open and entries are
\* not latched, although both were looked at many broker calls earlier: a process
\* that found anything unresolved when it started, or that could not write a
\* TRADE row, sends nothing for the rest of its life.
THEOREM EntryIsAlone == Spec => [][posts' # posts => open = None /\ ~latch]_vars
<1>1. SoloInv /\ [Next]_vars => [posts' # posts => open = None /\ ~latch]_vars
  BY SendsAndOpens DEF SoloInv
<1> QED BY SoloInit, SoloNext, <1>1, PTL DEF Spec

\* No TRADE row is written while the journal shows another trade open: an open
\* trade runs its course (OpenTrade) with no other entry beside it.
THEOREM TradesDoNotOverlap == Spec => [][open' \notin {open, None} => open = None]_vars
<1>1. SoloInv /\ [Next]_vars => [open' \notin {open, None} => open = None]_vars
  BY SendsAndOpens DEF SoloInv
<1> QED BY SoloInit, SoloNext, <1>1, PTL DEF Spec
=============================================================================
