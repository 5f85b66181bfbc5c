--------------------------- MODULE OrderSubmission ---------------------------
(***************************************************************************)
(* Live order submission: the alert handler that sends bracket orders, the *)
(* recovery pass that resolves records nobody confirmed, the durable       *)
(* record store between them, the broker, and restarts of the process.     *)
(*                                                                         *)
(* The alert handler (webhook/runner.py, TradovateBroker.execute_bracket)  *)
(* runs one alert at a time under a lock.  The recovery pass               *)
(* (webhook/reconciler.py) runs in a thread of its own and does not take   *)
(* that lock, so its reads and writes interleave with the handler's.       *)
(* One instrument and direction; the account's position is the sum of what *)
(* every order filled and nobody closed.                                   *)
(***************************************************************************)
EXTENDS SubmissionStore, Integers, FiniteSets, Functions

CONSTANTS
  Ids,          \* client order ids, one per signal
  None,         \* no id
  MaxCrashes    \* bound on process restarts after a crash

ASSUME NoneAssumption  == None \notin Ids
ASSUME CrashAssumption == MaxCrashes \in Nat

VARIABLES
  \* durable, on disk
  rec,          \* submission record of each id, or NoRecord
  open,         \* the id the journal shows open, or None
  \* the broker
  order,        \* parent order of each id
  filled,       \* contracts it filled
  bracket,      \* its protective children
  closed,       \* contracts its children closed
  liquidated,   \* contracts closed by anything else
  \* the process
  phase,        \* "starting" until the lifespan's recovery pass has ended
  latch,        \* entries are blocked for the rest of this process
  pc, cur,      \* alert handler: where it is, and the id it is sending
  rpc, todo, rid, seen, ev, plan,   \* recovery pass
  \* history
  posts,        \* placeOSO requests sent for each id
  quiet,        \* the pass read rid while nobody was sending it
  unproven,     \* ids whose record was closed on evidence that proves nothing
  bootTrusted,  \* the store was readable when this process read it at startup
  crashes

disk     == <<rec, open>>
broker   == <<order, filled, bracket, closed, liquidated>>
handler  == <<pc, cur>>
recovery == <<rpc, todo, rid, seen, ev, plan>>
history  == <<posts, quiet, unproven, bootTrusted, crashes>>
vars     == <<disk, broker, phase, latch, handler, recovery, history>>

Pending    == {"inflight"}
Landed     == {"working", "filled", "canceled", "rejected"}
OrderState == {"none", "lost"} \union Pending \union Landed
Children   == {"none", "armed", "filled", "dead"}

NoRow      == [status |-> "none", filled |-> 0, bracket |-> "none"]
NoEvidence == [error |-> TRUE, absent |-> FALSE, status |-> "none", filled |-> 0,
               linked |-> FALSE, protected |-> FALSE, closed |-> FALSE]

Init ==
  /\ rec = [i \in Ids |-> NoRecord] /\ open = None
  /\ order = [i \in Ids |-> "none"]
  /\ filled = [i \in Ids |-> 0]
  /\ bracket = [i \in Ids |-> "none"]
  /\ closed = [i \in Ids |-> 0]
  /\ liquidated = [i \in Ids |-> 0]
  /\ phase = "starting" /\ latch = FALSE
  /\ pc = "idle" /\ cur = None
  /\ rpc = "idle" /\ todo = {} /\ rid = None
  /\ seen = NoRow /\ ev = NoEvidence /\ plan = <<>>
  /\ posts = [i \in Ids |-> 0] /\ quiet = TRUE /\ unproven = {}
  /\ bootTrusted = TRUE /\ crashes = 0

(***************************************************************************)
(* What the broker holds.                                                  *)
(***************************************************************************)
Exposure(i)  == filled[i] - closed[i] - liquidated[i]
\* The account nets every order of the instrument into one position; all of one
\* direction, they leave it flat only when none is held.
NetPosition  == FoldFunction(+, 0, [i \in Ids |-> Exposure(i)])
Flat         == \A i \in Ids : Exposure(i) = 0
\* An order or a protective child the broker would list as not terminal.
ListedLive(i) == order[i] = "working" \/ bracket[i] = "armed"
BlockingIds   == {i \in Ids : rec[i] \in Blocking}

(***************************************************************************)
(* Broker steps (external).  A request sent may arrive late or never.      *)
(***************************************************************************)
Land(i) ==
  /\ order[i] = "inflight"
  /\ \/ /\ order' = [order EXCEPT ![i] = "rejected"]
        /\ UNCHANGED bracket
     \/ /\ order' = [order EXCEPT ![i] = "working"]
        /\ \E c \in {"armed", "dead"} : bracket' = [bracket EXCEPT ![i] = c]
  /\ UNCHANGED <<disk, filled, closed, liquidated, phase, latch, handler, recovery, history>>

Lose(i) ==
  /\ order[i] = "inflight"
  /\ order' = [order EXCEPT ![i] = "lost"]
  /\ UNCHANGED <<disk, filled, bracket, closed, liquidated, phase, latch, handler,
                 recovery, history>>

FillEntry(i) ==
  /\ order[i] = "working"
  /\ filled' = [filled EXCEPT ![i] = @ + 1]
  /\ order' = [order EXCEPT ![i] = IF filled[i] + 1 = Qty THEN "filled" ELSE "working"]
  /\ UNCHANGED <<disk, bracket, closed, liquidated, phase, latch, handler, recovery, history>>

\* An IOC remainder expiring, or a cancel taking effect.
CancelEntry(i) ==
  /\ order[i] = "working"
  /\ order' = [order EXCEPT ![i] = "canceled"]
  /\ bracket' = [bracket EXCEPT ![i] = IF filled[i] = 0 THEN "dead" ELSE @]
  /\ UNCHANGED <<disk, filled, closed, liquidated, phase, latch, handler, recovery, history>>

ChildExit(i) ==
  /\ order[i] \in {"filled", "canceled"} /\ bracket[i] = "armed" /\ Exposure(i) > 0
  /\ bracket' = [bracket EXCEPT ![i] = "filled"]
  /\ closed' = [closed EXCEPT ![i] = @ + Exposure(i)]
  /\ UNCHANGED <<disk, order, filled, liquidated, phase, latch, handler, recovery, history>>

\* The operator closes the account by hand; nothing of it stays working.
ManualClose ==
  /\ ~Flat
  /\ liquidated' = [i \in Ids |-> liquidated[i] + Exposure(i)]
  /\ bracket' = [i \in Ids |-> IF bracket[i] = "armed" /\ order[i] \in Landed
                               THEN "dead" ELSE bracket[i]]
  /\ order' = [i \in Ids |-> IF order[i] = "working" THEN "canceled" ELSE order[i]]
  /\ UNCHANGED <<disk, filled, closed, phase, latch, handler, recovery, history>>

(***************************************************************************)
(* The process, and the journal's open trade.                              *)
(***************************************************************************)
\* The process dies anywhere; a new one starts with a clear gate.
Crash ==
  /\ crashes < MaxCrashes /\ crashes' = crashes + 1
  /\ phase' = "starting" /\ latch' = FALSE
  /\ pc' = "idle" /\ cur' = None
  /\ rpc' = "idle" /\ todo' = {} /\ rid' = None
  /\ seen' = NoRow /\ ev' = NoEvidence /\ plan' = <<>>
  /\ quiet' = TRUE /\ bootTrusted' = TRUE
  /\ UNCHANGED <<disk, broker, posts, unproven>>

\* The journal's open trade is booked once the account is read flat.  The sweep
\* looks for live orders only before it clears a phantom of its own day: a row of
\* an earlier day, or a bar that matches a fill by its price, is booked without.
ResolveOpen ==
  /\ phase = "serving" /\ open # None /\ Flat
  /\ open' = None
  /\ UNCHANGED <<rec, broker, phase, latch, handler, recovery, history>>

(***************************************************************************)
(* The alert handler.                                                      *)
(***************************************************************************)
\* Where the handler goes next; every handler step leaves the rest to others.
Goto(label)   == pc' = label /\ cur' = IF label = "idle" THEN None ELSE cur
Stays         == UNCHANGED <<phase, recovery, quiet, bootTrusted, crashes>>
BrokerStays   == UNCHANGED broker
BookStays     == UNCHANGED <<open, latch>>
Note(new)     == rec' \in {[rec EXCEPT ![cur] = s] : s \in NoteOutcomes(rec[cur], new)}

\* Mutant: only a record nobody acknowledged blocks the next entry.
UnacknowledgedOnly == {i \in Ids : rec[i] \in Blocking \ {"SUBMITTED"}}

\* OrderSubmissionStore.entry_block reads every record file.  A file it cannot
\* read blocks the entry in hand: a step below that reads the store may always
\* find it so, and a file may be repaired between two reads.
Unresolved == BlockingIds

\* process_alert up to the candidate order: the gates read once, early.
Alert(i) ==
  /\ phase = "serving" /\ pc = "idle"
  /\ ~latch /\ Unresolved = {} /\ open = None
  /\ pc' = "orders?" /\ cur' = i
  /\ Stays /\ BrokerStays /\ BookStays /\ UNCHANGED <<rec, posts, unproven>>

\* Mutant: the broker is not looked at before the send.
NobodyLooked == TRUE

\* FI-3: no order of the account is live, then no position is open.  A read
\* that fails, or any later gate, drops the candidate.
AccountQuiet == \/ pc = "orders?" /\ \A j \in Ids : ~ListedLive(j)
                \/ pc = "position?" /\ Flat

Recheck ==
  /\ pc \in {"orders?", "position?"}
  /\ \/ AccountQuiet /\ Goto(IF pc = "orders?" THEN "position?" ELSE "guard")
     \/ Goto("idle")
  /\ Stays /\ BrokerStays /\ BookStays /\ UNCHANGED <<rec, posts, unproven>>

\* _guard_submission: nobody else is unresolved, and this id was never reserved.
MayReserve(i) == Unresolved \subseteq {i}

\* Mutant: a record already resolved may be reserved again.
Resendable(i) == rec[i] \notin Blocking

FirstReservation(i) == rec[i] = NoRecord

Guard ==
  /\ pc = "guard"
  /\ IF MayReserve(cur) /\ FirstReservation(cur)
     THEN \/ rec' = [rec EXCEPT ![cur] = "AMBIGUOUS"] /\ Goto("post")
          \/ \* the store unreadable, or the write failed before or after the
             \* file was replaced
             /\ rec' \in {rec, [rec EXCEPT ![cur] = "AMBIGUOUS"]}
             /\ Goto("idle")
     ELSE Goto("idle") /\ UNCHANGED rec
  /\ Stays /\ BrokerStays /\ BookStays /\ UNCHANGED <<posts, unproven>>

\* An exception before the record exists is answered by one look at the broker:
\* flat with no live order drops the attempt, anything else journals it open.
PreSendError ==
  /\ pc = "guard" /\ Goto("truth")
  /\ Stays /\ BrokerStays /\ BookStays /\ UNCHANGED <<rec, posts, unproven>>

BrokerTruth ==
  /\ pc = "truth"
  /\ \/ Flat /\ (\A j \in Ids : ~ListedLive(j)) /\ Goto("idle")
     \/ Goto("journal")
  /\ Stays /\ BrokerStays /\ BookStays /\ UNCHANGED <<rec, posts, unproven>>

Post ==
  /\ pc = "post"
  /\ order' = [order EXCEPT ![cur] = "inflight"]
  /\ posts' = [posts EXCEPT ![cur] = @ + 1]
  /\ Goto("await")
  /\ Stays /\ BookStays /\ UNCHANGED <<rec, filled, bracket, closed, liquidated, unproven>>

\* Mutant: an unanswered request is taken for a refused one.
PresumedRejected == "REJECTED"

UnansweredState == "RECONCILE_REQUIRED"

\* A timeout, a malformed answer, no order id, or a rate limit before the send.
AckLost ==
  /\ pc \in {"post", "await"}
  /\ Note(UnansweredState) /\ Goto("idle")
  /\ Stays /\ BrokerStays /\ BookStays /\ UNCHANGED <<posts, unproven>>

AckReject ==
  /\ pc = "await" /\ order[cur] = "rejected"
  /\ Note("REJECTED") /\ Goto("idle")
  /\ Stays /\ BrokerStays /\ BookStays /\ UNCHANGED <<posts, unproven>>

\* Market entries skip the fill check and go straight to the children.
AckAccept ==
  /\ pc = "await" /\ order[cur] \in Landed
  /\ Note("SUBMITTED") /\ (Goto("confirm") \/ Goto("verify"))
  /\ Stays /\ BrokerStays /\ BookStays /\ UNCHANGED <<posts, unproven>>

\* The entry is read dead: reported unfilled whatever part of it filled.
ConfirmDead ==
  /\ pc = "confirm" /\ order[cur] \in {"canceled", "rejected"}
  /\ Note("NO_FILL") /\ Goto("idle")
  /\ unproven' = IF filled[cur] > 0 THEN unproven \union {cur} ELSE unproven
  /\ Stays /\ BrokerStays /\ BookStays /\ UNCHANGED posts

\* Read filled, or unreadable while the account holds such a position.
ConfirmFilled ==
  /\ pc = "confirm" /\ (order[cur] = "filled" \/ ~Flat)
  /\ Goto("verify")
  /\ Stays /\ BrokerStays /\ BookStays /\ UNCHANGED <<rec, posts, unproven>>

\* _cancel_oso: best effort on the entry and on its children, one by one.
CancelOso ==
  /\ pc = "confirm"
  /\ \E entry, children \in BOOLEAN :
       /\ order' = IF entry /\ order[cur] = "working"
                   THEN [order EXCEPT ![cur] = "canceled"] ELSE order
       /\ bracket' = IF bracket[cur] = "armed" /\ (children \/ (entry /\ order[cur] = "working"
                                                               /\ filled[cur] = 0))
                     THEN [bracket EXCEPT ![cur] = "dead"] ELSE bracket
  /\ Goto("cancelling")
  /\ Stays /\ BookStays /\ UNCHANGED <<rec, filled, closed, liquidated, posts, unproven>>

CancelConfirmed ==
  /\ pc = "cancelling" /\ order[cur] \in {"canceled", "rejected"}
  /\ Note("CANCELLED") \/ Note("NO_FILL")
  /\ Goto("idle")
  /\ unproven' = IF filled[cur] > 0 THEN unproven \union {cur} ELSE unproven
  /\ Stays /\ BrokerStays /\ BookStays /\ UNCHANGED posts

\* The entry filled while it was being cancelled: adopted.
CancelRaced ==
  /\ pc = "cancelling" /\ (order[cur] = "filled" \/ ~Flat)
  /\ Goto("verify")
  /\ Stays /\ BrokerStays /\ BookStays /\ UNCHANGED <<rec, posts, unproven>>

Unconfirmed ==
  /\ pc \in {"confirm", "cancelling"}
  /\ Note("RECONCILE_REQUIRED") /\ Goto("idle")
  /\ Stays /\ BrokerStays /\ BookStays /\ UNCHANGED <<posts, unproven>>

\* The ladder's last rung: flat after an unconfirmed cancel counts as dead, and
\* its children are cancelled if they can be; the entry may still be working.
ConfirmFlat ==
  /\ pc = "cancelling" /\ Flat
  /\ bracket' \in {bracket, [bracket EXCEPT ![cur] = IF @ = "armed" THEN "dead" ELSE @]}
  /\ Note("NO_FILL") /\ Goto("idle")
  /\ unproven' = IF order[cur] \in {"canceled", "rejected"} /\ filled[cur] = 0
                 THEN unproven ELSE unproven \union {cur}
  /\ Stays /\ BookStays /\ UNCHANGED <<order, filled, closed, liquidated, posts>>

Verified ==
  /\ pc = "verify" /\ bracket[cur] \in {"armed", "filled"}
  /\ Note("OPEN") /\ Goto("journal")
  /\ Stays /\ BrokerStays /\ BookStays /\ UNCHANGED <<posts, unproven>>

\* A child not confirmed, or a fill outside the plan: close the position, then
\* cancel every order of the account, each as far as the broker lets it.  The
\* record is left as it is.  The close is only known to be sent, or not.
Flatten ==
  /\ pc = "verify"
  /\ liquidated' \in {liquidated, [i \in Ids |-> liquidated[i] + Exposure(i)]}
  /\ \E entries, children \in SUBSET Ids :
       /\ order' = [i \in Ids |-> IF order[i] = "working" /\ i \in entries
                                  THEN "canceled" ELSE order[i]]
       /\ bracket' = [i \in Ids |-> IF bracket[i] = "armed" /\ i \in children
                                    THEN "dead" ELSE bracket[i]]
  /\ Goto("idle") \/ Goto("journal")
  /\ Stays /\ BookStays /\ UNCHANGED <<rec, filled, closed, posts, unproven>>

\* The TRADE row, or the latch when it cannot be written.
Journal ==
  /\ pc = "journal"
  /\ \/ open' = cur /\ UNCHANGED latch
     \/ latch' = TRUE /\ UNCHANGED open
  /\ Goto("idle")
  /\ Stays /\ BrokerStays /\ UNCHANGED <<rec, posts, unproven>>

(***************************************************************************)
(* The recovery pass.                                                      *)
(***************************************************************************)
RecGoto(label) == rpc' = label
OthersStay     == UNCHANGED <<open, broker, handler, posts, crashes>>
\* Mutant: the pass keeps the id it is done with.
ForgetRows == seen' = NoRow /\ ev' = NoEvidence /\ plan' = <<>> /\ quiet' = TRUE /\ UNCHANGED rid
Forget         == /\ rid' = None /\ seen' = NoRow /\ ev' = NoEvidence /\ plan' = <<>>
                  /\ quiet' = TRUE
NextId         == RecGoto("pick") /\ Forget

\* reconciliation_blocks, on the result of the startup pass.
StartupBlocks(listed) == open # None \/ listed # {}

\* A pass begins by listing the unresolved ids; a store it cannot read lists
\* none and is reported ok.  At startup the gate is latched when the journal
\* shows a trade or the list is not empty, whatever the pass then resolves.
RecList(readable) ==
  /\ rpc = "idle" /\ RecGoto("pick")
  /\ todo' = IF readable THEN Unresolved ELSE {}
  /\ IF phase = "starting"
     THEN latch' = StartupBlocks(todo') /\ bootTrusted' = readable
     ELSE UNCHANGED <<latch, bootTrusted>>
  /\ OthersStay /\ UNCHANGED <<rec, phase, rid, seen, ev, plan, quiet, unproven>>

RecEnd ==
  /\ rpc = "pick" /\ todo = {} /\ RecGoto("idle")
  /\ phase' = "serving"
  /\ OthersStay
  /\ UNCHANGED <<rec, latch, todo, rid, seen, ev, plan, quiet, unproven, bootTrusted>>

RecPassStays == OthersStay /\ UNCHANGED <<phase, latch, bootTrusted>>

\* A record file that cannot be read once its turn comes ends the pass.  At
\* startup that ends the process too, and the next one starts over.
RecAbort ==
  /\ rpc = "pick" /\ todo # {}
  /\ RecGoto("idle") /\ todo' = {}
  /\ RecPassStays /\ UNCHANGED <<rec, rid, seen, ev, plan, quiet, unproven>>

\* /order/list: the parent and its children, or an error.
ReadOrders(i) ==
  /\ rpc = "pick" /\ i \in todo
  /\ todo' = todo \ {i} /\ rid' = i
  /\ quiet' = (cur # i /\ order[i] # "inflight")
  /\ RecPassStays /\ UNCHANGED <<rec, ev, plan, unproven>>

RecReadOrders(i) ==
  /\ ReadOrders(i) /\ RecGoto("account")
  /\ seen' = IF order[i] \in Landed
             THEN [status |-> order[i], filled |-> filled[i], bracket |-> bracket[i]]
             ELSE NoRow

RecOrdersUnread(i) == ReadOrders(i) /\ RecGoto("decide") /\ UNCHANGED seen

\* submission_evidence, from the order rows read earlier and the fills and the
\* position read now.
Observed(i) ==
  LET roundTrip == /\ Flat /\ seen.filled = Qty
                   /\ closed[i] >= Qty /\ seen.bracket = "filled"
  IN  [error     |-> IF seen.status = "none" THEN filled[i] > 0 \/ ~Flat
                     ELSE filled[i] # 0 /\ filled[i] # seen.filled,
       absent    |-> seen.status = "none",
       status    |-> seen.status,
       filled    |-> seen.filled,
       linked    |-> seen.filled > 0 /\ NetPosition = seen.filled,
       protected |-> seen.bracket = "armed" \/ roundTrip,
       closed    |-> roundTrip]

ReadAccount(evidence) ==
  /\ rpc = "account" /\ RecGoto("decide")
  /\ ev' = evidence /\ seen' = NoRow
  /\ RecPassStays /\ UNCHANGED <<rec, todo, rid, plan, quiet, unproven>>

RecReadAccount    == ReadAccount(Observed(rid))
\* A read that fails leaves the error evidence of a failed look-up.
RecAccountUnread  == ReadAccount(NoEvidence)

RecDecide ==
  /\ rpc = "decide" /\ RecGoto("write")
  /\ plan' = Plan(rec[rid], ev) /\ ev' = NoEvidence
  /\ RecPassStays /\ UNCHANGED <<rec, todo, rid, seen, quiet, unproven>>

\* What the next write of the plan makes of the record as it is now.
Wanted      == IF Head(plan) = MARK THEN Marked(rec[rid]) ELSE Head(plan)
WriteLegal  == Head(plan) = MARK \/ Wanted \in Allowed(rec[rid])

RecWrite ==
  /\ rpc = "write" /\ plan # <<>> /\ WriteLegal
  /\ rec' = [rec EXCEPT ![rid] = Wanted]
  /\ plan' = Tail(plan)
  /\ unproven' = IF Wanted \in Terminal /\ ~quiet THEN unproven \union {rid} ELSE unproven
  /\ RecPassStays /\ UNCHANGED <<todo, rid, seen, ev, quiet, rpc>>

\* An illegal transition, or a write that cannot be made durable, ends the plan.
RecWriteFails ==
  /\ rpc = "write" /\ plan # <<>>
  /\ NextId
  /\ RecPassStays /\ UNCHANGED <<rec, todo, unproven>>

RecDone ==
  /\ rpc = "write" /\ plan = <<>>
  /\ NextId
  /\ RecPassStays /\ UNCHANGED <<rec, todo, unproven>>

(***************************************************************************)
(* The whole system.                                                       *)
(***************************************************************************)
Broker == \/ \E i \in Ids : Land(i) \/ Lose(i) \/ FillEntry(i) \/ CancelEntry(i) \/ ChildExit(i)
          \/ ManualClose

Handler == \/ \E i \in Ids : Alert(i)
           \/ Recheck \/ Guard \/ PreSendError \/ BrokerTruth
           \/ Post \/ AckLost \/ AckReject \/ AckAccept
           \/ ConfirmDead \/ ConfirmFilled \/ CancelOso \/ CancelConfirmed \/ CancelRaced
           \/ Unconfirmed \/ ConfirmFlat \/ Verified \/ Flatten \/ Journal

Recovery == \/ \E readable \in BOOLEAN : RecList(readable)
            \/ \E i \in Ids : RecReadOrders(i) \/ RecOrdersUnread(i)
            \/ RecAbort \/ RecReadAccount \/ RecAccountUnread \/ RecDecide
            \/ RecWrite \/ RecWriteFails \/ RecDone \/ RecEnd

Next == Broker \/ Handler \/ Recovery \/ Crash \/ ResolveOpen

Spec == Init /\ [][Next]_vars

\* The pass is a loop that goes on for as long as the process lives, and reads
\* of the broker, marks and other writes of the store do not each fail for ever.
\* The handler, the market and the operator are under no obligation.
Fairness ==
  /\ SF_vars(RecList(TRUE)) /\ WF_vars(RecDecide) /\ WF_vars(RecDone) /\ WF_vars(RecEnd)
  /\ \A i \in Ids : SF_vars(RecReadOrders(i))
  /\ SF_vars(RecReadAccount)
  /\ SF_vars(RecWrite /\ Head(plan) = MARK) /\ SF_vars(RecWrite /\ Head(plan) # MARK)
  /\ WF_vars(RecWriteFails /\ ~WriteLegal)

FairSpec == Spec /\ Fairness
(***************************************************************************)
(* Properties.                                                             *)
(***************************************************************************)
RpcLabels == {"idle", "pick", "account", "decide", "write"}
PcLabels  == {"idle", "orders?", "position?", "guard", "truth", "post", "await", "confirm",
              "cancelling", "verify", "journal"}
Rows      == [status : OrderStatus, filled : 0 .. Qty, bracket : Children]

\* Every variable keeps to the values the code can give it.
TypeOK ==
  /\ rec \in [Ids -> States \union {NoRecord}] /\ open \in Ids \union {None}
  /\ order \in [Ids -> OrderState] /\ bracket \in [Ids -> Children]
  /\ filled \in [Ids -> 0 .. Qty] /\ closed \in [Ids -> 0 .. Qty]
  /\ liquidated \in [Ids -> 0 .. Qty]
  /\ phase \in {"starting", "serving"} /\ latch \in BOOLEAN
  /\ pc \in PcLabels /\ cur \in Ids \union {None}
  /\ (cur = None) = (pc = "idle")
  /\ rpc \in RpcLabels /\ todo \subseteq Ids /\ rid \in Ids \union {None}
  /\ (rid = None) = (rpc \in {"idle", "pick"})
  /\ seen \in Rows /\ ev \in Evidence /\ plan \in Seq(States \union {MARK})
  /\ posts \in [Ids -> Nat] /\ quiet \in BOOLEAN /\ unproven \subseteq Ids
  /\ bootTrusted \in BOOLEAN /\ crashes \in 0 .. MaxCrashes

\* An order id is sent at most once, across crashes, restarts, lost answers and
\* the same signal presented again (reserve_initial_send's may_send).
SendOnce == \A i \in Ids : posts[i] <= 1

\* Two submissions are never unresolved at the same time, so the block of one
\* is never hidden behind another (entry_block, _guard_submission).
OneUnresolved == \A i, j \in BlockingIds : i = j

\* The order may be, or may become, a position nobody closed.
MayExpose(i) == order[i] \in {"inflight", "working"} \/ Exposure(i) > 0

\* The record store is the source of truth for "an order may already exist":
\* outside the handler that is sending it, an order that can be or become a
\* position has a record that blocks entries or says OPEN, unless the record
\* was closed on evidence that proves nothing (see unproven).
ExposureIsTracked ==
  \A i \in Ids \ unproven :
    (MayExpose(i) /\ cur # i) => rec[i] \in Blocking \union {"OPEN"}

\* A request leaves only while every other order is out of the market, except
\* those whose record was closed on evidence that proves nothing: FI-3, the
\* entry block and the record together never let two entries stack.
NoStackedEntry ==
  [][posts' # posts => \A j \in Ids \ (unproven \union {cur}) : ~MayExpose(j)]_vars

\* The recovery pass wrote the record of rid.
RecoveryWrites == rpc = "write" /\ rec'[rid] # rec[rid]

\* A record read while nobody was sending it becomes OPEN only when the
\* position is protected, or gone again by the time it is written.
AdoptionIsProtected ==
  [][(RecoveryWrites /\ quiet /\ rec'[rid] = "OPEN") =>
       (bracket[rid] = "armed" \/ Exposure(rid) = 0)]_vars

\* A record read while nobody was sending it is cleared as never filled only
\* when its order is out of the market and filled nothing.
RecoveryClearSound ==
  [][(RecoveryWrites /\ quiet /\ rec'[rid] \in {"NO_FILL", "CANCELLED"}) =>
       (filled[rid] = 0 /\ ~MayExpose(rid))]_vars

\* The lifecycle seen from outside: stage from the record, sent from the posts.
Stage(s) == IF s = NoRecord THEN "new"
            ELSE IF s \in Blocking THEN "unresolved"
            ELSE IF s = "OPEN" THEN "held" ELSE "closed"

Lifecycle == INSTANCE SubmissionLifecycle WITH
               Signals <- Ids,
               stage   <- [i \in Ids |-> Stage(rec[i])],
               sent    <- {i \in Ids : posts[i] > 0}

\* Every step of the system is a step of the lifecycle: reserved before sent,
\* sent once, one unresolved at a time, never unresolved again.
ImplementsLifecycle == Lifecycle!Spec

\* The broker's books of an order nobody is sending settle the question: it is
\* out of the market with nothing filled, or filled and closed by its children.
Conclusive(i) ==
  /\ cur # i
  /\ \/ order[i] \in {"none", "lost", "canceled", "rejected"} /\ filled[i] = 0
     \/ filled[i] = Qty /\ closed[i] = Qty

\* Such a record does not block entries for ever: the passes that follow take
\* it out of the blocking states, through failed reads, failed writes, restarts.
ConclusiveUnblocks ==
  \A i \in Ids : (rec[i] \in Blocking /\ Conclusive(i)) ~> (rec[i] \notin Blocking)

(***************************************************************************)
(* What the code's own words promise, and the runs show it does not keep.  *)
(***************************************************************************)
\* "AMBIGUOUS and RECONCILE_REQUIRED block every new entry until identity-
\* corroborated broker evidence resolves them": a pass clears no record whose
\* order is on its way or in the market.
RecoveryNeverClearsLive ==
  [][(RecoveryWrites /\ rec'[rid] \in {"NO_FILL", "CANCELLED"}) => ~MayExpose(rid)]_vars

\* "Unresolved or untrusted submissions stay blocked for the rest of the
\* process": one that could not read the store at startup sends nothing.
UntrustedStartupStaysBlocked == [][posts' # posts => bootTrusted]_vars

\* "it is treating this as an OPEN trade until Tradovate confirms": a position
\* whose record is OPEN is the journal's open trade, unless the journal is
\* known to be broken.
HeldIsJournaled ==
  \A i \in Ids : (rec[i] = "OPEN" /\ Exposure(i) > 0 /\ cur # i /\ ~latch) => open = i

\* The handler closed the record of the order it was sending.
HandlerCloses == cur # None /\ cur' = None /\ rec'[cur] # rec[cur] /\ rec'[cur] \in {"NO_FILL", "CANCELLED"}

\* "a cancel attempt is never proof": the handler closes a record as unfilled
\* only when the entry is out of the market.
CancelIsProven ==
  [][(HandlerCloses /\ pc = "cancelling") => order[cur] \in {"canceled", "rejected"}]_vars
=============================================================================
