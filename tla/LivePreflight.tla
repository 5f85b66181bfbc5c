---------------------------- MODULE LivePreflight ----------------------------
(***************************************************************************)
(* The daily gate of live orders (execution/live_preflight.py).  A check   *)
(* reads the account and records pass or fail; the operator arms a day     *)
(* that has passed, or disarms; an entry asks the gate before it is sent.  *)
(* All of it meets in one file that every party reads whole, changes, and  *)
(* replaces whole, without a lock.                                         *)
(*                                                                         *)
(* A check runs on a worker thread (webhook/app.py), several of them at    *)
(* once if they are asked for, and waits for the broker between its read   *)
(* of the file and its write.  Arming and disarming run on the event loop, *)
(* one at a time, between the steps of the checks.                         *)
(***************************************************************************)
EXTENDS Integers

CONSTANTS
  Checks,   \* the requests to run the preflight
  None,     \* no file, no copy
  LastDay   \* bound on the days

ASSUME DayAssumption  == LastDay \in Nat


VARIABLES
  day,       \* _today()
  account,   \* what the account holds: nothing, a working order, a position
  file,      \* live_preflight_state.json
  check,     \* the preflights: where each is, its copy of the record, its result so far
  desk,      \* the operator's request on the event loop
  order,     \* the entry that asks the gate
  \* history
  off,       \* the operator switched it off, or a check failed, and nobody armed since
  armedOn,   \* the day of the operator's last successful arming
  passed     \* the days a passing result was recorded on

vars    == <<day, account, file, check, desk, order, off, armedOn, passed>>
history == <<off, armedOn, passed>>

Days    == 0..LastDay
Records == [date : Days, armed : BOOLEAN, result : {"none", "pass", "fail"}]

ASSUME NoneAssumption == None \notin Days /\ None \notin Records

NoCheck == [at |-> "idle", copy |-> None, ok |-> FALSE, flat |-> FALSE, stale |-> FALSE]
NoDesk  == [at |-> "idle", copy |-> None]
NoOrder == [at |-> "idle", day |-> 0]

Init ==
  /\ day = 0 /\ account \in {"flat", "working", "open"} /\ file = None
  /\ check = [c \in Checks |-> NoCheck] /\ desk = NoDesk /\ order = NoOrder
  /\ off = TRUE /\ armedOn = None /\ passed = {}

(***************************************************************************)
(* The record.                                                             *)
(***************************************************************************)
\* _default_state.
Fresh == [date |-> day, armed |-> FALSE, result |-> "none"]

\* Mutant: yesterday's record is today's.
LoadedNoRollover == IF file = None THEN Fresh ELSE [file EXCEPT !.date = day]

\* load_state: no file is a fresh day, a file of another day is disarmed.
Loaded == IF file = None THEN Fresh ELSE [file EXCEPT !.armed = @ /\ file.date = day]

\* A file that cannot be read is a fresh day too.
Copies == {Loaded, Fresh}

Ready(rec) == rec.armed /\ rec.result = "pass" /\ rec.date = day

\* What a check in flight has read is out of date: the gate was shut since.
Outdated(running) == [c \in Checks |-> [running[c] EXCEPT !.stale = running[c].at # "idle"]]

\* save_state, which replaces the file; a write that leaves the gate shut
\* outdates the checks in flight.
Saved(rec, running) ==
  /\ file' = rec
  /\ check' = IF rec.armed THEN running ELSE Outdated(running)

(***************************************************************************)
(* run_preflight.                                                          *)
(***************************************************************************)
\* It reads the file, then the supervisor's snapshot and one heartbeat.
Begin(c) ==
  /\ check[c].at = "idle"
  /\ \E healthy \in BOOLEAN, rec \in Copies :
       check' = [check EXCEPT ![c] =
                   [at |-> "positions", copy |-> rec, ok |-> healthy,
                    flat |-> healthy /\ account = "flat", stale |-> FALSE]]
  /\ UNCHANGED <<day, account, file, desk, order, history>>

\* A list that cannot be read, or has a row that cannot, fails the check.
ReadPositions(c) ==
  /\ check[c].at = "positions"
  /\ \E readable \in BOOLEAN :
       LET good == readable /\ account # "open"
       IN  check' = [check EXCEPT ![c].at = "orders", ![c].ok = @ /\ good, ![c].flat = @ /\ good]
  /\ UNCHANGED <<day, account, file, desk, order, history>>

ReadOrders(c) ==
  /\ check[c].at = "orders"
  /\ \E readable \in BOOLEAN :
       LET good == readable /\ account # "working"
       IN  check' = [check EXCEPT ![c].at = "save", ![c].ok = @ /\ good, ![c].flat = @ /\ good]
  /\ UNCHANGED <<day, account, file, desk, order, history>>

\* Mutant: a check that passes arms.
ResultArms(copy, pass) ==
  [date |-> day, armed |-> pass, result |-> IF pass THEN "pass" ELSE "fail"]

\* Mutant: a check that fails does not disarm.
ResultKeepsArmed(copy, pass) ==
  [date |-> day, armed |-> copy.armed, result |-> IF pass THEN "pass" ELSE "fail"]

\* The result is written into the copy, under the date of the end of the check;
\* a pass leaves the armed flag as it was read.
Result(copy, pass) ==
  [date |-> day, armed |-> copy.armed /\ pass, result |-> IF pass THEN "pass" ELSE "fail"]

SaveResult(c) ==
  /\ check[c].at = "save"
  /\ \E undrifted \in BOOLEAN :
       LET pass == check[c].ok /\ undrifted
       IN  /\ Saved(Result(check[c].copy, pass), [check EXCEPT ![c] = NoCheck])
           /\ off' = (off \/ ~pass)
           /\ passed' = IF pass THEN passed \cup {day} ELSE passed
  /\ UNCHANGED <<day, account, desk, order, armedOn>>

(***************************************************************************)
(* arm_today and disarm: each reads the file and replaces it.              *)
(***************************************************************************)
DeskLoad(request) ==
  /\ desk.at = "idle"
  /\ \E rec \in Copies : desk' = [at |-> request, copy |-> rec]
  /\ UNCHANGED <<day, account, file, check, order, history>>

Arm ==
  /\ desk.at = "arm"
  /\ desk.copy.date = day /\ desk.copy.result = "pass"
  /\ Saved([desk.copy EXCEPT !.armed = TRUE], check)
  /\ desk' = NoDesk /\ off' = FALSE /\ armedOn' = day
  /\ UNCHANGED <<day, account, order, passed>>

RefuseArm ==
  /\ desk.at = "arm"
  /\ ~(desk.copy.date = day /\ desk.copy.result = "pass")
  /\ Saved([desk.copy EXCEPT !.armed = FALSE], check)
  /\ desk' = NoDesk
  /\ UNCHANGED <<day, account, order, history>>

Disarm ==
  /\ desk.at = "disarm"
  /\ Saved([desk.copy EXCEPT !.armed = FALSE], check)
  /\ desk' = NoDesk /\ off' = TRUE
  /\ UNCHANGED <<day, account, order, armedOn, passed>>

(***************************************************************************)
(* A write that fails raises: the request ends and the file is as it was.  *)
(***************************************************************************)
CheckFails(c) ==
  /\ check[c].at = "save"
  /\ check' = [check EXCEPT ![c] = NoCheck]
  /\ UNCHANGED <<day, account, file, desk, order, history>>

DeskFails ==
  /\ desk.at # "idle"
  /\ desk' = NoDesk
  /\ UNCHANGED <<day, account, file, check, order, history>>

(***************************************************************************)
(* live_order_ready, asked by execute_bracket before a real-money entry.   *)
(***************************************************************************)
\* With no drift it goes on to the broker, and may rest or fill there.
LetThrough ==
  /\ order.at = "idle" /\ Ready(Loaded)
  /\ order' = [at |-> "let", day |-> day]
  /\ UNCHANGED <<day, account, file, check, desk, history>>

OrderEnds ==
  /\ order.at # "idle"
  /\ order' = NoOrder
  /\ UNCHANGED <<day, account, file, check, desk, history>>

(***************************************************************************)
(* The world: trading on the account, midnight, a restart.                 *)
(***************************************************************************)
Trade(next) ==
  /\ account' = next
  /\ \/ account = "flat" /\ next = "working"
     \/ account = "working" /\ next \in {"open", "flat"}
     \/ account = "open" /\ next = "flat"
  /\ check' = [c \in Checks |-> [check[c] EXCEPT !.flat = @ \/ (check[c].ok /\ next = "flat")]]
  /\ UNCHANGED <<day, file, desk, order, history>>

Midnight ==
  /\ day < LastDay
  /\ day' = day + 1 /\ check' = Outdated(check)
  /\ UNCHANGED <<account, file, desk, order, history>>

Restart ==
  /\ check' = [c \in Checks |-> NoCheck] /\ desk' = NoDesk /\ order' = NoOrder
  /\ UNCHANGED <<day, account, file, history>>

Next ==
  \/ \E c \in Checks : Begin(c) \/ ReadPositions(c) \/ ReadOrders(c) \/ SaveResult(c) \/ CheckFails(c)
  \/ \E request \in {"arm", "disarm"} : DeskLoad(request)
  \/ Arm \/ RefuseArm \/ Disarm \/ DeskFails
  \/ LetThrough \/ OrderEnds
  \/ \E next \in {"flat", "working", "open"} : Trade(next)
  \/ Midnight \/ Restart

Spec == Init /\ [][Next]_vars

(***************************************************************************)
(* Properties.                                                             *)
(***************************************************************************)
TypeOK ==
  /\ day \in Days /\ account \in {"flat", "working", "open"}
  /\ file \in Records \cup {None}
  /\ check \in [Checks -> [at : {"idle", "positions", "orders", "save"}, copy : Records \cup {None},
                           ok : BOOLEAN, flat : BOOLEAN, stale : BOOLEAN]]
  /\ desk \in [at : {"idle", "arm", "disarm"}, copy : Records \cup {None}]
  /\ order \in [at : {"idle", "let"}, day : Days]
  /\ \A rec \in ({file, desk.copy} \cup {check[c].copy : c \in Checks}) \ {None} :
       rec.date <= day /\ (rec.armed => rec.result = "pass")
  /\ off \in BOOLEAN /\ armedOn \in Days \cup {None} /\ passed \subseteq Days

\* An entry is let through only on a day whose preflight passed on that day, and
\* only if the operator armed, whatever the writers of the file did to each other.
LetThroughAfterPass ==
  order.at # "idle" => order.day \in passed /\ armedOn # None

\* A shut gate is opened again only by the operator, or by a check that was
\* running when it was shut: a check begun later cannot undo a disarm.
OnlyStaleCheckReopens ==
  [][Ready(Loaded)' /\ ~Ready(Loaded)
       => \/ desk.at = "arm"
          \/ \E c \in Checks : check[c].at = "save" /\ check[c].stale]_vars

\* Violated.  After a disarm, or a check that failed, the gate is shut until
\* the operator arms again ("Live trading switched OFF: live orders are blocked").
DisarmHolds == off => ~Ready(Loaded)

\* Violated.  Live orders are allowed only on a day the operator armed.
ArmedToday == Ready(Loaded) => armedOn = day

\* Violated.  A check that passes met the account flat at some time: it reads the
\* positions first, and an order that fills before it reads the orders is in neither.
PassMetFlat == \A c \in Checks : check[c].at = "save" /\ check[c].ok => check[c].flat
=============================================================================
