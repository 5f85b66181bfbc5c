------------------------- MODULE LivePreflightProofs -------------------------
(***************************************************************************)
(* Proofs about LivePreflight, for any number of checks and days.  Every   *)
(* copy of the record, wherever it is, was true when it was taken: it says *)
(* pass only of a day that passed, and armed only after an arming.  A copy *)
(* that says armed, held by a check nobody outdated, agrees with the file. *)
(***************************************************************************)
EXTENDS LivePreflight, TLAPS

USE DayAssumption, NoneAssumption DEF Days, Records

\* What any copy of the record is true to.
Good(rec) ==
  /\ rec \in Records /\ rec.date <= day
  /\ rec.armed => rec.result = "pass" /\ armedOn # None
  /\ rec.result = "pass" => rec.date \in passed

ScalarsOK ==
  /\ day \in Days /\ account \in {"flat", "working", "open"} /\ off \in BOOLEAN
  /\ armedOn \in Days \cup {None} /\ passed \subseteq Days
  /\ order \in [at : {"idle", "let"}, day : Days]

FileOK == file = None \/ Good(file)

DeskOK ==
  /\ desk \in [at : {"idle", "arm", "disarm"}, copy : Records \cup {None}]
  /\ desk.copy = None \/ Good(desk.copy)
  /\ desk.at # "idle" => desk.copy # None

\* A check in flight that nobody outdated, with an armed copy, has an open gate.
CheckOK(c) ==
  /\ check[c] \in [at : {"idle", "positions", "orders", "save"}, copy : Records \cup {None},
                   ok : BOOLEAN, flat : BOOLEAN, stale : BOOLEAN]
  /\ check[c].copy = None \/ Good(check[c].copy)
  /\ check[c].at # "idle" => check[c].copy # None
  /\ check[c].at # "idle" /\ ~check[c].stale /\ check[c].copy.armed => Ready(Loaded)

ChecksOK ==
  /\ check = [c \in Checks |-> check[c]]
  /\ \A c \in Checks : CheckOK(c)

IInv == ScalarsOK /\ FileOK /\ DeskOK /\ ChecksOK /\ LetThroughAfterPass

\* The invariant gives the type invariant.
LEMMA InvariantTypes == IInv => TypeOK
  BY DEF IInv, ScalarsOK, FileOK, DeskOK, ChecksOK, CheckOK, Good, TypeOK

\* The first state has no record anywhere.
LEMMA InitInvariant == Init => IInv
  BY DEF Init, IInv, ScalarsOK, FileOK, DeskOK, ChecksOK, CheckOK, NoCheck, NoDesk, NoOrder,
         LetThroughAfterPass

\* What a load returns is true, and says armed only if the gate is open.
LEMMA LoadIsGood ==
  ASSUME ScalarsOK, FileOK, NEW rec \in Copies
  PROVE  Good(rec) /\ rec # None /\ (rec.armed => Ready(Loaded))
<1>1. Good(Fresh) /\ Fresh # None /\ ~Fresh.armed
  <2>1. day \in 0..LastDay
    BY DEF ScalarsOK
  <2>2. Fresh \in Records /\ Fresh.date = day /\ Fresh.armed = FALSE /\ Fresh.result = "none"
    BY <2>1 DEF Fresh
  <2>3. Fresh # None
    BY <2>2
  <2> QED BY <2>1, <2>2, <2>3 DEF Good
<1>2. CASE rec = Fresh
  BY <1>1, <1>2
<1>3. CASE rec = Loaded /\ file = None
  BY <1>1, <1>3 DEF Loaded
<1>4. CASE rec = Loaded /\ file # None
  <2>1. Good(file) /\ rec = [file EXCEPT !.armed = file.armed /\ file.date = day]
    BY <1>4 DEF FileOK, Loaded
  <2>2. rec \in Records /\ rec.date = file.date /\ rec.result = file.result
        /\ (rec.armed <=> file.armed /\ file.date = day)
    BY <2>1 DEF Good
  <2>3. Good(rec) /\ rec # None
    BY <2>1, <2>2 DEF Good
  <2> QED BY <1>4, <2>1, <2>2, <2>3 DEF Good, Ready
<1> QED BY <1>2, <1>3, <1>4 DEF Copies

\* A true copy stays true: days, passes and armings are never taken back.
LEMMA GoodStays ==
  ASSUME NEW rec, Good(rec), ScalarsOK, day' \in Days, day <= day', passed \subseteq passed',
         armedOn # None => armedOn' # None
  PROVE  Good(rec)'
  BY DEF Good, ScalarsOK

\* The shape of a check in flight, but for the gate.
Shaped(run) ==
  /\ run \in [at : {"idle", "positions", "orders", "save"}, copy : Records \cup {None},
              ok : BOOLEAN, flat : BOOLEAN, stale : BOOLEAN]
  /\ run.copy = None \/ Good(run.copy)
  /\ run.at # "idle" => run.copy # None

\* While days, passes and armings stay or grow, what is kept stays true.
LEMMA KeptStays ==
  ASSUME IInv, day' \in Days, day <= day', passed \subseteq passed',
         armedOn # None => armedOn' # None
  PROVE  /\ file' = file => FileOK'
         /\ desk' = desk => DeskOK'
         /\ \A c \in Checks : check'[c] = check[c] => Shaped(check[c])'
<1>1. \A rec : Good(rec) => Good(rec)'
  BY GoodStays DEF IInv
<1>2. file' = file => FileOK'
  BY <1>1 DEF IInv, FileOK, Good
<1>3. desk' = desk => DeskOK'
  BY <1>1 DEF IInv, DeskOK, Good
<1>4. ASSUME NEW c \in Checks, check'[c] = check[c] PROVE Shaped(check[c])'
  BY <1>1, <1>4 DEF IInv, ChecksOK, CheckOK, Shaped, Good
<1> QED BY <1>2, <1>3, <1>4

\* With file and day as they were, a check keeps its promise if its copy is the
\* one it had, or a new one that says armed only if the gate is open.
LEMMA SameFile ==
  ASSUME IInv, UNCHANGED <<day, file, armedOn, passed>>, NEW c \in Checks,
         check' = [check EXCEPT ![c] = check'[c]], Shaped(check[c])',
         check'[c].at # "idle" /\ check'[c].copy.armed /\ ~check'[c].stale
           => \/ Ready(Loaded)
              \/ check[c].at # "idle" /\ check[c].copy.armed /\ ~check[c].stale
  PROVE  FileOK' /\ ChecksOK'
<1>1. /\ FileOK' /\ (Ready(Loaded)' <=> Ready(Loaded))
      /\ \A d \in Checks : check'[d] = check[d] => Shaped(check[d])'
  BY KeptStays DEF IInv, ScalarsOK, Ready, Loaded, Fresh
<1>2. CheckOK(c)'
  BY <1>1 DEF IInv, ChecksOK, CheckOK, Shaped
<1>3. ASSUME NEW d \in Checks, d # c PROVE CheckOK(d)'
  <2>1. check'[d] = check[d]
    BY <1>3 DEF IInv, ChecksOK
  <2> QED BY <1>1, <2>1 DEF IInv, ChecksOK, CheckOK, Shaped
<1>4. check' = [d \in Checks |-> check'[d]]
  BY DEF IInv, ChecksOK
<1> QED BY <1>1, <1>2, <1>3, <1>4 DEF ChecksOK

\* A write leaves the gate open, or outdates every check in flight.
LEMMA SavedChecks ==
  ASSUME NEW rec, Good(rec)', rec.armed => rec.date = day',
         NEW running, running = [c \in Checks |-> running[c]],
         \A c \in Checks : Shaped(running[c])', Saved(rec, running)
  PROVE  FileOK' /\ ChecksOK'
<1>1. rec # None
  BY DEF Good
<1>2. FileOK' /\ (rec.armed => Ready(Loaded)')
  BY <1>1 DEF FileOK, Saved, Good, Ready, Loaded
<1>3. CASE rec.armed
  BY <1>2, <1>3 DEF Saved, ChecksOK, CheckOK, Shaped
<1>4. CASE ~rec.armed
  <2>1. check' = [c \in Checks |-> [running[c] EXCEPT !.stale = running[c].at # "idle"]]
    BY <1>4 DEF Saved, Outdated
  <2>2. ASSUME NEW c \in Checks PROVE CheckOK(c)'
    BY <2>1 DEF CheckOK, Shaped, Good
  <2> QED BY <1>2, <2>1, <2>2 DEF ChecksOK
<1> QED BY <1>3, <1>4

\* What a write puts into the file is true, and armed only of today.
LEMMA ResultIsGood ==
  ASSUME IInv, NEW c \in Checks, check[c].at = "save", NEW pass \in BOOLEAN,
         NEW rec, rec = Result(check[c].copy, pass),
         UNCHANGED <<day, armedOn>>, passed' = IF pass THEN passed \cup {day} ELSE passed
  PROVE  Good(rec)' /\ (rec.armed => rec.date = day')
<1>1. Good(check[c].copy) /\ day \in 0..LastDay
  BY DEF IInv, ScalarsOK, ChecksOK, CheckOK
<1>2. /\ rec \in Records /\ rec.date = day /\ (rec.armed <=> check[c].copy.armed /\ pass)
      /\ (rec.result = "pass" <=> pass)
  BY <1>1 DEF Result, Good
<1> QED BY <1>1, <1>2 DEF Good

\* A check's step between its reads leaves its copy as it was taken.
LEMMA ReadKeeps ==
  ASSUME IInv, NEW c \in Checks, ReadPositions(c) \/ ReadOrders(c) PROVE IInv'
<1>1. UNCHANGED <<day, account, file, desk, order, history>> /\ check[c].at # "idle"
      /\ check' = [check EXCEPT ![c] = check'[c]]
      /\ check'[c].copy = check[c].copy /\ check'[c].stale = check[c].stale
      /\ check'[c] \in [at : {"idle", "positions", "orders", "save"}, copy : Records \cup {None},
                         ok : BOOLEAN, flat : BOOLEAN, stale : BOOLEAN]
  <2>1. PICK at \in {"orders", "save"}, good \in BOOLEAN :
          check' = [check EXCEPT ![c] = [check[c] EXCEPT !.at = at, !.ok = @ /\ good, !.flat = @ /\ good]]
    <3>1. CASE ReadPositions(c)
      BY <3>1 DEF ReadPositions
    <3>2. CASE ReadOrders(c)
      BY <3>2 DEF ReadOrders
    <3> QED BY <3>1, <3>2
  <2>2. UNCHANGED <<day, account, file, desk, order, history>> /\ check[c].at # "idle"
    BY DEF ReadPositions, ReadOrders
  <2>3. check'[c] = [check[c] EXCEPT !.at = at, !.ok = @ /\ good, !.flat = @ /\ good]
    BY <2>1 DEF IInv, ChecksOK
  <2>4. check' = [check EXCEPT ![c] = check'[c]]
    BY <2>1, <2>3 DEF IInv, ChecksOK
  <2>5. check[c] \in [at : {"idle", "positions", "orders", "save"}, copy : Records \cup {None},
                      ok : BOOLEAN, flat : BOOLEAN, stale : BOOLEAN]
    BY DEF IInv, ChecksOK, CheckOK
  <2> QED BY <2>2, <2>3, <2>4, <2>5
<1>2. Shaped(check[c])'
  BY <1>1 DEF IInv, ScalarsOK, ChecksOK, CheckOK, Shaped, Good, history
<1>3. FileOK' /\ ChecksOK'
  BY <1>1, <1>2, SameFile DEF history
<1> QED BY <1>1, <1>3, KeptStays DEF IInv, ScalarsOK, DeskOK, LetThroughAfterPass, history

LEMMA BeginKeeps ==
  ASSUME IInv, NEW c \in Checks, Begin(c) PROVE IInv'
<1>1. UNCHANGED <<day, account, file, desk, order, history>>
  BY DEF Begin
<1>2. PICK rec \in Copies, healthy \in BOOLEAN :
        check' = [check EXCEPT ![c] = [at |-> "positions", copy |-> rec, ok |-> healthy,
                    flat |-> healthy /\ account = "flat", stale |-> FALSE]]
  BY DEF Begin
<1>3. Good(rec) /\ rec # None /\ (rec.armed => Ready(Loaded))
  BY LoadIsGood DEF IInv
<1>4. check'[c] = [at |-> "positions", copy |-> rec, ok |-> healthy,
                   flat |-> healthy /\ account = "flat", stale |-> FALSE]
  BY <1>2 DEF IInv, ChecksOK
<1>5. Shaped(check[c])'
  <2>1. Good(rec)'
    BY <1>1, <1>3 DEF Good, history
  <2> QED BY <1>4, <2>1, <1>3 DEF Shaped, Good
<1>6. FileOK' /\ ChecksOK'
  <2>1. check' = [check EXCEPT ![c] = check'[c]]
    BY <1>2, <1>4
  <2>2. check'[c].copy.armed => Ready(Loaded)
    BY <1>3, <1>4
  <2> QED BY <1>1, <1>5, <2>1, <2>2, SameFile DEF history
<1> QED BY <1>1, <1>6, KeptStays DEF IInv, ScalarsOK, DeskOK, LetThroughAfterPass, history

LEMMA SaveResultKeeps ==
  ASSUME IInv, NEW c \in Checks, SaveResult(c) PROVE IInv'
<1>1. PICK pass \in BOOLEAN :
        /\ Saved(Result(check[c].copy, pass), [check EXCEPT ![c] = NoCheck])
        /\ off' = (off \/ ~pass)
        /\ passed' = IF pass THEN passed \cup {day} ELSE passed
        /\ check[c].at = "save" /\ UNCHANGED <<day, account, desk, order, armedOn>>
  BY DEF SaveResult, IInv, ChecksOK, CheckOK
<1>2. PICK rec : rec = Result(check[c].copy, pass)
  OBVIOUS
<1>3. PICK running : running = [check EXCEPT ![c] = NoCheck]
  OBVIOUS
<1>4. Good(rec)' /\ (rec.armed => rec.date = day')
  BY <1>1, <1>2, ResultIsGood
<1>5. /\ passed \subseteq passed' /\ passed' \subseteq Days
      /\ \A r : Good(r) => Good(r)'
  BY <1>1 DEF IInv, ScalarsOK, Good
<1>6. running = [d \in Checks |-> running[d]] /\ \A d \in Checks : Shaped(running[d])'
  BY <1>3, <1>5 DEF IInv, ChecksOK, CheckOK, Shaped, NoCheck, Good
<1>7. Saved(rec, running)
  BY <1>1, <1>2, <1>3
<1>8. FileOK' /\ ChecksOK'
  BY <1>4, <1>6, <1>7, SavedChecks
<1>9. DeskOK'
  BY <1>1, <1>5 DEF IInv, DeskOK, Good
<1> QED BY <1>1, <1>5, <1>8, <1>9 DEF IInv, ScalarsOK, LetThroughAfterPass

\* The operator's request: a load, then a write of the changed copy.
LEMMA DeskLoadKeeps ==
  ASSUME IInv, NEW request \in {"arm", "disarm"}, DeskLoad(request) PROVE IInv'
<1>1. PICK rec \in Copies : desk' = [at |-> request, copy |-> rec]
  BY DEF DeskLoad
<1>2. Good(rec) /\ rec # None
  BY LoadIsGood DEF IInv
<1>3. UNCHANGED <<day, account, file, check, order, history>>
  BY DEF DeskLoad
<1>4. DeskOK'
  <2>1. Good(rec)'
    BY <1>2, <1>3 DEF Good, history
  <2> QED BY <1>1, <1>2, <2>1 DEF DeskOK, Good
<1>5. ScalarsOK' /\ FileOK' /\ LetThroughAfterPass'
  BY <1>3, KeptStays DEF IInv, ScalarsOK, LetThroughAfterPass, history
<1>6. ChecksOK'
  BY <1>3 DEF IInv, ChecksOK, CheckOK, Good, Ready, Loaded, Fresh, history
<1> QED BY <1>4, <1>5, <1>6 DEF IInv

LEMMA DeskSaveKeeps ==
  ASSUME IInv, Arm \/ RefuseArm \/ Disarm PROVE IInv'
<1>1. /\ UNCHANGED <<day, account, order, passed>> /\ desk' = NoDesk /\ off' \in BOOLEAN
      /\ armedOn' \in Days \cup {None} /\ (armedOn # None => armedOn' # None)
  BY DEF Arm, RefuseArm, Disarm, IInv, ScalarsOK, history
<1>2. Good(desk.copy) /\ day \in 0..LastDay
  BY DEF Arm, RefuseArm, Disarm, IInv, DeskOK, ScalarsOK
<1>3. PICK rec : Good(rec)' /\ (rec.armed => rec.date = day') /\ Saved(rec, check)
  <2>1. CASE Arm
    <3>1. PICK rec : rec = [desk.copy EXCEPT !.armed = TRUE]
      OBVIOUS
    <3>2. /\ rec \in Records /\ rec.date = day /\ rec.result = "pass" /\ rec.date \in passed
          /\ armedOn' # None
      BY <1>2, <2>1, <3>1 DEF Arm, Good
    <3>3. Good(rec)'
      BY <1>1, <1>2, <3>2 DEF Good
    <3> QED BY <1>1, <2>1, <3>1, <3>2, <3>3 DEF Arm
  <2>2. CASE RefuseArm \/ Disarm
    <3>1. PICK rec : rec = [desk.copy EXCEPT !.armed = FALSE]
      OBVIOUS
    <3>2. /\ rec \in Records /\ rec.date = desk.copy.date /\ rec.result = desk.copy.result
          /\ ~rec.armed
      BY <1>2, <3>1 DEF Good
    <3>3. Good(rec)'
      BY <1>1, <1>2, <3>2 DEF Good
    <3> QED BY <2>2, <3>1, <3>2, <3>3 DEF RefuseArm, Disarm
  <2> QED BY <2>1, <2>2
<1>4. \A r : Good(r) => Good(r)'
  BY <1>1 DEF Good
<1>5. FileOK' /\ ChecksOK'
  <2>1. PICK running : running = check
    OBVIOUS
  <2>2. running = [c \in Checks |-> running[c]] /\ \A c \in Checks : Shaped(running[c])'
    BY <1>4, <2>1 DEF IInv, ChecksOK, CheckOK, Shaped, Good
  <2> QED BY <1>3, <2>1, <2>2, SavedChecks
<1>6. ScalarsOK' /\ DeskOK' /\ LetThroughAfterPass'
  BY <1>1 DEF IInv, ScalarsOK, DeskOK, NoDesk, LetThroughAfterPass
<1> QED BY <1>5, <1>6 DEF IInv

\* What leaves the file and the copies alone, or drops them.
LEMMA DropKeeps ==
  ASSUME IInv, DeskFails \/ (\E c \in Checks : CheckFails(c)) \/ Restart PROVE IInv'
<1>1. UNCHANGED <<day, account, file, history>> /\ (order' = order \/ order' = NoOrder)
      /\ (desk' = desk \/ desk' = NoDesk)
  BY DEF DeskFails, CheckFails, Restart
<1>2. /\ check' = [c \in Checks |-> check'[c]]
      /\ \A c \in Checks : check'[c] = check[c] \/ check'[c] = NoCheck
  BY DEF DeskFails, CheckFails, Restart, IInv, ChecksOK
<1>3. \A r : Good(r) => Good(r)'
  BY <1>1 DEF Good, history
<1>4. FileOK' /\ DeskOK' /\ (Ready(Loaded)' <=> Ready(Loaded))
  BY <1>1, <1>3 DEF IInv, FileOK, DeskOK, NoDesk, Ready, Loaded, Fresh, Good
<1>5. ChecksOK'
  <2>1. ASSUME NEW c \in Checks, check'[c] = check[c] PROVE CheckOK(c)'
    BY <1>3, <1>4, <2>1 DEF IInv, ChecksOK, CheckOK, Good
  <2>2. ASSUME NEW c \in Checks, check'[c] = NoCheck PROVE CheckOK(c)'
    BY <2>2 DEF CheckOK, NoCheck
  <2> QED BY <1>2, <2>1, <2>2 DEF ChecksOK
<1>6. ScalarsOK' /\ LetThroughAfterPass'
  BY <1>1 DEF IInv, ScalarsOK, LetThroughAfterPass, NoOrder, history
<1> QED BY <1>4, <1>5, <1>6 DEF IInv

LEMMA OrderKeeps ==
  ASSUME IInv, LetThrough \/ OrderEnds PROVE IInv'
<1>1. UNCHANGED <<day, account, file, check, desk, history>>
  BY DEF LetThrough, OrderEnds
<1>2. FileOK' /\ DeskOK'
  BY <1>1, KeptStays DEF IInv, ScalarsOK, history
<1>3. ChecksOK'
  BY <1>1 DEF IInv, ChecksOK, CheckOK, Good, Ready, Loaded, Fresh, history
<1>4. CASE LetThrough
  <2>1. Loaded \in Copies /\ Ready(Loaded)
    BY <1>4 DEF LetThrough, Copies
  <2>2. PICK rec : rec = Loaded
    OBVIOUS
  <2>3. Good(rec)
    BY <2>1, <2>2, LoadIsGood DEF IInv
  <2>4. day \in passed /\ armedOn # None
    BY <2>1, <2>2, <2>3 DEF Good, Ready
  <2>5. order' = [at |-> "let", day |-> day]
    BY <1>4 DEF LetThrough
  <2> QED BY <1>1, <1>2, <1>3, <2>4, <2>5 DEF IInv, ScalarsOK, LetThroughAfterPass, history
<1>5. CASE OrderEnds
  BY <1>1, <1>2, <1>3, <1>5 DEF IInv, ScalarsOK, LetThroughAfterPass, history, OrderEnds, NoOrder
<1> QED BY <1>4, <1>5

\* Trading on the account moves no record.
LEMMA TradeKeeps ==
  ASSUME IInv, NEW next \in {"flat", "working", "open"}, Trade(next) PROVE IInv'
<1>1. UNCHANGED <<day, file, desk, order, history>> /\ account' = next
      /\ check' = [c \in Checks |-> [check[c] EXCEPT !.flat = @ \/ (check[c].ok /\ next = "flat")]]
  BY DEF Trade
<1>2. \A r : Good(r) => Good(r)'
  BY <1>1 DEF Good, history
<1>3. FileOK' /\ DeskOK' /\ (Ready(Loaded)' <=> Ready(Loaded))
  BY <1>1, <1>2 DEF IInv, FileOK, DeskOK, Ready, Loaded, Fresh, Good
<1>4. ASSUME NEW c \in Checks PROVE CheckOK(c)'
  <2>1. CheckOK(c) /\ check'[c] = [check[c] EXCEPT !.flat = @ \/ (check[c].ok /\ next = "flat")]
    BY <1>1 DEF IInv, ChecksOK
  <2>2. /\ check'[c].at = check[c].at /\ check'[c].copy = check[c].copy
        /\ check'[c].stale = check[c].stale
        /\ check'[c] \in [at : {"idle", "positions", "orders", "save"}, copy : Records \cup {None},
                           ok : BOOLEAN, flat : BOOLEAN, stale : BOOLEAN]
    BY <2>1 DEF CheckOK
  <2> QED BY <1>2, <1>3, <2>1, <2>2 DEF CheckOK, Good
<1>5. ScalarsOK' /\ LetThroughAfterPass'
  BY <1>1 DEF IInv, ScalarsOK, LetThroughAfterPass, history
<1> QED BY <1>1, <1>3, <1>4, <1>5 DEF IInv, ChecksOK

\* Midnight outdates every check in flight.
LEMMA MidnightKeeps ==
  ASSUME IInv, Midnight PROVE IInv'
<1>1. UNCHANGED <<account, file, desk, order, history>> /\ day' = day + 1 /\ day < LastDay
      /\ check' = [c \in Checks |-> [check[c] EXCEPT !.stale = check[c].at # "idle"]]
  BY DEF Midnight, Outdated
<1>2. day \in 0..LastDay /\ day' \in 0..LastDay
  BY <1>1 DEF IInv, ScalarsOK
<1>3. FileOK' /\ DeskOK'
  BY <1>1, <1>2, KeptStays DEF history
<1>4. \A r : Good(r) => Good(r)'
  BY <1>1, <1>2 DEF Good, history
<1>5. ASSUME NEW c \in Checks PROVE CheckOK(c)'
  <2>1. CheckOK(c) /\ check'[c] = [check[c] EXCEPT !.stale = check[c].at # "idle"]
    BY <1>1 DEF IInv, ChecksOK
  <2>2. /\ check'[c].at = check[c].at /\ check'[c].copy = check[c].copy
        /\ check'[c].stale = (check[c].at # "idle")
        /\ check'[c] \in [at : {"idle", "positions", "orders", "save"}, copy : Records \cup {None},
                           ok : BOOLEAN, flat : BOOLEAN, stale : BOOLEAN]
    BY <2>1 DEF CheckOK
  <2> QED BY <1>4, <2>1, <2>2 DEF CheckOK, Good
<1>6. ScalarsOK' /\ LetThroughAfterPass'
  BY <1>1, <1>2 DEF IInv, ScalarsOK, LetThroughAfterPass, history
<1> QED BY <1>1, <1>3, <1>5, <1>6 DEF IInv, ChecksOK

LEMMA StutterKeeps ==
  ASSUME IInv, UNCHANGED vars PROVE IInv'
<1>1. ScalarsOK' /\ FileOK' /\ DeskOK' /\ LetThroughAfterPass'
  BY KeptStays DEF vars, IInv, ScalarsOK, LetThroughAfterPass
<1>2. ChecksOK'
  BY DEF vars, IInv, ChecksOK, CheckOK, Good, Ready, Loaded, Fresh
<1> QED BY <1>1, <1>2 DEF IInv

\* Every step keeps the invariant.
LEMMA NextKeeps == IInv /\ [Next]_vars => IInv'
<1> SUFFICES ASSUME IInv, [Next]_vars PROVE IInv'
  OBVIOUS
<1>1. CASE \E c \in Checks : Begin(c)
  BY <1>1, BeginKeeps
<1>2. CASE \E c \in Checks : ReadPositions(c) \/ ReadOrders(c)
  BY <1>2, ReadKeeps
<1>3. CASE \E c \in Checks : SaveResult(c)
  BY <1>3, SaveResultKeeps
<1>4. CASE DeskFails \/ (\E c \in Checks : CheckFails(c)) \/ Restart
  BY <1>4, DropKeeps
<1>5. CASE \E request \in {"arm", "disarm"} : DeskLoad(request)
  BY <1>5, DeskLoadKeeps
<1>6. CASE Arm \/ RefuseArm \/ Disarm
  BY <1>6, DeskSaveKeeps
<1>7. CASE LetThrough \/ OrderEnds
  BY <1>7, OrderKeeps
<1>8. CASE \E next \in {"flat", "working", "open"} : Trade(next)
  BY <1>8, TradeKeeps
<1>9. CASE Midnight
  BY <1>9, MidnightKeeps
<1>10. CASE UNCHANGED vars
  BY <1>10, StutterKeeps
<1> QED BY <1>1, <1>2, <1>3, <1>4, <1>5, <1>6, <1>7, <1>8, <1>9, <1>10 DEF Next

LEMMA InvariantHolds == Spec => []IInv
  BY InitInvariant, NextKeeps, PTL DEF Spec

\* Every variable keeps to the values the code can give it, and no record says
\* armed without a pass, or comes from a later day.
THEOREM GateTypeCorrect == Spec => []TypeOK
  BY InvariantHolds, InvariantTypes, PTL

\* An entry is let through only on a day whose preflight passed, after an arming.
THEOREM GateNeedsPass == Spec => []LetThroughAfterPass
<1>1. IInv => LetThroughAfterPass
  BY DEF IInv
<1> QED BY <1>1, InvariantHolds, PTL

\* A write by a check opens the gate only if its copy was taken while it was open.
LEMMA OnlyStaleWrites ==
  ASSUME IInv, NEW c \in Checks, SaveResult(c), Ready(Loaded)', ~Ready(Loaded)
  PROVE  check[c].at = "save" /\ check[c].stale
<1>1. PICK pass \in BOOLEAN : Saved(Result(check[c].copy, pass), [check EXCEPT ![c] = NoCheck])
  BY DEF SaveResult, IInv, ChecksOK, CheckOK
<1>2. check[c].at = "save" /\ file' = Result(check[c].copy, pass) /\ day' = day
  BY <1>1 DEF SaveResult, Saved
<1>3. Good(check[c].copy) /\ CheckOK(c)
  BY <1>2 DEF IInv, ChecksOK, CheckOK
<1>4. CASE file' = None
  BY <1>4 DEF Ready, Loaded, Fresh
<1>5. CASE file' # None
  <2>1. file'.armed
    BY <1>2, <1>5 DEF Ready, Loaded, Result
  <2>2. check[c].copy.armed
    BY <1>2, <2>1 DEF Result
  <2> QED BY <1>2, <1>3, <2>2 DEF CheckOK
<1> QED BY <1>4, <1>5

\* Only an arming, or a check begun before the gate was shut, opens it again.
THEOREM OnlyStaleReopens == Spec => OnlyStaleCheckReopens
<1>1. IInv /\ [Next]_vars => [Ready(Loaded)' /\ ~Ready(Loaded)
        => \/ desk.at = "arm"
           \/ \E c \in Checks : check[c].at = "save" /\ check[c].stale]_vars
  <2> SUFFICES ASSUME IInv, [Next]_vars, Ready(Loaded)', ~Ready(Loaded), desk.at # "arm"
               PROVE  \E c \in Checks : check[c].at = "save" /\ check[c].stale
    OBVIOUS
  <2>1. CASE \E c \in Checks : SaveResult(c)
    BY <2>1, OnlyStaleWrites
  <2>2. CASE Midnight
    BY <2>2 DEF Midnight, IInv, ScalarsOK, FileOK, Good, Ready, Loaded, Fresh
  <2>3. CASE Disarm
    <3>1. PICK rec : rec = [desk.copy EXCEPT !.armed = FALSE]
      OBVIOUS
    <3>2. Good(desk.copy)
      BY <2>3 DEF Disarm, IInv, DeskOK
    <3>3. rec \in Records /\ ~rec.armed /\ file' = rec
      BY <2>3, <3>1, <3>2 DEF Disarm, Saved, Good
    <3> QED BY <3>3 DEF Ready, Loaded
  <2>4. CASE UNCHANGED <<day, file>>
    BY <2>4 DEF Ready, Loaded, Fresh
  <2>5. Arm \/ RefuseArm => desk.at = "arm"
    BY DEF Arm, RefuseArm
  <2>6. ASSUME NEW c \in Checks, Begin(c) \/ ReadPositions(c) \/ ReadOrders(c) \/ CheckFails(c)
        PROVE  UNCHANGED <<day, file>>
    BY <2>6 DEF Begin, ReadPositions, ReadOrders, CheckFails
  <2>7. ASSUME NEW next, Trade(next) PROVE UNCHANGED <<day, file>>
    BY <2>7 DEF Trade
  <2>8. ASSUME NEW request, DeskLoad(request) PROVE UNCHANGED <<day, file>>
    BY <2>8 DEF DeskLoad
  <2>9. DeskFails \/ LetThrough \/ OrderEnds \/ Restart \/ UNCHANGED vars => UNCHANGED <<day, file>>
    BY DEF DeskFails, LetThrough, OrderEnds, Restart, vars
  <2> QED BY <2>1, <2>2, <2>3, <2>4, <2>5, <2>6, <2>7, <2>8, <2>9 DEF Next
<1> QED BY <1>1, InvariantHolds, PTL DEF Spec, OnlyStaleCheckReopens

=============================================================================
