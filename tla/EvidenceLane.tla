---------------------------- MODULE EvidenceLane ----------------------------
(***************************************************************************)
(* A paper lane of an experiment (context/session_22c_paper_lane.py, and   *)
(* the cohort in context/asia_d_ema_paper_cohort.py it copies).  Each bar  *)
(* resolves what the lane holds and may open something new.  What happened *)
(* goes to an append-only evidence file, which is all the experiment is    *)
(* judged by; what is held goes to a state file, replaced whole.           *)
(*                                                                         *)
(* A bar's events are written ahead into the state file, then appended one *)
(* line each, then cleared from it.  A write that fails, or a crash, ends  *)
(* the bar at that point; the next bar first replays what is pending.      *)
(***************************************************************************)
EXTENDS Integers, FiniteSets, SequencesExt

CONSTANTS
  Lanes,        \* the sub-lanes, one position each
  Setups,       \* geometries a bar can offer
  None,         \* no position
  Garbled,      \* text no reader can parse
  LastBar,      \* bound on the bars
  BarsPerDay,   \* bars of one observation day
  FirstTraded,  \* the first bar after the epoch start
  MaxTears      \* bound on the lines cut short

ASSUME BarAssumption  == LastBar \in Nat /\ BarsPerDay \in Nat \ {0} /\ FirstTraded \in Nat
ASSUME TearAssumption == MaxTears \in Nat
ASSUME FiniteAssumption == IsFiniteSet(Lanes) /\ IsFiniteSet(Setups)

VARIABLES
  state,   \* state.json: the setups seen, what each lane holds, the events not known to be appended
  lines,   \* evidence.jsonl
  job,     \* process_bar: where it is, its bar, which pending events it takes for written
  clock,   \* the last bar handed to it
  \* history
  told,    \* every event a saved state was made with
  tears,   \* the lines cut short
  unread   \* the evidence file could not be read when its rows were looked up

vars == <<state, lines, job, clock, told, tears, unread>>

Bars   == 1..LastBar
Day(b) == b \div BarsPerDay
Keys   == [day : {Day(b) : b \in Bars}, lane : Lanes, setup : Setups]
Kinds  == {"FILLED", "OUTCOME", "NO_FILL", "BUSY", "PRE_EPOCH"}
Events == [kind : Kinds, bar : Bars, key : Keys]   \* _event_id
Held   == [key : Keys, since : Bars]
Event(kind, b, key) == [kind |-> kind, bar |-> b, key |-> key]

ASSUME NoneAssumption    == None \notin Held
ASSUME GarbledAssumption == Garbled \notin Events

\* A line is an event, or garbled, and may lack its end.
Line(text, ended) == [text |-> text, ended |-> ended]

NoJob == [at |-> "idle", bar |-> 0, written |-> {}]

Init ==
  /\ state = [seen |-> {}, positions |-> [l \in Lanes |-> None], pending |-> <<>>]
  /\ lines = <<>> /\ job = NoJob /\ clock = 0
  /\ told = {} /\ tears = 0 /\ unread = FALSE

(***************************************************************************)
(* The evidence file.                                                      *)
(***************************************************************************)
Durable == {lines[i].text : i \in DOMAIN lines} \ {Garbled}

Ended == lines = <<>> \/ lines[Len(lines)].ended

\* A line behind one without an end becomes part of it.
Appended(text, ended) ==
  IF Ended THEN Append(lines, Line(text, ended))
           ELSE [lines EXCEPT ![Len(lines)] = Line(Garbled, ended)]

\* Mutant: a replay does not look what the file already has.
NothingWritten(events, readable) == {}

\* _written_event_ids: the events of the list that are in the file.  A file
\* that cannot be read has no rows.
Written(events, readable) == {e \in ToSet(events) \cap Durable : readable}

(***************************************************************************)
(* process_bar.                                                            *)
(***************************************************************************)
\* It loads the state and looks up what is pending.  Bars come in order, and
\* one may come twice.  Bound: the file is unreadable once.
Start(b) ==
  /\ job = NoJob /\ b \in {clock, clock + 1}
  /\ \E readable \in BOOLEAN :
       /\ readable \/ ~unread
       /\ job' = [at  |-> IF state.pending = <<>> THEN "decide" ELSE "replay",
                  bar |-> b,
                  written |-> Written(state.pending, readable)]
       /\ unread' = (unread \/ (~readable /\ state.pending # <<>>))
  /\ clock' = b
  /\ UNCHANGED <<state, lines, told, tears>>

\* The first pending event that is not taken for written is the next line.
Flushing == job.at \in {"replay", "flush"}
IsNext(e) ==
  /\ Flushing
  /\ \E i \in DOMAIN state.pending :
       /\ state.pending[i] = e /\ e \notin job.written
       /\ \A k \in 1..(i - 1) : state.pending[k] \in job.written

AppendEvent ==
  /\ \E e \in ToSet(state.pending) :
       /\ IsNext(e)
       /\ lines' = Appended(e, TRUE)
       /\ job' = [job EXCEPT !.written = @ \cup {e}]
  /\ UNCHANGED <<state, clock, told, tears, unread>>

\* The write is cut short, before the end of the event or of the line.
AppendTears ==
  /\ tears < MaxTears
  /\ \E e \in ToSet(state.pending) :
       /\ IsNext(e)
       /\ \E text \in {Garbled, e} : lines' = Appended(text, FALSE)
  /\ job' = NoJob /\ tears' = tears + 1
  /\ UNCHANGED <<state, clock, told, unread>>

ClearPending ==
  /\ Flushing /\ ToSet(state.pending) \subseteq job.written
  /\ state' = [state EXCEPT !.pending = <<>>]
  /\ job' = IF job.at = "replay" THEN [job EXCEPT !.at = "decide", !.written = {}] ELSE NoJob
  /\ UNCHANGED <<lines, clock, told, tears, unread>>

\* Mutant: a setup counts as seen only when the lane was free.
SeenIfFree(offered, lane) == IF state.positions[lane] = None THEN offered ELSE {}

\* lane_candidates: every setup a bar offers is used up for the day, traded or not.
UsedUp(offered, lane) == offered

\* A position resolves, or not, on a later bar of its day, and expires after it.
Closable(b) == {l \in Lanes : state.positions[l] # None /\ state.positions[l].since < b}
Expired(b)  == {l \in Closable(b) : state.positions[l].key.day # Day(b)}

\* What becomes of the picks of a bar, in their order: the first that fills is
\* held, the ones before it did not fill, and the ones after it find the lane busy.
PickKind(free, b, filled, i) ==
  IF b < FirstTraded THEN "PRE_EPOCH"
  ELSE IF ~free \/ (filled # 0 /\ i > filled) THEN "BUSY"
  ELSE IF i = filled THEN "FILLED" ELSE "NO_FILL"

KeysOf(b, lane, offered) == {[day |-> Day(b), lane |-> lane, setup |-> s] : s \in offered}
OutcomesOf(b, closed)    == {Event("OUTCOME", b, state.positions[l].key) : l \in closed}

\* The bar commits: the state with what it seals, holds and has to tell.
Commit(b, closed, lane, keys, outcomes, picks, filled) ==
  LET free   == state.positions[lane] = None \/ lane \in closed
      rows   == [i \in DOMAIN picks |-> Event(PickKind(free, b, filled, i), b, picks[i])]
      events == outcomes \o rows
  IN  /\ filled # 0 => free /\ b >= FirstTraded
      /\ state' = [seen |-> state.seen \cup UsedUp(keys, lane),
                   positions |-> [l \in Lanes |->
                     IF l = lane /\ filled # 0 THEN [key |-> picks[filled], since |-> b]
                     ELSE IF l \in closed THEN None ELSE state.positions[l]],
                   pending |-> events]
      /\ told' = told \cup ToSet(events)
      /\ job' = IF events = <<>> THEN NoJob
                ELSE [job EXCEPT !.at = "flush", !.written = Written(events, TRUE)]

Decide ==
  /\ job.at = "decide"
  /\ \E closed \in SUBSET Closable(job.bar), lane \in Lanes, offered \in SUBSET Setups :
       LET keys == KeysOf(job.bar, lane, offered)
       IN  /\ Expired(job.bar) \subseteq closed
           /\ \E outcomes \in SetToSeqs(OutcomesOf(job.bar, closed)),
                 wanted \in SUBSET (keys \ state.seen) :
              \E picks \in SetToSeqs(wanted), filled \in 0..Cardinality(wanted) :
                Commit(job.bar, closed, lane, keys, outcomes, picks, filled)
  /\ UNCHANGED <<lines, clock, tears, unread>>

\* Mutant: a replay that fails does not hold the bar back.
GoOn == IF job.at = "replay" THEN [job EXCEPT !.at = "decide", !.written = {}] ELSE NoJob

\* A load or a write that fails leaves the file as it was and ends the bar;
\* so does a crash.
GiveUp == NoJob

Stops ==
  /\ job # NoJob /\ job' = GiveUp
  /\ UNCHANGED <<state, lines, clock, told, tears, unread>>

Next ==
  \/ \E b \in Bars : Start(b)
  \/ AppendEvent \/ AppendTears \/ ClearPending \/ Decide \/ Stops

Spec == Init /\ [][Next]_vars

(***************************************************************************)
(* Properties.                                                             *)
(***************************************************************************)
TypeOK ==
  /\ state.seen \subseteq Keys /\ state.positions \in [Lanes -> Held \cup {None}]
  /\ state.pending \in Seq(Events)
  /\ \A l \in Lanes : state.positions[l] # None =>
       state.positions[l].key \in state.seen /\ state.positions[l].key.lane = l
  /\ lines \in Seq([text : Events \cup {Garbled}, ended : BOOLEAN])
  /\ job.at \in {"idle", "replay", "decide", "flush"} /\ job.bar \in 0..LastBar
  /\ job.written \subseteq ToSet(state.pending)
  /\ clock \in 0..LastBar /\ told \subseteq Events /\ tears \in 0..MaxTears /\ unread \in BOOLEAN

\* The file, and the pending events a replay would put behind it.
Unwritten == ToSet(state.pending) \ Durable
Story     == Durable \cup Unwritten

\* Of two rows about one setup the earlier is its fill, the later its outcome.
InOrder(e, f) == e.key = f.key => e.kind = "FILLED" /\ f.kind = "OUTCOME"

\* What a reader finds when the pending events have been replayed has at most a
\* fill and then an outcome for each setup of a day: nothing is journaled or
\* traded twice, whatever failed or stopped in between.
OneStoryPerSetup ==
  ~unread =>
    /\ \A i, j \in DOMAIN lines : i < j /\ Garbled \notin {lines[i].text, lines[j].text}
         => InOrder(lines[i].text, lines[j].text)
    /\ \A e \in Durable, f \in Unwritten : InOrder(e, f)
    /\ \A i, j \in DOMAIN state.pending :
         i < j /\ {state.pending[i], state.pending[j]} \subseteq Unwritten
           => InOrder(state.pending[i], state.pending[j])

\* The state and the evidence tell the same story, but for the line that was cut
\* short and the one written behind it.
LossIsBounded == Cardinality(told \ Story) <= 2 * tears

\* Violated.  A bar that stopped after its state was saved is made good by the
\* next one, which replays what is not yet durable: a line without an end takes
\* the replayed one with it.
ReplayMakesGood == ~unread => told \subseteq Story
=============================================================================
