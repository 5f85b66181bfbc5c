------------------------- MODULE EvidenceLaneProofs -------------------------
(***************************************************************************)
(* Theorems of EvidenceLane, for any lanes and setups, any number of bars  *)
(* and days, and any number of lines cut short.                            *)
(***************************************************************************)
EXTENDS EvidenceLane, SequenceTheorems, FiniteSetTheorems, TLAPS

Rows    == [text : Events \cup {Garbled}, ended : BOOLEAN]
Pending == ToSet(state.pending)

States  == [seen : SUBSET Keys, positions : [Lanes -> Held \cup {None}], pending : Seq(Events)]
Jobs    == [at : {"idle", "replay", "decide", "flush"}, bar : 0..LastBar, written : SUBSET Events]

StateTyped == state \in States
HeldTyped ==
  \A l \in Lanes : state.positions[l] # None =>
    state.positions[l].key \in state.seen /\ state.positions[l].key.lane = l
LinesTyped == lines \in Seq(Rows)
JobTyped ==
  /\ job \in Jobs
  /\ job.written \subseteq Pending
  /\ job.at = "idle" => job = NoJob
  /\ job.at # "idle" => job.bar \in Bars
  /\ job.at = "decide" => state.pending = <<>>
RestTyped ==
  /\ clock \in 0..LastBar /\ told \subseteq Events /\ tears \in 0..MaxTears /\ unread \in BOOLEAN
Typed == StateTyped /\ HeldTyped /\ LinesTyped /\ JobTyped /\ RestTyped

\* Everything there is to read was told, and what was told is of a setup used up.
ToldInv ==
  /\ Durable \subseteq told /\ Pending \subseteq told
  /\ \A e \in told : e.key \in state.seen

\* A setup is told of once, or twice: its fill and its outcome.
OnceInv == \A e, f \in told : e.key = f.key /\ e # f => {e.kind, f.kind} = {"FILLED", "OUTCOME"}

\* Of a setup whose position is held, the fill alone was told.
HeldInv == \A l \in Lanes, e \in told :
             state.positions[l] # None /\ e.key = state.positions[l].key => e.kind = "FILLED"

\* The pending events are of different setups, and a fill is no longer among
\* them when its outcome is told.
PendingInv ==
  /\ \A i, j \in DOMAIN state.pending : i # j => state.pending[i].key # state.pending[j].key
  /\ \A e \in Pending, f \in told : e.key = f.key /\ e.kind = "FILLED" => f.kind # "OUTCOME"

\* Whoever flushes knows what the file has.
KnownInv == ~unread /\ Flushing => Pending \cap Durable \subseteq job.written

LineInv ==
  ~unread => \A i, j \in DOMAIN lines :
    i < j /\ Garbled \notin {lines[i].text, lines[j].text} => InOrder(lines[i].text, lines[j].text)

StoryInv == ToldInv /\ OnceInv /\ HeldInv /\ PendingInv /\ KnownInv /\ LineInv

\* What no replay will put into the file again, and what the line without an
\* end can still take with it.
Spoiled == {e \in told : e \notin Durable /\ (e \in Pending => e \in job.written)}
Debt    == IF Ended THEN 0 ELSE IF lines[Len(lines)].text = Garbled THEN 1 ELSE 2
LossInv == IsFiniteSet(told) /\ Cardinality(Spoiled) + Debt <= 2 * tears

LaneInv == Typed /\ StoryInv /\ LossInv

(***************************************************************************)
(* The files.                                                              *)
(***************************************************************************)
LEMMA InitInv == Init => LaneInv
<1> SUFFICES ASSUME Init PROVE LaneInv
  OBVIOUS
<1>1. StateTyped /\ HeldTyped
  BY DEF Init, StateTyped, HeldTyped, States
<1>2. LinesTyped /\ RestTyped
  <2>1. 0 \in 0..LastBar /\ 0 \in 0..MaxTears
    BY BarAssumption, TearAssumption
  <2>2. clock \in 0..LastBar /\ tears \in 0..MaxTears /\ told \subseteq Events /\ unread \in BOOLEAN
    BY <2>1 DEF Init
  <2> QED BY <2>2 DEF Init, LinesTyped, RestTyped
<1>3. JobTyped
  <2>1. job = NoJob /\ NoJob \in Jobs /\ NoJob.written = {} /\ NoJob.at = "idle"
    BY BarAssumption DEF Init, NoJob, Jobs
  <2> QED BY <2>1 DEF JobTyped
<1>4. StoryInv
  BY DEF Init, StoryInv, ToldInv, OnceInv, HeldInv, PendingInv, KnownInv, LineInv, Durable, Pending,
         ToSet, Flushing, NoJob
<1>5. LossInv
  <2>1. Spoiled = {} /\ Debt = 0
    BY DEF Init, Spoiled, Debt, Ended
  <2> QED BY <2>1, FS_EmptySet DEF Init, LossInv
<1> QED BY <1>1, <1>2, <1>3, <1>4, <1>5 DEF LaneInv, Typed

\* A line goes behind the others, or the line without an end becomes garbled.
LEMMA AppendBehind ==
  ASSUME LinesTyped, NEW text \in Events \cup {Garbled}, NEW ended \in BOOLEAN,
         Ended, lines' = Appended(text, ended)
  PROVE  /\ lines' \in Seq(Rows) /\ Len(lines) \in Nat /\ DOMAIN lines = 1..Len(lines)
         /\ DOMAIN lines' = 1..(Len(lines) + 1) /\ Len(lines') = Len(lines) + 1
         /\ \A i \in DOMAIN lines : lines'[i] = lines[i]
         /\ lines'[Len(lines) + 1] = Line(text, ended)
BY DEF LinesTyped, Appended, Rows, Line

LEMMA AppendInto ==
  ASSUME LinesTyped, NEW text \in Events \cup {Garbled}, NEW ended \in BOOLEAN,
         ~Ended, lines' = Appended(text, ended)
  PROVE  /\ lines' \in Seq(Rows) /\ Len(lines) \in Nat \ {0} /\ DOMAIN lines = 1..Len(lines)
         /\ DOMAIN lines' = DOMAIN lines /\ Len(lines') = Len(lines)
         /\ \A i \in DOMAIN lines : i # Len(lines) => lines'[i] = lines[i]
         /\ lines'[Len(lines)] = Line(Garbled, ended)
<1>1. lines \in Seq(Rows) /\ lines # <<>> /\ Len(lines) \in Nat /\ DOMAIN lines = 1..Len(lines)
  BY DEF LinesTyped, Ended
<1>2. Len(lines) # 0
  BY <1>1, EmptySeq
<1>3. lines' = [lines EXCEPT ![Len(lines)] = Line(Garbled, ended)]
  BY DEF Appended
<1>4. Line(Garbled, ended) \in Rows
  BY DEF Line, Rows
<1> QED BY <1>1, <1>2, <1>3, <1>4, ExceptSeq

\* What is durable after a write.
LEMMA DurableBehind ==
  ASSUME LinesTyped, NEW text \in Events \cup {Garbled}, NEW ended \in BOOLEAN,
         Ended, lines' = Appended(text, ended)
  PROVE  Durable' = Durable \cup ({text} \ {Garbled})
<1>1. /\ Len(lines) \in Nat /\ DOMAIN lines = 1..Len(lines) /\ DOMAIN lines' = 1..(Len(lines) + 1)
      /\ \A i \in DOMAIN lines : lines'[i] = lines[i]
      /\ lines'[Len(lines) + 1] = Line(text, ended)
  BY AppendBehind
<1>2. lines'[Len(lines) + 1].text = text
  BY <1>1 DEF Line
<1>3. ASSUME NEW e \in Durable' PROVE e \in Durable \cup ({text} \ {Garbled})
  <2>1. PICK i \in DOMAIN lines' : e = lines'[i].text /\ e # Garbled
    BY <1>3 DEF Durable
  <2> QED BY <2>1, <1>1, <1>2 DEF Durable
<1>4. ASSUME NEW e \in Durable PROVE e \in Durable'
  <2>1. PICK i \in DOMAIN lines : e = lines[i].text /\ e # Garbled
    BY <1>4 DEF Durable
  <2>2. i \in DOMAIN lines' /\ e = lines'[i].text
    BY <2>1, <1>1
  <2> QED BY <2>1, <2>2 DEF Durable
<1>5. text # Garbled => text \in Durable'
  BY <1>1, <1>2 DEF Durable
<1> QED BY <1>3, <1>4, <1>5

LEMMA DurableInto ==
  ASSUME LinesTyped, NEW text \in Events \cup {Garbled}, NEW ended \in BOOLEAN,
         ~Ended, lines' = Appended(text, ended)
  PROVE  Durable' \subseteq Durable /\ Durable \subseteq Durable' \cup {lines[Len(lines)].text}
<1>1. /\ DOMAIN lines' = DOMAIN lines
      /\ \A i \in DOMAIN lines : i # Len(lines) => lines'[i] = lines[i]
      /\ lines'[Len(lines)] = Line(Garbled, ended)
  BY AppendInto
<1>2. lines'[Len(lines)].text = Garbled
  BY <1>1 DEF Line
<1>3. ASSUME NEW e \in Durable' PROVE e \in Durable
  <2>1. PICK i \in DOMAIN lines : e = lines'[i].text /\ e # Garbled
    BY <1>3, <1>1 DEF Durable
  <2> QED BY <2>1, <1>1, <1>2 DEF Durable
<1>4. ASSUME NEW e \in Durable, e # lines[Len(lines)].text PROVE e \in Durable'
  <2>1. PICK i \in DOMAIN lines : e = lines[i].text /\ e # Garbled
    BY <1>4 DEF Durable
  <2>2. i \in DOMAIN lines' /\ e = lines'[i].text
    BY <2>1, <1>1, <1>4
  <2> QED BY <2>1, <2>2 DEF Durable
<1> QED BY <1>3, <1>4

(***************************************************************************)
(* What is lost.                                                           *)
(***************************************************************************)
LEMMA OneMore ==
  ASSUME NEW S, IsFiniteSet(S), NEW x, NEW T, T \subseteq S \cup {x}
  PROVE  IsFiniteSet(T) /\ Cardinality(T) <= Cardinality(S) + 1
<1>1. IsFiniteSet(S \cup {x}) /\ Cardinality(S \cup {x}) =
        IF x \in S THEN Cardinality(S) ELSE Cardinality(S) + 1
  BY FS_AddElement
<1>2. Cardinality(S) \in Nat
  BY FS_CardinalityType
<1>3. T \in SUBSET (S \cup {x})
  OBVIOUS
<1>4. IsFiniteSet(T) /\ Cardinality(T) <= Cardinality(S \cup {x})
  BY <1>1, <1>3, FS_Subset
<1>5. Cardinality(T) \in Nat
  BY <1>4, FS_CardinalityType
<1> QED BY <1>1, <1>2, <1>4, <1>5

LEMMA LossFacts ==
  ASSUME LossInv
  PROVE  IsFiniteSet(Spoiled) /\ Cardinality(Spoiled) \in Nat /\ Debt \in 0..2
<1>1. IsFiniteSet(Spoiled)
  <2>1. Spoiled \subseteq told BY DEF Spoiled
  <2> QED BY <2>1, FS_Subset DEF LossInv
<1>2. Debt \in 0..2
  BY DEF Debt
<1> QED BY <1>1, <1>2, FS_CardinalityType

\* A step that spoils nothing and writes nothing.
LEMMA LossKept ==
  ASSUME LossInv, RestTyped, IsFiniteSet(told'), Spoiled' \subseteq Spoiled,
         lines' = lines, tears' = tears
  PROVE  LossInv'
<1>1. Debt' = Debt
  BY DEF Debt, Ended
<1>2. IsFiniteSet(Spoiled) /\ Cardinality(Spoiled) \in Nat /\ Debt \in 0..2
  BY LossFacts
<1>3. Cardinality(Spoiled') <= Cardinality(Spoiled) /\ Cardinality(Spoiled') \in Nat
  BY <1>2, FS_Subset, FS_CardinalityType
<1>4. Cardinality(Spoiled) + Debt <= 2 * tears /\ tears \in Nat
  BY TearAssumption DEF LossInv, RestTyped
<1>5. Cardinality(Spoiled') + Debt' <= 2 * tears'
  BY <1>1, <1>2, <1>3, <1>4
<1> QED BY <1>5 DEF LossInv

(***************************************************************************)
(* A step that touches neither the state nor the evidence.                 *)
(***************************************************************************)
LEMMA FilesUntouched ==
  ASSUME LaneInv, UNCHANGED <<state, lines, told, tears>>
  PROVE  /\ StateTyped' /\ HeldTyped' /\ LinesTyped' /\ Pending' = Pending /\ Durable' = Durable
         /\ ToldInv' /\ OnceInv' /\ HeldInv' /\ PendingInv' /\ IsFiniteSet(told')
<1>1. Pending' = Pending /\ Durable' = Durable
  BY DEF Pending, Durable
<1>2. StateTyped' /\ HeldTyped' /\ LinesTyped'
  BY DEF LaneInv, Typed, StateTyped, HeldTyped, LinesTyped
<1>3. ToldInv' /\ OnceInv' /\ HeldInv' /\ PendingInv' /\ IsFiniteSet(told')
  BY <1>1 DEF LaneInv, StoryInv, ToldInv, OnceInv, HeldInv, PendingInv, LossInv
<1> QED BY <1>1, <1>2, <1>3

LEMMA PendingTyped ==
  ASSUME StateTyped
  PROVE  /\ Pending \subseteq Events
         /\ \A i \in DOMAIN state.pending : state.pending[i] \in Pending
         /\ state.pending = <<>> => Pending = {}
<1>1. state.pending \in Seq(Events)
  BY DEF StateTyped, States
<1> QED BY <1>1 DEF Pending, ToSet

LEMMA StopsKeeps == ASSUME LaneInv, Stops PROVE LaneInv'
<1> USE DEF Stops, GiveUp
<1>1. /\ StateTyped' /\ HeldTyped' /\ LinesTyped' /\ Pending' = Pending /\ Durable' = Durable
      /\ ToldInv' /\ OnceInv' /\ HeldInv' /\ PendingInv' /\ IsFiniteSet(told')
  BY FilesUntouched
<1>2. job' = NoJob /\ NoJob \in Jobs /\ NoJob.written = {} /\ NoJob.at = "idle"
  BY BarAssumption DEF NoJob, Jobs
<1>3. JobTyped' /\ RestTyped'
  BY <1>2 DEF JobTyped, RestTyped, LaneInv, Typed
<1>4. KnownInv' /\ LineInv'
  BY <1>2 DEF KnownInv, Flushing, LineInv, LaneInv, StoryInv
<1>5. Spoiled' \subseteq Spoiled
  BY <1>1, <1>2 DEF Spoiled
<1>6. LossInv'
  BY <1>1, <1>5, LossKept DEF LaneInv, Typed
<1> QED BY <1>1, <1>3, <1>4, <1>6 DEF LaneInv, Typed, StoryInv

LEMMA StartKeeps == ASSUME LaneInv, NEW b \in Bars, Start(b) PROVE LaneInv'
<1>1. /\ StateTyped' /\ HeldTyped' /\ LinesTyped' /\ Pending' = Pending /\ Durable' = Durable
      /\ ToldInv' /\ OnceInv' /\ HeldInv' /\ PendingInv' /\ IsFiniteSet(told')
  BY FilesUntouched DEF Start
<1>2. PICK readable \in BOOLEAN :
        /\ job' = [at  |-> IF state.pending = <<>> THEN "decide" ELSE "replay",
                   bar |-> b, written |-> Written(state.pending, readable)]
        /\ unread' = (unread \/ (~readable /\ state.pending # <<>>))
  BY DEF Start
<1>3. Written(state.pending, readable) = {e \in Pending \cap Durable : readable}
  BY DEF Written, Pending
<1>4. b \in 0..LastBar /\ job = NoJob /\ clock' = b
  BY BarAssumption DEF Start, Bars
<1>5. Pending \subseteq Events
  BY PendingTyped DEF LaneInv, Typed
<1>6. JobTyped'
  BY <1>1, <1>2, <1>3, <1>4, <1>5 DEF JobTyped, Jobs, Start
<1>7. RestTyped'
  BY <1>2, <1>4 DEF Start, RestTyped, LaneInv, Typed
<1>8. KnownInv'
  <2> SUFFICES ASSUME ~unread', Flushing' PROVE Pending' \cap Durable' \subseteq job'.written
    BY DEF KnownInv
  <2>1. readable
    BY <1>2 DEF Flushing
  <2> QED BY <2>1, <1>1, <1>2, <1>3
<1>9. LineInv'
  BY <1>2 DEF Start, LineInv, LaneInv, StoryInv
<1>10. LossInv'
  <2>1. job.written = {} BY <1>4 DEF NoJob
  <2>2. job'.written \subseteq Durable BY <1>2, <1>3
  <2>3. Spoiled' \subseteq Spoiled BY <1>1, <2>1, <2>2 DEF Spoiled, Start
  <2> QED BY <1>1, <2>3, LossKept DEF LaneInv, Typed, Start
<1> QED BY <1>1, <1>6, <1>7, <1>8, <1>9, <1>10 DEF LaneInv, Typed, StoryInv

LEMMA ClearPendingKeeps == ASSUME LaneInv, ClearPending PROVE LaneInv'
<1>1. /\ state \in States /\ state' = [state EXCEPT !.pending = <<>>]
      /\ Pending \subseteq job.written /\ Flushing
  BY DEF LaneInv, Typed, StateTyped, ClearPending, Pending
<1>2. /\ state' \in States /\ state'.pending = <<>> /\ state'.seen = state.seen
      /\ state'.positions = state.positions
  <2>1. state' = [seen |-> state.seen, positions |-> state.positions, pending |-> <<>>]
    BY <1>1 DEF States
  <2>2. state.seen \in SUBSET Keys /\ state.positions \in [Lanes -> Held \cup {None}]
        /\ <<>> \in Seq(Events)
    BY <1>1 DEF States
  <2> QED BY <2>1, <2>2 DEF States
<1>3. Pending' = {} /\ Durable' = Durable
  BY <1>2 DEF Pending, Durable, ToSet, ClearPending
<1>4. StateTyped' /\ HeldTyped' /\ LinesTyped'
  BY <1>2 DEF LaneInv, Typed, StateTyped, HeldTyped, LinesTyped, ClearPending
<1>5. job' \in Jobs /\ job'.written = {} /\ job'.at \in {"idle", "decide"}
      /\ (job'.at = "idle" => job' = NoJob) /\ (job'.at = "decide" => job'.bar \in Bars)
  <2>1. job \in Jobs /\ job.bar \in Bars
    BY <1>1 DEF LaneInv, Typed, JobTyped, Flushing
  <2>2. NoJob \in Jobs /\ NoJob.written = {} /\ NoJob.at = "idle"
    BY BarAssumption DEF NoJob, Jobs
  <2>3. CASE job.at = "replay"
    <3>1. job' = [job EXCEPT !.at = "decide", !.written = {}]
      BY <2>3 DEF ClearPending
    <3> QED BY <3>1, <2>1 DEF Jobs
  <2>4. CASE job.at # "replay"
    BY <2>4, <2>2 DEF ClearPending
  <2> QED BY <2>3, <2>4
<1>6. JobTyped'
  BY <1>2, <1>3, <1>5 DEF JobTyped
<1>7. RestTyped'
  BY DEF LaneInv, Typed, RestTyped, ClearPending
<1>8. ToldInv' /\ OnceInv' /\ HeldInv' /\ PendingInv'
  BY <1>2, <1>3 DEF ToldInv, OnceInv, HeldInv, PendingInv, LaneInv, StoryInv, ClearPending
<1>9. KnownInv' /\ LineInv'
  BY <1>3 DEF KnownInv, LineInv, LaneInv, StoryInv, ClearPending
<1>10. LossInv'
  <2>1. Spoiled' \subseteq Spoiled
    BY <1>1, <1>3, <1>5 DEF Spoiled, ClearPending
  <2> QED BY <2>1, LossKept DEF LaneInv, Typed, ClearPending, LossInv
<1> QED BY <1>4, <1>6, <1>7, <1>8, <1>9, <1>10 DEF LaneInv, Typed, StoryInv

(***************************************************************************)
(* A line is written.                                                      *)
(***************************************************************************)
LEMMA NextFacts ==
  ASSUME LaneInv, NEW e \in Pending, IsNext(e)
  PROVE  /\ e \in Events /\ e \in told /\ e \notin job.written /\ Flushing
         /\ ~unread => e \notin Durable
<1>1. e \in Events /\ e \in told
  BY PendingTyped DEF LaneInv, Typed, StoryInv, ToldInv
<1> QED BY <1>1 DEF IsNext, LaneInv, StoryInv, KnownInv

LEMMA WriteFacts ==
  ASSUME LaneInv, NEW e \in Pending, IsNext(e), NEW text \in {Garbled, e}, NEW ended \in BOOLEAN,
         lines' = Appended(text, ended), UNCHANGED <<state, told, unread>>
  PROVE  /\ StateTyped' /\ HeldTyped' /\ LinesTyped' /\ Pending' = Pending
         /\ Durable' \subseteq Durable \cup {e}
         /\ ToldInv' /\ OnceInv' /\ HeldInv' /\ PendingInv' /\ LineInv'
<1>1. /\ e \in Events /\ e \in told /\ e \notin job.written /\ Flushing
      /\ ~unread => e \notin Durable
  BY NextFacts
<1>2. text \in Events \cup {Garbled} /\ LinesTyped
  BY <1>1 DEF LaneInv, Typed
<1>3. Pending' = Pending /\ StateTyped' /\ HeldTyped'
  BY DEF Pending, LaneInv, Typed, StateTyped, HeldTyped
<1>4. LinesTyped'
  BY <1>2, AppendBehind, AppendInto DEF LinesTyped
<1>5. Durable' \subseteq Durable \cup {e}
  BY <1>2, DurableBehind, DurableInto
<1>6. ToldInv' /\ OnceInv' /\ HeldInv' /\ PendingInv'
  BY <1>1, <1>3, <1>5 DEF LaneInv, StoryInv, ToldInv, OnceInv, HeldInv, PendingInv
<1>7. LineInv'
  <2> SUFFICES ASSUME ~unread, NEW i \in DOMAIN lines', NEW j \in DOMAIN lines', i < j,
                      Garbled \notin {lines'[i].text, lines'[j].text}
               PROVE  InOrder(lines'[i].text, lines'[j].text)
    BY DEF LineInv
  <2>1. ASSUME i \in DOMAIN lines, j \in DOMAIN lines,
               lines'[i] = lines[i], lines'[j] = lines[j]
        PROVE  InOrder(lines'[i].text, lines'[j].text)
    BY <2>1 DEF LaneInv, StoryInv, LineInv
  <2>2. CASE ~Ended
    <3>1. /\ DOMAIN lines' = DOMAIN lines /\ lines'[Len(lines)] = Line(Garbled, ended)
          /\ \A k \in DOMAIN lines : k # Len(lines) => lines'[k] = lines[k]
      BY <1>2, <2>2, AppendInto
    <3>2. i # Len(lines) /\ j # Len(lines)
      BY <3>1 DEF Line
    <3> QED BY <2>1, <3>1, <3>2
  <2>3. CASE Ended
    <3>1. /\ Len(lines) \in Nat /\ DOMAIN lines = 1..Len(lines)
          /\ DOMAIN lines' = 1..(Len(lines) + 1)
          /\ \A k \in DOMAIN lines : lines'[k] = lines[k]
          /\ lines'[Len(lines) + 1] = Line(text, ended)
      BY <1>2, <2>3, AppendBehind
    <3>2. i \in DOMAIN lines /\ (j \in DOMAIN lines \/ j = Len(lines) + 1)
      BY <3>1
    <3>3. CASE j = Len(lines) + 1
      <4>1. lines'[j].text = e
        BY <3>1, <3>3 DEF Line
      <4>2. lines'[i].text = lines[i].text /\ lines[i].text \in Durable
        BY <3>1, <3>2 DEF Durable
      <4>3. lines[i].text # e /\ lines[i].text \in told
        BY <1>1, <4>2 DEF LaneInv, StoryInv, ToldInv
      <4> QED BY <1>1, <4>1, <4>2, <4>3 DEF InOrder, LaneInv, StoryInv, OnceInv, PendingInv
    <3> QED BY <2>1, <3>1, <3>2, <3>3
  <2> QED BY <2>2, <2>3
<1> QED BY <1>3, <1>4, <1>5, <1>6, <1>7

LEMMA AppendEventKeeps == ASSUME LaneInv, AppendEvent PROVE LaneInv'
<1>1. PICK e \in Pending : /\ IsNext(e) /\ lines' = Appended(e, TRUE)
                           /\ job' = [job EXCEPT !.written = @ \cup {e}]
  BY DEF AppendEvent, Pending
<1>2. /\ e \in Events /\ e \in told /\ e \notin job.written /\ Flushing
      /\ ~unread => e \notin Durable
  BY <1>1, NextFacts
<1>3. e # Garbled /\ e \in Events \cup {Garbled} /\ LinesTyped
  BY <1>2, GarbledAssumption DEF LaneInv, Typed
<1>4. UNCHANGED <<state, clock, told, tears, unread>>
  BY DEF AppendEvent
<1>5. /\ StateTyped' /\ HeldTyped' /\ LinesTyped' /\ Pending' = Pending
      /\ Durable' \subseteq Durable \cup {e}
      /\ ToldInv' /\ OnceInv' /\ HeldInv' /\ PendingInv' /\ LineInv'
  BY <1>1, <1>4, WriteFacts
<1>6. job' \in Jobs /\ job'.at = job.at /\ job'.bar = job.bar /\ job'.written = job.written \cup {e}
  BY <1>1, <1>2 DEF Jobs, LaneInv, Typed, JobTyped
<1>7. JobTyped' /\ RestTyped'
  BY <1>2, <1>4, <1>5, <1>6 DEF JobTyped, RestTyped, LaneInv, Typed, Flushing
<1>8. KnownInv'
  BY <1>2, <1>4, <1>5, <1>6 DEF KnownInv, LaneInv, StoryInv, Flushing
<1>9. LossInv'
  <2>1. /\ IsFiniteSet(Spoiled) /\ Cardinality(Spoiled) \in Nat /\ IsFiniteSet(told')
        /\ Cardinality(Spoiled) + Debt <= 2 * tears /\ tears \in Nat
    BY LossFacts, <1>4, TearAssumption DEF LaneInv, LossInv, Typed, RestTyped
  <2>2. CASE Ended
    <3>1. Durable' = Durable \cup {e}
      BY <1>1, <1>3, <2>2, DurableBehind
    <3>2. Spoiled' \subseteq Spoiled
      BY <1>4, <1>5, <1>6, <3>1 DEF Spoiled
    <3>3. lines' # <<>> /\ lines'[Len(lines')] = Line(e, TRUE)
      <4>1. /\ Len(lines') = Len(lines) + 1 /\ Len(lines) \in Nat
            /\ lines'[Len(lines) + 1] = Line(e, TRUE) /\ lines' \in Seq(Rows)
        BY <1>1, <1>3, <2>2, AppendBehind
      <4>2. lines' # <<>>
        BY <4>1
      <4> QED BY <4>1, <4>2
    <3>4. Debt' = 0 /\ Debt = 0
      BY <3>3, <2>2 DEF Debt, Ended, Line
    <3>5. Cardinality(Spoiled') <= Cardinality(Spoiled) /\ Cardinality(Spoiled') \in Nat
      BY <2>1, <3>2, FS_Subset, FS_CardinalityType
    <3> QED BY <1>4, <2>1, <3>4, <3>5 DEF LossInv
  <2>3. CASE ~Ended
    <3> DEFINE last == lines[Len(lines)].text
    <3>1. Durable \subseteq Durable' \cup {last}
      BY <1>1, <1>3, <2>3, DurableInto
    <3>2. Spoiled' \subseteq (Spoiled \cup {e}) \cup ({last} \cap Durable)
      BY <1>4, <1>5, <1>6, <3>1 DEF Spoiled
    <3>3. lines' # <<>> /\ lines'[Len(lines')].ended
      <4>1. /\ Len(lines') = Len(lines) /\ Len(lines) \in Nat \ {0}
            /\ lines'[Len(lines)] = Line(Garbled, TRUE) /\ lines' \in Seq(Rows)
        BY <1>1, <1>3, <2>3, AppendInto
      <4> QED BY <4>1 DEF Line
    <3>4. Debt' = 0
      BY <3>3 DEF Debt, Ended
    <3>5. Debt = IF last = Garbled THEN 1 ELSE 2
      BY <2>3 DEF Debt
    <3>6. /\ IsFiniteSet(Spoiled \cup {e}) /\ Cardinality(Spoiled \cup {e}) <= Cardinality(Spoiled) + 1
      BY <2>1, OneMore
    <3>7. Cardinality(Spoiled \cup {e}) \in Nat
      BY <3>6, FS_CardinalityType
    <3>8. CASE last = Garbled
      <4>1. Spoiled' \subseteq Spoiled \cup {e}
        BY <3>2, <3>8 DEF Durable
      <4>2. Cardinality(Spoiled') <= Cardinality(Spoiled) + 1 /\ Cardinality(Spoiled') \in Nat
        BY <2>1, <4>1, OneMore, FS_CardinalityType
      <4> QED BY <1>4, <2>1, <3>4, <3>5, <3>8, <4>2 DEF LossInv
    <3>9. CASE last # Garbled
      <4>1. Spoiled' \subseteq (Spoiled \cup {e}) \cup {last}
        BY <3>2
      <4>2. /\ Cardinality(Spoiled') <= Cardinality(Spoiled \cup {e}) + 1
            /\ Cardinality(Spoiled') \in Nat
        BY <3>6, <4>1, OneMore, FS_CardinalityType
      <4> QED BY <1>4, <2>1, <3>4, <3>5, <3>6, <3>7, <3>9, <4>2 DEF LossInv
    <3> QED BY <3>8, <3>9
  <2> QED BY <2>2, <2>3
<1> QED BY <1>5, <1>7, <1>8, <1>9 DEF LaneInv, Typed, StoryInv

LEMMA AppendTearsKeeps == ASSUME LaneInv, AppendTears PROVE LaneInv'
<1>1. PICK e \in Pending : IsNext(e) /\ \E text \in {Garbled, e} : lines' = Appended(text, FALSE)
  BY DEF AppendTears, Pending
<1>2. PICK text \in {Garbled, e} : lines' = Appended(text, FALSE)
  BY <1>1
<1>3. text \in Events \cup {Garbled} /\ LinesTyped
  BY <1>1, NextFacts DEF LaneInv, Typed
<1>4. /\ UNCHANGED <<state, clock, told, unread>>
      /\ tears' = tears + 1 /\ tears < MaxTears /\ tears \in 0..MaxTears
      /\ job' = NoJob /\ NoJob \in Jobs /\ NoJob.written = {} /\ NoJob.at = "idle"
  BY BarAssumption DEF AppendTears, LaneInv, Typed, RestTyped, NoJob, Jobs
<1>5. /\ StateTyped' /\ HeldTyped' /\ LinesTyped' /\ Pending' = Pending
      /\ Durable' \subseteq Durable \cup {e}
      /\ ToldInv' /\ OnceInv' /\ HeldInv' /\ PendingInv' /\ LineInv'
  BY <1>1, <1>2, <1>4, WriteFacts
<1>6. tears' \in 0..MaxTears
  BY <1>4, TearAssumption
<1>7. JobTyped' /\ RestTyped' /\ KnownInv'
  BY <1>4, <1>6 DEF JobTyped, RestTyped, KnownInv, LaneInv, Typed, Flushing
<1>8. LossInv'
  <2>1. /\ IsFiniteSet(Spoiled) /\ Cardinality(Spoiled) \in Nat /\ IsFiniteSet(told')
        /\ Cardinality(Spoiled) + Debt <= 2 * tears /\ tears \in Nat
    BY LossFacts, <1>4, TearAssumption DEF LaneInv, LossInv
  <2>2. Debt' \in 0..2
    BY DEF Debt
  <2>3. CASE Ended
    <3>1. Durable \subseteq Durable' /\ Debt = 0
      BY <1>2, <1>3, <2>3, DurableBehind DEF Debt
    <3>2. Spoiled' \subseteq Spoiled
      BY <1>4, <1>5, <3>1 DEF Spoiled
    <3>3. Cardinality(Spoiled') <= Cardinality(Spoiled) /\ Cardinality(Spoiled') \in Nat
      BY <2>1, <3>2, FS_Subset, FS_CardinalityType
    <3> QED BY <1>4, <2>1, <2>2, <3>1, <3>3 DEF LossInv
  <2>4. CASE ~Ended
    <3>1. Durable \subseteq Durable' \cup {lines[Len(lines)].text} /\ Debt \in {1, 2}
      BY <1>2, <1>3, <2>4, DurableInto DEF Debt
    <3>2. Spoiled' \subseteq Spoiled \cup {lines[Len(lines)].text}
      BY <1>4, <1>5, <3>1 DEF Spoiled
    <3>3. Cardinality(Spoiled') <= Cardinality(Spoiled) + 1 /\ Cardinality(Spoiled') \in Nat
      BY <2>1, <3>2, OneMore, FS_CardinalityType
    <3> QED BY <1>4, <2>1, <2>2, <3>1, <3>3 DEF LossInv
  <2> QED BY <2>3, <2>4
<1> QED BY <1>5, <1>7, <1>8 DEF LaneInv, Typed, StoryInv

(***************************************************************************)
(* A bar is decided.                                                       *)
(***************************************************************************)
LEMMA Arranged ==
  ASSUME NEW S, IsFiniteSet(S), NEW q \in SetToSeqs(S)
  PROVE  /\ q \in Seq(S) /\ DOMAIN q = 1..Len(q) /\ Len(q) = Cardinality(S) /\ Len(q) \in Nat
         /\ \A i \in DOMAIN q : q[i] \in S
         /\ \A i, j \in DOMAIN q : i # j => q[i] # q[j]
<1>1. Cardinality(S) \in Nat
  BY FS_CardinalityType
<1>2. /\ q \in [1..Cardinality(S) -> S]
      /\ \A i, j \in 1..Cardinality(S) : i # j => q[i] # q[j]
  BY DEF SetToSeqs
<1>3. q \in Seq(S) /\ Len(q) = Cardinality(S)
  BY <1>1, <1>2, IsASeq
<1> QED BY <1>1, <1>2, <1>3

LEMMA ElementsFinite ==
  ASSUME NEW S, NEW q \in Seq(S)
  PROVE  IsFiniteSet(ToSet(q))
<1>1. Len(q) \in Nat /\ DOMAIN q = 1..Len(q)
  OBVIOUS
<1>2. IsFiniteSet(1..Len(q))
  BY <1>1, FS_Interval
<1>3. q \in Surjection(1..Len(q), ToSet(q))
  BY <1>1 DEF ToSet, Surjection
<1> QED BY <1>2, <1>3, FS_Surjection

\* What the choices of a decision come to.
Decision(closed, lane, keys, wanted, events) ==
  /\ \A l \in closed : state.positions[l] # None
  /\ keys \subseteq Keys /\ \A k \in keys : k.lane = lane
  /\ wanted \subseteq keys \ state.seen
  /\ \A e \in ToSet(events) :
       \/ e.kind = "OUTCOME" /\ \E l \in closed : e.key = state.positions[l].key
       \/ e.kind # "OUTCOME" /\ e.key \in wanted
  /\ \A i, j \in DOMAIN events : i # j => events[i].key # events[j].key
  /\ state' \in States /\ state'.seen = state.seen \cup keys /\ state'.pending = events
  /\ \A l \in Lanes :
       \/ state'.positions[l] = None
       \/ l \notin closed /\ state'.positions[l] = state.positions[l]
       \/ /\ l = lane /\ state'.positions[l].key \in wanted
          /\ \A e \in ToSet(events) : e.key = state'.positions[l].key => e.kind = "FILLED"
  /\ told' = told \cup ToSet(events)
  /\ job' = IF events = <<>> THEN NoJob
            ELSE [job EXCEPT !.at = "flush", !.written = ToSet(events) \cap Durable]

LEMMA DecisionKeeps ==
  ASSUME LaneInv, job.at = "decide", UNCHANGED <<lines, clock, tears, unread>>,
         NEW closed \in SUBSET Lanes, NEW lane \in Lanes, NEW keys, NEW wanted, NEW events \in Seq(Events),
         Decision(closed, lane, keys, wanted, events)
  PROVE  LaneInv'
<1> USE DEF Decision
<1>1. Pending' = ToSet(events) /\ Durable' = Durable /\ Pending = {}
  BY PendingTyped DEF Pending, Durable, LaneInv, Typed, JobTyped
<1>2. Typed /\ StoryInv /\ state.seen \subseteq state'.seen
  BY DEF LaneInv
<1>3. ToSet(events) \subseteq Events
  BY DEF ToSet
<1>4. \A k \in wanted : k \in state'.seen /\ k \notin state.seen /\ k.lane = lane
  OBVIOUS
<1>5. ASSUME NEW l \in Lanes, state.positions[l] # None
      PROVE  state.positions[l].key \in state.seen /\ state.positions[l].key.lane = l
  BY <1>2, <1>5 DEF Typed, HeldTyped
<1>6. StateTyped' /\ LinesTyped'
  BY <1>2 DEF StateTyped, LinesTyped, Typed
<1>7. HeldTyped'
  BY <1>2, <1>4, <1>5 DEF HeldTyped
<1>8. JobTyped'
  <2>1. job \in Jobs /\ job.bar \in Bars
    BY <1>2 DEF Typed, JobTyped
  <2>2. CASE events = <<>>
    <3>1. job' = NoJob /\ NoJob \in Jobs /\ NoJob.written = {} /\ NoJob.at = "idle"
      BY <2>2, BarAssumption DEF NoJob, Jobs
    <3> QED BY <3>1 DEF JobTyped
  <2>3. CASE events # <<>>
    <3>1. /\ job' \in Jobs /\ job'.at = "flush" /\ job'.bar = job.bar
          /\ job'.written = ToSet(events) \cap Durable
      BY <2>1, <2>3, <1>3 DEF Jobs
    <3> QED BY <3>1, <2>1, <1>1 DEF JobTyped
  <2> QED BY <2>2, <2>3
<1>9. RestTyped'
  BY <1>2, <1>3 DEF RestTyped, Typed
<1>10. \A e \in ToSet(events), f \in ToSet(events) : e.key = f.key => e = f
  BY DEF ToSet
<1>11. \A e \in told : e.key \in state.seen
  BY <1>2 DEF StoryInv, ToldInv
<1>12. ToldInv'
  BY <1>1, <1>2, <1>4, <1>5, <1>11 DEF StoryInv, ToldInv
\* An event of the bar about a setup that was told of is the outcome of its fill.
<1>13. ASSUME NEW e \in told, NEW f \in ToSet(events), e.key = f.key
       PROVE  e.kind = "FILLED" /\ f.kind = "OUTCOME"
  <2>1. f.key \notin wanted
    BY <1>4, <1>11, <1>13
  <2>2. PICK l \in closed : f.kind = "OUTCOME" /\ f.key = state.positions[l].key
    BY <2>1
  <2> QED BY <2>2, <1>2, <1>13 DEF StoryInv, HeldInv
<1>14. OnceInv'
  <2> SUFFICES ASSUME NEW e \in told', NEW f \in told', e.key = f.key, e # f
               PROVE  {e.kind, f.kind} = {"FILLED", "OUTCOME"}
    BY DEF OnceInv
  <2>1. CASE e \in told /\ f \in told
    BY <2>1, <1>2 DEF StoryInv, OnceInv
  <2>2. CASE e \in told /\ f \in ToSet(events)
    BY <2>2, <1>13
  <2>3. CASE e \in ToSet(events) /\ f \in told
    BY <2>3, <1>13
  <2>4. ~(e \in ToSet(events) /\ f \in ToSet(events))
    BY <1>10
  <2> QED BY <2>1, <2>2, <2>3, <2>4
<1>15. HeldInv'
  <2> SUFFICES ASSUME NEW l \in Lanes, NEW e \in told', state'.positions[l] # None,
                      e.key = state'.positions[l].key
               PROVE  e.kind = "FILLED"
    BY DEF HeldInv
  <2>1. CASE l \notin closed /\ state'.positions[l] = state.positions[l]
    <3>1. CASE e \in told
      BY <2>1, <3>1, <1>2 DEF StoryInv, HeldInv
    <3>2. CASE e \in ToSet(events)
      <4>1. e.key \in state.seen /\ e.key.lane = l
        BY <2>1, <1>5
      <4>2. PICK m \in closed : e.key = state.positions[m].key
        BY <3>2, <4>1, <1>4
      <4>3. m = l
        BY <4>1, <4>2, <1>5
      <4> QED BY <4>3, <2>1
    <3> QED BY <3>1, <3>2
  <2>2. CASE /\ l = lane /\ state'.positions[l].key \in wanted
             /\ \A f \in ToSet(events) : f.key = state'.positions[l].key => f.kind = "FILLED"
    BY <2>2, <1>4, <1>11
  <2> QED BY <2>1, <2>2
<1>16. PendingInv'
  <2>1. ASSUME NEW e \in ToSet(events), NEW f \in told', e.key = f.key, e.kind = "FILLED"
        PROVE  f.kind # "OUTCOME"
    BY <2>1, <1>10, <1>13
  <2> QED BY <2>1, <1>1 DEF PendingInv
<1>17. KnownInv'
  <2>1. events # <<>> => job'.written = ToSet(events) \cap Durable
    BY <1>2 DEF Typed, JobTyped, Jobs
  <2>2. events = <<>> => ToSet(events) = {}
    BY DEF ToSet
  <2> QED BY <1>1, <2>1, <2>2 DEF KnownInv
<1>18. LineInv'
  BY <1>2 DEF LineInv, StoryInv
<1>19. LossInv'
  <2>1. IsFiniteSet(told')
    BY ElementsFinite, FS_Union DEF LaneInv, LossInv
  <2>2. job'.written \subseteq Durable
    BY <1>2 DEF Typed, JobTyped, Jobs, NoJob
  <2>3. Spoiled' \subseteq Spoiled
    BY <1>1, <2>2 DEF Spoiled
  <2> QED BY <2>1, <2>3, <1>2, LossKept DEF LaneInv, Typed
<1> QED BY <1>6, <1>7, <1>8, <1>9, <1>12, <1>14, <1>15, <1>16, <1>17, <1>18, <1>19
        DEF LaneInv, Typed, StoryInv

LEMMA KeysFinite ==
  ASSUME NEW b \in Bars, NEW lane \in Lanes, NEW offered \in SUBSET Setups
  PROVE  /\ KeysOf(b, lane, offered) \subseteq Keys /\ IsFiniteSet(KeysOf(b, lane, offered))
         /\ \A k \in KeysOf(b, lane, offered) : k.lane = lane
<1>1. IsFiniteSet(offered)
  BY FiniteAssumption, FS_Subset
<1>2. [s \in offered |-> [day |-> Day(b), lane |-> lane, setup |-> s]]
        \in Surjection(offered, KeysOf(b, lane, offered))
  BY DEF Surjection, KeysOf
<1>3. IsFiniteSet(KeysOf(b, lane, offered))
  BY <1>1, <1>2, FS_Surjection
<1> QED BY <1>3 DEF KeysOf, Keys

LEMMA OutcomesFinite ==
  ASSUME Typed, NEW b \in Bars, NEW closed \in SUBSET Lanes,
         \A l \in closed : state.positions[l] # None
  PROVE  /\ OutcomesOf(b, closed) \subseteq Events /\ IsFiniteSet(OutcomesOf(b, closed))
         /\ \A e \in OutcomesOf(b, closed) :
              /\ e.kind = "OUTCOME" /\ e.bar = b /\ e.key \in state.seen
              /\ \E l \in closed : e.key = state.positions[l].key
<1>1. IsFiniteSet(closed)
  BY FiniteAssumption, FS_Subset
<1>2. [l \in closed |-> Event("OUTCOME", b, state.positions[l].key)]
        \in Surjection(closed, OutcomesOf(b, closed))
  BY DEF Surjection, OutcomesOf
<1>3. IsFiniteSet(OutcomesOf(b, closed))
  BY <1>1, <1>2, FS_Surjection
<1>4. \A l \in closed : state.positions[l].key \in state.seen /\ state.positions[l].key \in Keys
  BY DEF Typed, HeldTyped, StateTyped, States
<1> QED BY <1>3, <1>4 DEF OutcomesOf, Event, Events, Kinds

LEMMA PickKindTyped ==
  ASSUME NEW free, NEW b, NEW filled, NEW i
  PROVE  PickKind(free, b, filled, i) \in Kinds \ {"OUTCOME"}
BY DEF PickKind, Kinds

LEMMA DecideIsDecision ==
  ASSUME LaneInv, Decide
  PROVE  \E closed \in SUBSET Lanes, lane \in Lanes, events \in Seq(Events) :
           \E keys, wanted : Decision(closed, lane, keys, wanted, events)
<1> DEFINE b == job.bar
<1>1. PICK closed \in SUBSET Closable(b), lane \in Lanes, offered \in SUBSET Setups :
        \E outcomes \in SetToSeqs(OutcomesOf(b, closed)),
           wanted \in SUBSET (KeysOf(b, lane, offered) \ state.seen) :
          \E picks \in SetToSeqs(wanted), filled \in 0..Cardinality(wanted) :
            Commit(b, closed, lane, KeysOf(b, lane, offered), outcomes, picks, filled)
  BY DEF Decide
<1> DEFINE keys == KeysOf(b, lane, offered)
<1>2. PICK outcomes \in SetToSeqs(OutcomesOf(b, closed)), wanted \in SUBSET (keys \ state.seen) :
        \E picks \in SetToSeqs(wanted), filled \in 0..Cardinality(wanted) :
          Commit(b, closed, lane, keys, outcomes, picks, filled)
  BY <1>1
<1>3. PICK picks \in SetToSeqs(wanted), filled \in 0..Cardinality(wanted) :
        Commit(b, closed, lane, keys, outcomes, picks, filled)
  BY <1>2
<1> DEFINE free   == state.positions[lane] = None \/ lane \in closed
           rows   == [i \in DOMAIN picks |-> Event(PickKind(free, b, filled, i), b, picks[i])]
           events == outcomes \o rows
<1>4. b \in Bars /\ Typed
  BY DEF Decide, LaneInv, Typed, JobTyped
<1>5. closed \in SUBSET Lanes /\ \A l \in closed : state.positions[l] # None
  BY DEF Closable
<1>6. keys \subseteq Keys /\ IsFiniteSet(keys) /\ \A k \in keys : k.lane = lane
  BY <1>4, KeysFinite
<1>7. /\ OutcomesOf(b, closed) \subseteq Events /\ IsFiniteSet(OutcomesOf(b, closed))
      /\ \A e \in OutcomesOf(b, closed) :
           /\ e.kind = "OUTCOME" /\ e.bar = b /\ e.key \in state.seen
           /\ \E l \in closed : e.key = state.positions[l].key
  BY <1>4, <1>5, OutcomesFinite
<1>8. wanted \subseteq keys \ state.seen /\ IsFiniteSet(wanted)
  BY <1>6, FS_Subset
<1>9. /\ outcomes \in Seq(OutcomesOf(b, closed)) /\ DOMAIN outcomes = 1..Len(outcomes)
      /\ Len(outcomes) \in Nat
      /\ \A i \in DOMAIN outcomes : outcomes[i] \in OutcomesOf(b, closed)
      /\ \A i, j \in DOMAIN outcomes : i # j => outcomes[i] # outcomes[j]
  BY <1>7, Arranged
<1>10. /\ picks \in Seq(wanted) /\ DOMAIN picks = 1..Len(picks) /\ Len(picks) = Cardinality(wanted)
       /\ Len(picks) \in Nat
       /\ \A i \in DOMAIN picks : picks[i] \in wanted
       /\ \A i, j \in DOMAIN picks : i # j => picks[i] # picks[j]
  BY <1>8, Arranged
<1>11. /\ rows \in Seq(Events) /\ Len(rows) = Len(picks) /\ DOMAIN rows = DOMAIN picks
       /\ \A i \in DOMAIN rows : rows[i].kind = PickKind(free, b, filled, i) /\ rows[i].key = picks[i]
  <2>1. ASSUME NEW i \in DOMAIN picks
        PROVE  Event(PickKind(free, b, filled, i), b, picks[i]) \in Events
    BY <1>4, <1>6, <1>8, <1>10, PickKindTyped DEF Event, Events
  <2>2. rows \in [1..Len(picks) -> Events]
    BY <1>10, <2>1
  <2>3. rows \in Seq(Events) /\ Len(rows) = Len(picks)
    BY <1>10, <2>2, IsASeq
  <2> QED BY <2>3, <2>2, <1>10 DEF Event
<1>12. outcomes \in Seq(Events)
  BY <1>7, <1>9, SeqMonotonic
<1> HIDE DEF rows
<1>13. /\ events \in Seq(Events) /\ Len(events) = Len(outcomes) + Len(picks)
       /\ DOMAIN events = 1..(Len(outcomes) + Len(picks))
       /\ \A i \in 1..Len(outcomes) : events[i] = outcomes[i]
       /\ \A i \in 1..Len(picks) : events[Len(outcomes) + i] = rows[i]
  BY <1>9, <1>10, <1>11, <1>12, ConcatProperties
<1>14. ASSUME NEW i \in DOMAIN events
       PROVE  \/ i \in DOMAIN outcomes /\ events[i] = outcomes[i]
              \/ \E j \in DOMAIN picks : i = Len(outcomes) + j /\ events[i] = rows[j]
  <2>1. CASE i \in DOMAIN outcomes
    BY <2>1, <1>9, <1>13
  <2>2. CASE i \notin DOMAIN outcomes
    <3>1. i - Len(outcomes) \in DOMAIN picks /\ i = Len(outcomes) + (i - Len(outcomes))
      BY <2>2, <1>9, <1>10, <1>13
    <3> QED BY <3>1, <1>10, <1>13
  <2> QED BY <2>1, <2>2
<1>15. ASSUME NEW i \in DOMAIN events
       PROVE  \/ i \in DOMAIN outcomes /\ events[i] \in OutcomesOf(b, closed)
              \/ \E j \in DOMAIN picks : /\ i = Len(outcomes) + j /\ events[i].key = picks[j]
                                         /\ events[i].kind = PickKind(free, b, filled, j)
  BY <1>9, <1>11, <1>14
<1> HIDE DEF events
<1>16. ASSUME NEW e \in ToSet(events)
       PROVE  \/ e.kind = "OUTCOME" /\ \E l \in closed : e.key = state.positions[l].key
              \/ e.kind # "OUTCOME" /\ e.key \in wanted
  <2>1. PICK i \in DOMAIN events : e = events[i]
    BY DEF ToSet
  <2> QED BY <2>1, <1>7, <1>10, <1>15, PickKindTyped
<1>17. ASSUME NEW e \in OutcomesOf(b, closed), NEW f \in OutcomesOf(b, closed), e.key = f.key
       PROVE  e = f
  BY <1>7, <1>17 DEF Events
<1>18. ASSUME NEW i \in DOMAIN events, NEW j \in DOMAIN events, i # j
       PROVE  events[i].key # events[j].key
  <2>1. CASE i \in DOMAIN outcomes /\ j \in DOMAIN outcomes
    <3>1. events[i] = outcomes[i] /\ events[j] = outcomes[j]
      BY <2>1, <1>9, <1>13
    <3>2. outcomes[i] # outcomes[j]
      BY <2>1, <1>9, <1>18
    <3> QED BY <2>1, <3>1, <3>2, <1>9, <1>17
  <2>2. ASSUME NEW k \in DOMAIN events, k \notin DOMAIN outcomes
        PROVE  \E n \in DOMAIN picks : k = Len(outcomes) + n /\ events[k].key = picks[n]
    BY <2>2, <1>15
  <2>3. ASSUME NEW k \in DOMAIN events, k \in DOMAIN outcomes
        PROVE  events[k].key \in state.seen
    <3>1. events[k] = outcomes[k]
      BY <2>3, <1>9, <1>13
    <3> QED BY <2>3, <3>1, <1>7, <1>9
  <2>4. \A n \in DOMAIN picks : picks[n] \notin state.seen
    BY <1>10
  <2>5. CASE i \notin DOMAIN outcomes /\ j \notin DOMAIN outcomes
    <3>1. PICK n \in DOMAIN picks : i = Len(outcomes) + n /\ events[i].key = picks[n]
      BY <2>2, <2>5
    <3>2. PICK m \in DOMAIN picks : j = Len(outcomes) + m /\ events[j].key = picks[m]
      BY <2>2, <2>5
    <3> QED BY <3>1, <3>2, <1>10, <1>18
  <2> QED BY <2>1, <2>2, <2>3, <2>4, <2>5
<1>19. /\ filled # 0 => free /\ b >= FirstTraded
       /\ state' = [seen |-> state.seen \cup UsedUp(keys, lane),
                    positions |-> [l \in Lanes |->
                      IF l = lane /\ filled # 0 THEN [key |-> picks[filled], since |-> b]
                      ELSE IF l \in closed THEN None ELSE state.positions[l]],
                    pending |-> events]
       /\ told' = told \cup ToSet(events)
       /\ job' = IF events = <<>> THEN NoJob
                 ELSE [job EXCEPT !.at = "flush", !.written = Written(events, TRUE)]
  BY <1>3 DEF Commit, events, rows
<1>20. /\ Written(events, TRUE) = ToSet(events) \cap Durable
       /\ UsedUp(keys, lane) = keys
  BY DEF Written, UsedUp
<1>21. filled # 0 => filled \in DOMAIN picks /\ picks[filled] \in wanted /\ filled \in Nat
  BY <1>10
<1>22. /\ state' \in States /\ state'.seen = state.seen \cup keys /\ state'.pending = events
       /\ \A l \in Lanes : state'.positions[l] =
            IF l = lane /\ filled # 0 THEN [key |-> picks[filled], since |-> b]
            ELSE IF l \in closed THEN None ELSE state.positions[l]
  <2>1. filled # 0 => [key |-> picks[filled], since |-> b] \in Held
    BY <1>4, <1>6, <1>8, <1>21 DEF Held
  <2>2. state \in States
    BY <1>4 DEF Typed, StateTyped
  <2>3. [l \in Lanes |-> IF l = lane /\ filled # 0 THEN [key |-> picks[filled], since |-> b]
                         ELSE IF l \in closed THEN None ELSE state.positions[l]]
          \in [Lanes -> Held \cup {None}]
    BY <2>1, <2>2 DEF States
  <2>4. state.seen \cup keys \in SUBSET Keys
    BY <2>2, <1>6 DEF States
  <2> HIDE DEF keys
  <2> QED BY <2>3, <2>4, <1>13, <1>19, <1>20 DEF States
<1>23. ASSUME filled # 0, NEW e \in ToSet(events), e.key = picks[filled]
       PROVE  e.kind = "FILLED"
  <2>1. PICK i \in DOMAIN events : e = events[i]
    BY DEF ToSet
  <2>2. i \notin DOMAIN outcomes
    <3>1. picks[filled] \notin state.seen
      BY <1>21, <1>23
    <3>2. i \in DOMAIN outcomes => events[i] = outcomes[i]
      BY <1>9, <1>13
    <3> QED BY <2>1, <3>1, <3>2, <1>7, <1>9, <1>23
  <2>3. PICK j \in DOMAIN picks : e.key = picks[j] /\ e.kind = PickKind(free, b, filled, j)
    BY <2>1, <2>2, <1>15
  <2>4. j = filled
    BY <2>3, <1>10, <1>21, <1>23
  <2>5. free /\ b >= FirstTraded /\ filled \in Nat /\ b \in Int
    BY <1>4, <1>19, <1>21, <1>23 DEF Bars
  <2> QED BY <2>3, <2>4, <2>5, BarAssumption, <1>23 DEF PickKind
<1>24. ASSUME NEW l \in Lanes
       PROVE  \/ state'.positions[l] = None
              \/ l \notin closed /\ state'.positions[l] = state.positions[l]
              \/ /\ l = lane /\ state'.positions[l].key \in wanted
                 /\ \A e \in ToSet(events) : e.key = state'.positions[l].key => e.kind = "FILLED"
  <2>1. CASE l = lane /\ filled # 0
    <3>1. state'.positions[l].key = picks[filled]
      BY <2>1, <1>22
    <3> QED BY <2>1, <3>1, <1>21, <1>23
  <2>2. CASE ~(l = lane /\ filled # 0)
    BY <2>2, <1>22
  <2> QED BY <2>1, <2>2
<1>25. Decision(closed, lane, keys, wanted, events)
  <2> HIDE DEF keys, free
  <2> QED BY <1>5, <1>6, <1>8, <1>16, <1>18, <1>19, <1>20, <1>22, <1>24 DEF Decision
<1> QED BY <1>5, <1>13, <1>25

LEMMA LaneStep == LaneInv /\ [Next]_vars => LaneInv'
<1> SUFFICES ASSUME LaneInv, [Next]_vars PROVE LaneInv'
  OBVIOUS
<1>1. CASE \E b \in Bars : Start(b)
  BY <1>1, StartKeeps
<1>2. CASE AppendEvent
  BY <1>2, AppendEventKeeps
<1>3. CASE AppendTears
  BY <1>3, AppendTearsKeeps
<1>4. CASE ClearPending
  BY <1>4, ClearPendingKeeps
<1>5. CASE Decide
  <2>1. PICK closed \in SUBSET Lanes, lane \in Lanes, events \in Seq(Events) :
          \E keys, wanted : Decision(closed, lane, keys, wanted, events)
    BY <1>5, DecideIsDecision
  <2> QED BY <1>5, <2>1, DecisionKeeps DEF Decide
<1>6. CASE Stops
  BY <1>6, StopsKeeps
<1>7. CASE UNCHANGED vars
  <2>1. UNCHANGED <<state, lines, told, tears>> /\ UNCHANGED <<job, clock, unread>>
    BY <1>7 DEF vars
  <2>2. /\ StateTyped' /\ HeldTyped' /\ LinesTyped' /\ Pending' = Pending /\ Durable' = Durable
        /\ ToldInv' /\ OnceInv' /\ HeldInv' /\ PendingInv' /\ IsFiniteSet(told')
    BY <2>1, FilesUntouched
  <2>3. JobTyped' /\ RestTyped' /\ KnownInv' /\ LineInv'
    BY <2>1, <2>2 DEF JobTyped, RestTyped, KnownInv, LineInv, Flushing, LaneInv, Typed, StoryInv
  <2>4. LossInv'
    <3>1. Spoiled' \subseteq Spoiled
      BY <2>1, <2>2 DEF Spoiled
    <3> QED BY <2>1, <2>2, <3>1, LossKept DEF LaneInv, Typed
  <2> QED BY <2>2, <2>3, <2>4 DEF LaneInv, Typed, StoryInv
<1> QED BY <1>1, <1>2, <1>3, <1>4, <1>5, <1>6, <1>7 DEF Next

LEMMA LaneInvariant == Spec => []LaneInv
BY InitInv, LaneStep, PTL DEF Spec

(***************************************************************************)
(* Theorems.                                                               *)
(***************************************************************************)
\* Every variable keeps its type, and a held position is of a setup used up.
THEOREM LaneTypeCorrect == Spec => []TypeOK
<1>1. LaneInv => TypeOK
  <2> SUFFICES ASSUME Typed PROVE TypeOK
    BY DEF LaneInv
  <2>1. state.seen \subseteq Keys /\ state.positions \in [Lanes -> Held \cup {None}]
        /\ state.pending \in Seq(Events)
    BY DEF Typed, StateTyped, States
  <2> QED BY <2>1 DEF Typed, HeldTyped, LinesTyped, JobTyped, RestTyped, TypeOK, Rows, Jobs, Pending
<1> QED BY <1>1, LaneInvariant, PTL

\* Whatever failed or stopped in between, and however often a replay ran, the
\* evidence has no setup of a day twice, but for a fill and then its outcome.
THEOREM SetupsToldOnce == Spec => []OneStoryPerSetup
<1>1. LaneInv => OneStoryPerSetup
  <2> SUFFICES ASSUME LaneInv, ~unread PROVE OneStoryPerSetup
    BY DEF OneStoryPerSetup
  <2>1. Unwritten \subseteq Pending /\ Unwritten \cap Durable = {}
    BY DEF Unwritten, Pending
  <2>2. \A i, j \in DOMAIN lines : i < j /\ Garbled \notin {lines[i].text, lines[j].text}
          => InOrder(lines[i].text, lines[j].text)
    BY DEF LaneInv, StoryInv, LineInv
  <2>3. ASSUME NEW e \in Durable, NEW f \in Unwritten, e.key = f.key
        PROVE  e.kind = "FILLED" /\ f.kind = "OUTCOME"
    <3>1. e \in told /\ f \in told /\ f \in Pending /\ e # f
      BY <2>1 DEF LaneInv, StoryInv, ToldInv
    <3>2. {e.kind, f.kind} = {"FILLED", "OUTCOME"}
      BY <3>1, <2>3 DEF LaneInv, StoryInv, OnceInv
    <3>3. ~(f.kind = "FILLED" /\ e.kind = "OUTCOME")
      BY <3>1, <2>3 DEF LaneInv, StoryInv, PendingInv
    <3> QED BY <3>2, <3>3
  <2>4. ASSUME NEW i \in DOMAIN state.pending, NEW j \in DOMAIN state.pending, i < j
        PROVE  state.pending[i].key # state.pending[j].key
    <3>1. i # j
      <4>1. state.pending \in Seq(Events)
        BY DEF LaneInv, Typed, StateTyped, States
      <4> QED BY <4>1, <2>4
    <3> QED BY <3>1 DEF LaneInv, StoryInv, PendingInv
  <2> QED BY <2>2, <2>3, <2>4 DEF OneStoryPerSetup, InOrder
<1> QED BY <1>1, LaneInvariant, PTL

\* Each line cut short costs the evidence two events at most.
THEOREM LossBounded == Spec => []LossIsBounded
<1>1. LaneInv => LossIsBounded
  <2> SUFFICES ASSUME LaneInv PROVE LossIsBounded
    OBVIOUS
  <2>1. IsFiniteSet(Spoiled) /\ Cardinality(Spoiled) \in Nat /\ Debt \in 0..2
    BY LossFacts DEF LaneInv
  <2>2. told \ Story \subseteq Spoiled
    BY DEF Story, Unwritten, Spoiled, Pending
  <2>3. Cardinality(told \ Story) <= Cardinality(Spoiled) /\ Cardinality(told \ Story) \in Nat
    BY <2>1, <2>2, FS_Subset, FS_CardinalityType
  <2>4. Cardinality(Spoiled) + Debt <= 2 * tears /\ tears \in Nat
    BY TearAssumption DEF LaneInv, LossInv, Typed, RestTyped
  <2> QED BY <2>1, <2>3, <2>4 DEF LossIsBounded
<1> QED BY <1>1, LaneInvariant, PTL
=============================================================================
