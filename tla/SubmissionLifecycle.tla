------------------------- MODULE SubmissionLifecycle -------------------------
(***************************************************************************)
(* What the submission subsystem promises, whatever crashes, lost answers  *)
(* and concurrent look-ups happen underneath: a signal is reserved before  *)
(* it is sent, is sent at most once, is reserved only while no other       *)
(* signal is unresolved, and once resolved never becomes unresolved again. *)
(***************************************************************************)
CONSTANT Signals

VARIABLES
  stage,    \* of each signal: "new", "unresolved", "held" or "closed"
  sent      \* signals whose request left

vars == <<stage, sent>>

Init == stage = [s \in Signals |-> "new"] /\ sent = {}

Reserve(s) ==
  /\ stage[s] = "new"
  /\ \A t \in Signals : stage[t] # "unresolved"
  /\ stage' = [stage EXCEPT ![s] = "unresolved"]
  /\ UNCHANGED sent

\* The signal may have been resolved already, by a look-up that raced the send.
Send(s) ==
  /\ stage[s] # "new" /\ s \notin sent
  /\ sent' = sent \union {s}
  /\ UNCHANGED stage

Resolve(s) ==
  /\ \/ stage[s] = "unresolved" /\ stage' \in {[stage EXCEPT ![s] = "held"],
                                               [stage EXCEPT ![s] = "closed"]}
     \/ stage[s] = "held" /\ stage' = [stage EXCEPT ![s] = "closed"]
  /\ UNCHANGED sent

Next == \E s \in Signals : Reserve(s) \/ Send(s) \/ Resolve(s)

Spec == Init /\ [][Next]_vars
=============================================================================
