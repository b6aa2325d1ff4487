------------------------------ MODULE EventOnce ------------------------------
(***************************************************************************)
(* What the event entry promises a business system that may deliver an     *)
(* event any number of times: the agent runs for it once, and once more at *)
(* most for every mishap (a crash, a Redis error, a lock or a record that  *)
(* ran out, a cancelled call); every answer is the result of a run of this *)
(* event, and what is recorded for an event changes by a mishap only.      *)
(***************************************************************************)
EXTENDS Naturals, FiniteSets

CONSTANTS Events, Dels, None

Results == [by: Dels, ok: BOOLEAN]

VARIABLES
  of,      \* the event of each delivery, or None before it arrives
  ran,     \* the deliveries that made the agent run, by event
  record,  \* the result kept for each event, or None
  answer,  \* the result each delivery was answered, or None
  mishaps  \* mishaps so far

vars == <<of, ran, record, answer, mishaps>>

Init ==
  /\ of = [d \in Dels |-> None]
  /\ ran = [e \in Events |-> {}]
  /\ record = [e \in Events |-> None]
  /\ answer = [d \in Dels |-> None]
  /\ mishaps = 0

Arrive(d, e) ==
  /\ of[d] = None /\ of' = [of EXCEPT ![d] = e]
  /\ UNCHANGED <<ran, record, answer, mishaps>>

(* A run begins: the first, or one for a mishap that came before.          *)
Run(d, e) ==
  /\ of[d] = e /\ d \notin ran[e] /\ Cardinality(ran[e]) <= mishaps
  /\ ran' = [ran EXCEPT ![e] = @ \cup {d}]
  /\ UNCHANGED <<of, record, answer, mishaps>>

(* The result of a run is recorded; only a rerun records over a result.    *)
Record(e, r) ==
  /\ r.by \in ran[e] /\ (record[e] # None => mishaps > 0)
  /\ record' = [record EXCEPT ![e] = r]
  /\ UNCHANGED <<of, ran, answer, mishaps>>

(* A delivery is answered with a result of a run of its event; all answers *)
(* about an event agree with its record when nothing went wrong.           *)
Answer(d, r) ==
  /\ of[d] # None /\ answer[d] = None /\ r.by \in ran[of[d]]
  /\ mishaps = 0 => r = record[of[d]]
  /\ answer' = [answer EXCEPT ![d] = r]
  /\ UNCHANGED <<of, ran, record, mishaps>>

(* A mishap, which may take effect on a record.                            *)
Mishap(e, r) ==
  /\ mishaps' = mishaps + 1
  /\ record' = [record EXCEPT ![e] = r]
  /\ r # None => (r = record[e] \/ r.by \in ran[e])
  /\ UNCHANGED <<of, ran, answer>>

Next ==
  \E e \in Events :
    \/ \E r \in Results : Record(e, r)
    \/ \E r \in Results \cup {None} : Mishap(e, r)
    \/ \E d \in Dels : Arrive(d, e) \/ Run(d, e) \/ \E r \in Results : Answer(d, r)

Spec == Init /\ [][Next]_vars
=============================================================================
