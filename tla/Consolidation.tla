---------------------------- MODULE Consolidation ----------------------------
(***************************************************************************)
(* Offline consolidation of one session (memory/memory_worker): a worker   *)
(* reads the checkpoint, and when enough user turns lie behind it, hands   *)
(* them to the model turn by turn, writes what it extracts to the long-    *)
(* term memory and moves the checkpoint to the last message it read.  The  *)
(* conversation goes on meanwhile; workers may overlap, die in between, or *)
(* fail at a turn; the session may be cleared; the wall clock by which     *)
(* messages are ordered may be set back.                                   *)
(***************************************************************************)
EXTENDS Integers, FiniteSets

CONSTANTS
  Workers,
  None,
  MinTurns, \* consolidate_min_turns
  MaxMsgs,  \* bound: messages of the session
  MaxTime,  \* bound: the clock
  Limit     \* a bound for each kind of incident

Incidents == {"crash", "overlap", "clear", "setback"}
ASSUME ConsolidationAssumption ==
  /\ MinTurns \in Nat \ {0} /\ MaxMsgs \in Nat /\ MaxTime \in Nat
  /\ Limit \in [Incidents -> Nat] /\ None \notin Nat

(* A row of conversation_memory: the rowid stands for its id too.          *)
Ids == 1..MaxMsgs

VARIABLES
  log,    \* the messages of the session
  born,   \* messages so far
  clock,  \* localtime
  cp,     \* last_message_id of the checkpoint, or None
  pc,     \* where each worker is
  after,  \* the checkpoint it has read
  batch,  \* the messages it has read and not dealt with yet
  last,   \* the id of the last message it has read
  n,      \* incidents so far, by kind
  handed  \* history: how often each message was handed to the model

vars == <<log, born, clock, cp, pc, after, batch, last, n, handed>>
worker == <<pc, after, batch, last>>

Init ==
  /\ log = {} /\ born = 0 /\ clock = 0 /\ cp = None
  /\ pc = [w \in Workers |-> "idle"] /\ after = [w \in Workers |-> None]
  /\ batch = [w \in Workers |-> {}] /\ last = [w \in Workers |-> None]
  /\ n = [k \in Incidents |-> 0] /\ handed = [i \in Ids |-> 0]

Count(k) == n[k] < Limit[k] /\ n' = [n EXCEPT ![k] = @ + 1]
Goto(w, l) == pc' = [pc EXCEPT ![w] = l]

-----------------------------------------------------------------------------
(* The conversation store.                                                 *)

(* ORDER BY created_at, rowid.                                             *)
Before(m, k) == m.at < k.at \/ (m.at = k.at /\ m.id < k.id)
First(S) == CHOOSE m \in S : \A k \in S \ {m} : Before(m, k)
Newest(S) == {m \in S : \A k \in S \ {m} : Before(k, m)}
Users(S) == {m \in S : m.role = "user"}

(* get_records_after: without an anchor, or when it is gone, all messages. *)
After(id) ==
  IF \E a \in log : a.id = id
    THEN {m \in log : \E a \in log : a.id = id /\ Before(a, m)}
    ELSE log

(* add_message: a user opens a turn, the agent adds to it.                 *)
Say(role) ==
  /\ born < MaxMsgs /\ (role = "other" => log # {})
  /\ born' = born + 1
  /\ log' = log \cup {[id |-> born + 1, role |-> role, at |-> clock]}
  /\ UNCHANGED <<clock, cp, worker, n, handed>>

Tick ==
  /\ clock < MaxTime /\ clock' = clock + 1
  /\ UNCHANGED <<log, born, cp, worker, n, handed>>

(* created_at is local time: summer time ends, or the host is corrected.   *)
SetBack ==
  /\ clock > 0 /\ Count("setback") /\ clock' = clock - 1
  /\ UNCHANGED <<log, born, cp, worker, handed>>

(* clear_session deletes the messages and not the checkpoint.              *)
Clear ==
  /\ log # {} /\ Count("clear") /\ log' = {}
  /\ UNCHANGED <<born, clock, cp, worker, handed>>

-----------------------------------------------------------------------------
(* The worker.                                                             *)

Idle(w) == pc[w] = "idle"

(* _maybe_consolidate_session returns; its variables are gone.             *)
Rest(w) ==
  /\ Goto(w, "idle")
  /\ after' = [after EXCEPT ![w] = None]
  /\ batch' = [batch EXCEPT ![w] = {}]
  /\ last' = [last EXCEPT ![w] = None]

(* run_once reaches the session and reads its checkpoint.                  *)
Start(w) ==
  /\ Idle(w) /\ Goto(w, "count")
  /\ after' = [after EXCEPT ![w] = cp]
  /\ IF \A v \in Workers : Idle(v) THEN UNCHANGED n ELSE Count("overlap")
  /\ UNCHANGED <<log, born, clock, cp, batch, last, handed>>

(* count_user_messages: too few turns, and nothing happens.                *)
CountUsers(w) ==
  /\ pc[w] = "count"
  /\ IF Cardinality(Users(After(after[w]))) >= MinTurns
       THEN Goto(w, "read") /\ UNCHANGED <<after, batch, last>>
       ELSE Rest(w)
  /\ UNCHANGED <<log, born, clock, cp, n, handed>>

(* split_conversation_turns: a turn goes from a user's message up to the   *)
(* next; messages before the first user's make a turn of their own.        *)
Turns(S) ==
  Cardinality(Users(S)) + (IF S # {} /\ First(S).role # "user" THEN 1 ELSE 0)
FirstTurn(S) == {m \in S : \A u \in Users(S) \ {First(S)} : Before(m, u)}

(* get_records_after: a later read than the count, so the session may have *)
(* been cleared.  Nothing comes of a batch that has no user's turn.        *)
Read(w) ==
  LET found == After(after[w]) IN
  /\ pc[w] = "read"
  /\ IF Turns(found) >= MinTurns /\ Users(found) # {}
       THEN /\ Goto(w, "distil") /\ UNCHANGED after
            /\ batch' = [batch EXCEPT ![w] = found]
            /\ \E m \in Newest(found) : last' = [last EXCEPT ![w] = m.id]
       ELSE Rest(w)
  /\ UNCHANGED <<log, born, clock, cp, n, handed>>

(* Mutant: the whole history up to the last message goes with every turn.  *)
DistilAll(w) ==
  LET turn == FirstTurn(batch[w]) IN
  /\ pc[w] = "distil" /\ batch[w] # {}
  /\ batch' = [batch EXCEPT ![w] = @ \ turn]
  /\ handed' = [i \in Ids |-> IF \E m \in log : m.id = i /\ m.id <= last[w]
                                THEN handed[i] + 1 ELSE handed[i]]
  /\ UNCHANGED <<log, born, clock, cp, pc, after, last, n>>

(* consolidate_pending_turns, one turn: it is handed to the model, whose   *)
(* failure is noted and passed over; a turn without a user is skipped.     *)
Distil(w) ==
  LET turn == FirstTurn(batch[w]) IN
  /\ pc[w] = "distil" /\ batch[w] # {}
  /\ batch' = [batch EXCEPT ![w] = @ \ turn]
  /\ handed' = [i \in Ids |-> IF Users(turn) # {} /\ \E m \in turn : m.id = i
                                THEN handed[i] + 1 ELSE handed[i]]
  /\ UNCHANGED <<log, born, clock, cp, pc, after, last, n>>

(* Mutant: the checkpoint moves to the end of the session.                 *)
UpsertEnd(w) ==
  /\ pc[w] = "distil" /\ batch[w] = {} /\ log # {}
  /\ \E m \in Newest(log) : cp' = m.id
  /\ Rest(w)
  /\ UNCHANGED <<log, born, clock, n, handed>>

(* The checkpoint moves to the last message read.                          *)
Upsert(w) ==
  /\ pc[w] = "distil" /\ batch[w] = {}
  /\ cp' = last[w]
  /\ Rest(w)
  /\ UNCHANGED <<log, born, clock, n, handed>>

(* The worker dies, or an exception ends its work on the session.          *)
Crash(w) ==
  /\ ~Idle(w) /\ Count("crash") /\ Rest(w)
  /\ UNCHANGED <<log, born, clock, cp, handed>>

Next ==
  \/ Say("user") \/ Say("other") \/ Tick \/ SetBack \/ Clear
  \/ \E w \in Workers : Start(w) \/ CountUsers(w) \/ Read(w) \/ Distil(w) \/ Upsert(w) \/ Crash(w)
Spec == Init /\ [][Next]_vars

-----------------------------------------------------------------------------
(* Properties.                                                             *)

(* The checkpoint never passes a turn that was not handed to the model,    *)
(* whoever overlaps, dies or clears, as long as the clock is not set back. *)
Anchor(m) == \E a \in log : a.id = cp /\ ~Before(a, m)
NoTurnPassed ==
  n["setback"] = 0 => \A m \in Users(log) : Anchor(m) => handed[m.id] >= 1

(* A message is handed to the model once, and once more at most for each   *)
(* worker that died before its checkpoint or overlapped with another.      *)
HandedOnce == \A i \in Ids : handed[i] <= 1 + n["crash"] + n["overlap"]
=============================================================================
