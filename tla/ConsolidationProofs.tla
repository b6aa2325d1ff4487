-------------------------- MODULE ConsolidationProofs --------------------------
(* NoTurnPassed and HandedOnce for any number of workers and messages, any     *)
(* number of crashes, overlapping workers and cleared sessions, and any        *)
(* min_turns.                                                                  *)
EXTENDS Consolidation, FiniteSetTheorems, TLAPS

(* Rows are numbered as they are added.                                        *)
Rows ==
  /\ born \in 0..MaxMsgs /\ clock \in Nat /\ n \in [Incidents -> Nat] /\ handed \in [Ids -> Nat]
  /\ \A m \in log : m.id \in 1..born /\ m.at \in Nat

(* As long as the clock is not set back, the order by time is that of the ids. *)
InOrder ==
  /\ \A m \in log : m.at <= clock
  /\ \A m, k \in log : m.id < k.id => m.at <= k.at

(* Every turn up to a message has been handed to the model: that is so of the  *)
(* checkpoint and of those the workers have read, also when the message of the *)
(* checkpoint is gone, which NoTurnPassed does not say.                        *)
HandedUpTo(id) == id \in 1..born /\ \A m \in Users(log) : m.id <= id => handed[m.id] >= 1

(* And up to the last message a worker has read, but for those in its hand.    *)
InHand(w) ==
  /\ last[w] \in 1..born
  /\ \A m \in Users(log) : m.id <= last[w] => handed[m.id] >= 1 \/ m \in batch[w]

Progress ==
  /\ cp # None => HandedUpTo(cp)
  /\ \A w \in Workers :
       /\ pc[w] \in {"count", "read"} /\ after[w] # None => HandedUpTo(after[w])
       /\ pc[w] = "distil" => InHand(w)

Functions ==
  /\ pc = [w \in Workers |-> pc[w]] /\ after = [w \in Workers |-> after[w]]
  /\ batch = [w \in Workers |-> batch[w]] /\ last = [w \in Workers |-> last[w]]

PassInv == Rows /\ Functions /\ (n["setback"] = 0 => InOrder /\ Progress)

--------------------------------------------------------------------------------
LEMMA PassInit == Init => PassInv
<1> SUFFICES ASSUME Init PROVE PassInv
  OBVIOUS
<1>1. Rows /\ Functions
  BY ConsolidationAssumption DEF Init, Rows, Functions
<1> QED BY <1>1 DEF Init, PassInv, InOrder, Progress

LEMMA Counted ==
  ASSUME Rows, NEW k \in Incidents, Count(k)
  PROVE  /\ n' \in [Incidents -> Nat] /\ n'[k] # 0
         /\ n'["setback"] = 0 => n["setback"] = 0
BY DEF Rows, Count, Incidents

(* What comes before an anchor of the log has a lower id, or is the anchor.    *)
LEMMA Anchored ==
  ASSUME Rows, InOrder, NEW a \in log, NEW m \in log, ~Before(a, m)
  PROVE  m.id <= a.id
BY DEF Rows, InOrder, Before

(* What is not read after a checkpoint has been handed over before.            *)
LEMMA Unread ==
  ASSUME Rows, InOrder, NEW id, id # None => HandedUpTo(id),
         NEW m \in Users(log), m \notin After(id)
  PROVE  handed[m.id] >= 1
<1>1. m \in log
  BY DEF Users
<1>2. PICK a \in log : a.id = id /\ ~Before(a, m)
  BY <1>1 DEF After
<1>3. id \in Nat /\ m.id <= id
  BY <1>1, <1>2, Anchored DEF Rows
<1>4. id # None
  BY <1>3, ConsolidationAssumption
<1> QED BY <1>3, <1>4 DEF HandedUpTo

(* What a step owes the invariant that adds no user's row to what is told of.  *)
LEMMA SayStep ==
  ASSUME PassInv, NEW role, Say(role)
  PROVE  PassInv'
<1> DEFINE new == [id |-> born + 1, role |-> role, at |-> clock]
<1>1. /\ born' = born + 1 /\ log' = log \cup {new} /\ born < MaxMsgs
      /\ UNCHANGED <<clock, cp, pc, after, batch, last, n, handed>>
  BY DEF Say, worker
<1>2. Rows'
  BY <1>1, ConsolidationAssumption DEF PassInv, Rows
<1>3. Functions'
  BY <1>1 DEF PassInv, Functions
<1>4. ASSUME n["setback"] = 0 PROVE InOrder'
  BY <1>1, <1>4 DEF PassInv, Rows, InOrder
<1>5. ASSUME n["setback"] = 0 PROVE Progress'
  <2>1. born \in Nat /\ Progress
    BY <1>5 DEF PassInv, Rows
  <2>2. \A m \in Users(log)' : m \in Users(log) \/ m.id = born + 1
    BY <1>1 DEF Users
  <2>3. ASSUME NEW id, HandedUpTo(id) PROVE HandedUpTo(id)'
    BY <1>1, <2>1, <2>2, <2>3 DEF HandedUpTo
  <2>4. ASSUME NEW w \in Workers, InHand(w) PROVE InHand(w)'
    BY <1>1, <2>1, <2>2, <2>4 DEF InHand
  <2> QED BY <1>1, <2>1, <2>3, <2>4 DEF Progress
<1> QED BY <1>1, <1>2, <1>3, <1>4, <1>5 DEF PassInv

LEMMA ClockStep ==
  ASSUME PassInv, Tick \/ SetBack
  PROVE  PassInv'
<1>1. CASE Tick
  BY <1>1 DEF Tick, worker, PassInv, Rows, Functions, InOrder, Progress, HandedUpTo, InHand, Users
<1>2. CASE SetBack
  <2>1. n' \in [Incidents -> Nat] /\ n'["setback"] # 0 /\ clock' \in Nat
    BY <1>2, Counted DEF SetBack, PassInv, Rows, Incidents
  <2> QED BY <1>2, <2>1 DEF SetBack, worker, PassInv, Rows, Functions
<1> QED BY <1>1, <1>2

LEMMA ClearStep ==
  ASSUME PassInv, Clear
  PROVE  PassInv'
<1>1. n' \in [Incidents -> Nat] /\ (n'["setback"] = 0 => n["setback"] = 0)
  BY Counted DEF Clear, PassInv, Incidents
<1> QED BY <1>1 DEF Clear, worker, PassInv, Rows, Functions, InOrder, Progress, HandedUpTo, InHand, Users

--------------------------------------------------------------------------------
(* The worker.                                                                 *)

(* What a step of a worker owes the invariant that leaves the session alone    *)
(* and takes nothing back that was handed over.                                *)
LEMMA WorkerStep ==
  ASSUME PassInv, NEW w \in Workers, UNCHANGED <<log, born, clock>>,
         n' \in [Incidents -> Nat], n'["setback"] = 0 => n["setback"] = 0,
         handed' \in [Ids -> Nat], \A i \in Ids : handed'[i] >= handed[i],
         Functions', \A v \in Workers \ {w} : /\ pc'[v] = pc[v] /\ after'[v] = after[v]
                                              /\ batch'[v] = batch[v] /\ last'[v] = last[v],
         n["setback"] = 0 =>
           /\ cp' # None => cp' = cp \/ HandedUpTo(cp')
           /\ pc'[w] \in {"count", "read"} /\ after'[w] # None => HandedUpTo(after'[w])
           /\ pc'[w] = "distil" => InHand(w)'
  PROVE  PassInv'
<1>1. Rows'
  BY DEF PassInv, Rows
<1>2. ASSUME n'["setback"] = 0 PROVE InOrder' /\ Progress'
  <2>1. InOrder /\ Progress
    BY <1>2 DEF PassInv
  <2>2. \A m \in log : m.id \in Ids /\ handed[m.id] \in Nat
    BY ConsolidationAssumption DEF PassInv, Rows, Ids
  <2>3. ASSUME NEW id, HandedUpTo(id) PROVE HandedUpTo(id)'
    BY <2>2, <2>3 DEF HandedUpTo, Users
  <2>4. ASSUME NEW v \in Workers \ {w}, InHand(v) PROVE InHand(v)'
    BY <2>2, <2>4 DEF InHand, Users
  <2>5. Progress'
    BY <1>2, <2>1, <2>3, <2>4 DEF Progress
  <2> QED BY <2>1, <2>5 DEF InOrder
<1> QED BY <1>1, <1>2 DEF PassInv

LEMMA Rested ==
  ASSUME Functions, NEW w \in Workers, Rest(w)
  PROVE  /\ Functions' /\ pc'[w] = "idle"
         /\ \A v \in Workers \ {w} : /\ pc'[v] = pc[v] /\ after'[v] = after[v]
                                     /\ batch'[v] = batch[v] /\ last'[v] = last[v]
BY DEF Functions, Rest, Goto

LEMMA Same ==
  ASSUME PassInv, UNCHANGED n, UNCHANGED handed
  PROVE  /\ n' \in [Incidents -> Nat] /\ (n'["setback"] = 0 => n["setback"] = 0)
         /\ handed' \in [Ids -> Nat] /\ \A i \in Ids : handed'[i] >= handed[i]
BY DEF PassInv, Rows

LEMMA StartStep ==
  ASSUME PassInv, NEW w \in Workers, Start(w)
  PROVE  PassInv'
<1>1. n' \in [Incidents -> Nat] /\ (n'["setback"] = 0 => n["setback"] = 0)
  BY Counted DEF Start, PassInv, Rows, Incidents
<1>2. handed' \in [Ids -> Nat] /\ \A i \in Ids : handed'[i] >= handed[i]
  BY DEF Start, PassInv, Rows
<1>3. /\ Functions' /\ pc'[w] = "count" /\ after'[w] = cp /\ cp' = cp /\ UNCHANGED <<log, born, clock>>
      /\ \A v \in Workers \ {w} : /\ pc'[v] = pc[v] /\ after'[v] = after[v]
                                  /\ batch'[v] = batch[v] /\ last'[v] = last[v]
  BY DEF Start, Goto, PassInv, Functions
<1> QED BY <1>1, <1>2, <1>3, WorkerStep DEF PassInv, Progress

LEMMA CountStep ==
  ASSUME PassInv, NEW w \in Workers, CountUsers(w)
  PROVE  PassInv'
<1>1. UNCHANGED <<log, born, clock, cp, n, handed>> /\ pc[w] = "count"
  BY DEF CountUsers
<1>2. CASE Rest(w)
  BY <1>1, <1>2, Rested, Same, WorkerStep DEF PassInv
<1>3. CASE Goto(w, "read") /\ UNCHANGED <<after, batch, last>>
  <2>1. /\ Functions' /\ pc'[w] = "read" /\ after'[w] = after[w]
        /\ \A v \in Workers \ {w} : /\ pc'[v] = pc[v] /\ after'[v] = after[v]
                                    /\ batch'[v] = batch[v] /\ last'[v] = last[v]
    BY <1>3 DEF Goto, PassInv, Functions
  <2> QED BY <1>1, <2>1, Same, WorkerStep DEF PassInv, Progress
<1> QED BY <1>2, <1>3 DEF CountUsers

(* The worker reads all that its checkpoint does not cover.                    *)
LEMMA ReadStep ==
  ASSUME PassInv, NEW w \in Workers, Read(w)
  PROVE  PassInv'
<1> DEFINE found == After(after[w])
<1>1. UNCHANGED <<log, born, clock, cp, n, handed>> /\ pc[w] = "read"
  BY DEF Read
<1>2. CASE Rest(w)
  BY <1>1, <1>2, Rested, Same, WorkerStep DEF PassInv
<1>3. ASSUME NEW m \in Newest(found), Goto(w, "distil"), UNCHANGED after,
             batch' = [batch EXCEPT ![w] = found], last' = [last EXCEPT ![w] = m.id]
      PROVE  PassInv'
  <2>1. /\ Functions' /\ pc'[w] = "distil" /\ batch'[w] = found /\ last'[w] = m.id
        /\ \A v \in Workers \ {w} : /\ pc'[v] = pc[v] /\ after'[v] = after[v]
                                    /\ batch'[v] = batch[v] /\ last'[v] = last[v]
    BY <1>3 DEF Goto, PassInv, Functions
  <2>2. m \in log
    BY DEF Newest, After
  <2>3. ASSUME n["setback"] = 0 PROVE InHand(w)'
    <3>1. Rows /\ InOrder /\ (after[w] # None => HandedUpTo(after[w]))
      BY <1>1, <2>3 DEF PassInv, Progress
    <3>2. \A u \in Users(log) : u \in found \/ handed[u.id] >= 1
      BY <3>1, Unread
    <3> QED BY <1>1, <2>1, <2>2, <3>1, <3>2 DEF InHand, Rows, Users
  <2> QED BY <1>1, <2>1, <2>3, Same, WorkerStep DEF PassInv
<1> QED BY <1>2, <1>3 DEF Read

(* A turn leaves the worker's hand by being handed to the model.               *)
LEMMA DistilStep ==
  ASSUME PassInv, NEW w \in Workers, Distil(w)
  PROVE  PassInv'
<1> DEFINE turn == FirstTurn(batch[w])
           Told(i) == Users(turn) # {} /\ \E m \in turn : m.id = i
<1>1. /\ UNCHANGED <<log, born, clock, cp, pc, after, last, n>> /\ pc[w] = "distil"
      /\ batch' = [batch EXCEPT ![w] = @ \ turn]
      /\ handed' = [i \in Ids |-> IF Told(i) THEN handed[i] + 1 ELSE handed[i]]
  BY DEF Distil
<1>2. /\ handed' \in [Ids -> Nat]
      /\ \A i \in Ids : handed'[i] >= handed[i] /\ (Told(i) => handed'[i] >= 1)
  <2>1. handed \in [Ids -> Nat]
    BY DEF PassInv, Rows
  <2> HIDE DEF Told
  <2> QED BY <1>1, <2>1
<1>3. n' \in [Incidents -> Nat] /\ (n'["setback"] = 0 => n["setback"] = 0)
  BY <1>1 DEF PassInv, Rows
<1>4. /\ Functions' /\ batch'[w] = batch[w] \ turn
      /\ \A v \in Workers \ {w} : batch'[v] = batch[v]
  BY <1>1 DEF PassInv, Functions
<1>5. ASSUME n["setback"] = 0 PROVE InHand(w)'
  <2>1. InHand(w) /\ Rows
    BY <1>1, <1>5 DEF PassInv, Progress
  <2> SUFFICES ASSUME NEW m \in Users(log), m.id <= last[w]
               PROVE  handed'[m.id] >= 1 \/ m \in batch'[w]
    BY <1>1, <2>1 DEF InHand, Users
  <2>2. m.id \in Ids /\ handed[m.id] \in Nat
    BY <2>1, ConsolidationAssumption DEF Rows, Users, Ids
  <2>3. CASE handed[m.id] >= 1
    BY <2>2, <2>3, <1>2
  <2>4. CASE m \in turn
    <3>1. Told(m.id)
      BY <2>4 DEF Users
    <3> QED BY <3>1, <2>2, <1>2
  <2>5. CASE m \in batch[w] \ turn
    BY <2>5, <1>4
  <2> QED BY <2>1, <2>3, <2>4, <2>5 DEF InHand
<1> QED BY <1>1, <1>2, <1>3, <1>4, <1>5, WorkerStep DEF PassInv

(* With nothing left in hand the checkpoint may move to the last message read. *)
LEMMA UpsertStep ==
  ASSUME PassInv, NEW w \in Workers, Upsert(w)
  PROVE  PassInv'
<1>1. /\ UNCHANGED <<log, born, clock, n, handed>> /\ pc[w] = "distil" /\ batch[w] = {}
      /\ cp' = last[w] /\ Rest(w)
  BY DEF Upsert
<1>2. n["setback"] = 0 => HandedUpTo(last[w])
  BY <1>1 DEF PassInv, Progress, InHand, HandedUpTo
<1> QED BY <1>1, <1>2, Rested, Same, WorkerStep DEF PassInv

LEMMA CrashStep ==
  ASSUME PassInv, NEW w \in Workers, Crash(w)
  PROVE  PassInv'
<1>1. n' \in [Incidents -> Nat] /\ (n'["setback"] = 0 => n["setback"] = 0)
  BY Counted DEF Crash, PassInv, Incidents
<1>2. /\ UNCHANGED <<log, born, clock, cp>> /\ Rest(w)
      /\ handed' \in [Ids -> Nat] /\ \A i \in Ids : handed'[i] >= handed[i]
  BY DEF Crash, PassInv, Rows
<1> QED BY <1>1, <1>2, Rested, WorkerStep DEF PassInv

--------------------------------------------------------------------------------
LEMMA PassStep == PassInv /\ [Next]_vars => PassInv'
<1> SUFFICES ASSUME PassInv, [Next]_vars PROVE PassInv'
  OBVIOUS
<1>1. CASE Say("user") \/ Say("other") \/ Tick \/ SetBack \/ Clear
  BY <1>1, SayStep, ClockStep, ClearStep
<1>2. CASE \E w \in Workers :
             Start(w) \/ CountUsers(w) \/ Read(w) \/ Distil(w) \/ Upsert(w) \/ Crash(w)
  BY <1>2, StartStep, CountStep, ReadStep, DistilStep, UpsertStep, CrashStep
<1>3. CASE UNCHANGED vars
  BY <1>3 DEF vars, worker, PassInv, Rows, Functions, InOrder, Progress, HandedUpTo, InHand, Users
<1> QED BY <1>1, <1>2, <1>3 DEF Next

(* As long as the clock is not set back, the checkpoint passes no turn that    *)
(* was not handed to the model, whoever overlaps, dies or clears               *)
(* (get_records_after, consolidate_pending_turns, upsert_checkpoint).          *)
THEOREM NoTurnPassedCorrect == Spec => []NoTurnPassed
<1>1. PassInv => NoTurnPassed
  <2> SUFFICES ASSUME PassInv, n["setback"] = 0, NEW m \in Users(log), Anchor(m)
               PROVE  handed[m.id] >= 1
    BY DEF NoTurnPassed
  <2>1. m \in log /\ Rows /\ InOrder /\ Progress
    BY DEF PassInv, Users
  <2>2. PICK a \in log : a.id = cp /\ ~Before(a, m)
    BY DEF Anchor
  <2>3. m.id <= cp /\ cp # None
    BY <2>1, <2>2, Anchored, ConsolidationAssumption DEF Rows
  <2> QED BY <2>1, <2>3 DEF Progress, HandedUpTo
<1> QED BY PassInit, PassStep, <1>1, PTL DEF Spec

--------------------------------------------------------------------------------
(* Cardinality.                                                                *)

LEMMA OneMore ==
  ASSUME NEW A, IsFiniteSet(A), NEW x, NEW B, B \subseteq A \cup {x}
  PROVE  IsFiniteSet(B) /\ Cardinality(B) \in Nat /\ Cardinality(B) <= Cardinality(A) + 1
<1>1. IsFiniteSet(A \cup {x}) /\ Cardinality(A \cup {x}) <= Cardinality(A) + 1
  <2>1. /\ IsFiniteSet(A \cup {x})
        /\ Cardinality(A \cup {x}) = IF x \in A THEN Cardinality(A) ELSE Cardinality(A) + 1
    BY FS_AddElement
  <2>2. Cardinality(A) \in Nat
    BY FS_CardinalityType
  <2> QED BY <2>1, <2>2
<1>2. IsFiniteSet(B) /\ Cardinality(B) <= Cardinality(A \cup {x})
  BY <1>1, FS_Subset
<1>3. Cardinality(A) \in Nat /\ Cardinality(B) \in Nat /\ Cardinality(A \cup {x}) \in Nat
  BY <1>1, <1>2, FS_CardinalityType
<1> QED BY <1>1, <1>2, <1>3

LEMMA Fewer ==
  ASSUME NEW A, IsFiniteSet(A), NEW B, B \subseteq A
  PROVE  /\ IsFiniteSet(B) /\ Cardinality(B) \in Nat /\ Cardinality(B) <= Cardinality(A)
         /\ \A x \in A : x \notin B => Cardinality(B) <= Cardinality(A) - 1
<1>1. IsFiniteSet(B) /\ Cardinality(B) <= Cardinality(A)
  BY FS_Subset
<1>2. Cardinality(A) \in Nat /\ Cardinality(B) \in Nat
  BY <1>1, FS_CardinalityType
<1>3. ASSUME NEW x \in A, x \notin B PROVE Cardinality(B) <= Cardinality(A) - 1
  <2>1. IsFiniteSet(A \ {x}) /\ Cardinality(A \ {x}) = Cardinality(A) - 1
    BY FS_RemoveElement
  <2>2. B \subseteq A \ {x}
    BY <1>3
  <2> QED BY <2>1, <2>2, FS_Subset
<1> QED BY <1>1, <1>2, <1>3

--------------------------------------------------------------------------------
(* HandedOnce: an account of each message.  What it may still cost is owed by  *)
(* the workers that may hand it over, or, when none attends to it, by the      *)
(* checkpoint that does not cover it yet.                                      *)

(* Nothing read after the row c is the message i, now or later.                *)
Behind(L, b, c, i) ==
  /\ i \in 1..b
  /\ \A m \in L : m.id = i => \E a \in L : a.id = c /\ ~Before(a, m)

Owes(w, i) ==
  \/ pc[w] \in {"count", "read"} /\ ~Behind(log, born, after[w], i)
  \/ pc[w] = "distil" /\ \/ \E m \in batch[w] : m.id = i
                         \/ ~Behind(log, born, last[w], i)
Owing(i) == {w \in Workers : Owes(w, i)}
Ahead(i) ==
  ~Behind(log, born, cp, i) /\ \A w \in Workers : ~Owes(w, i) /\ pc[w] # "distil"

Allowed == 1 + n["crash"] + n["overlap"]
Balanced(i) ==
  /\ IsFiniteSet(Owing(i))
  /\ handed[i] + Cardinality(Owing(i)) + (IF Ahead(i) THEN 1 ELSE 0) <= Allowed

(* A row has one id, and a worker's last row covers all it has read.           *)
Seen ==
  /\ \A m, k \in log : m.id = k.id => m = k
  /\ \A w \in Workers : pc[w] = "distil" =>
       /\ \A m \in batch[w] : Behind(log, born, last[w], m.id)
       /\ \A m, k \in batch[w] : m.id = k.id => m = k

OnceInv == Rows /\ Functions /\ Seen /\ \A i \in Ids : Balanced(i)

--------------------------------------------------------------------------------
LEMMA OnceInit == Init => OnceInv
<1> SUFFICES ASSUME Init PROVE OnceInv
  OBVIOUS
<1>1. Rows /\ Functions /\ Seen
  BY ConsolidationAssumption DEF Init, Rows, Functions, Seen
<1>2. ASSUME NEW i \in Ids PROVE Balanced(i)
  <2>1. Owing(i) = {}
    BY DEF Init, Owing, Owes
  <2>2. IsFiniteSet({}) /\ Cardinality({}) = 0
    BY FS_EmptySet
  <2>3. handed[i] = 0 /\ Allowed = 1
    BY DEF Init, Allowed, Incidents
  <2> QED BY <2>1, <2>2, <2>3 DEF Balanced
<1> QED BY <1>1, <1>2 DEF OnceInv

(* The ways in which a step may change the account of a message.               *)
LEMMA Settled ==
  ASSUME Rows, Rows', NEW i \in Ids, Balanced(i), NEW x,
         \/ /\ Owing(i)' \subseteq Owing(i) /\ handed'[i] = handed[i] /\ Allowed' >= Allowed
            /\ Ahead(i)' => Ahead(i) \/ \E w \in Owing(i) : w \notin Owing(i)'
         \/ /\ Owing(i)' \subseteq Owing(i) /\ handed'[i] = handed[i] /\ Allowed' = Allowed + 1
         \/ /\ Owing(i)' \subseteq Owing(i) \cup {x} /\ handed'[i] = handed[i]
            /\ Ahead(i)' => Ahead(i)
            /\ Allowed' = Allowed + 1 \/ (Allowed' = Allowed /\ Ahead(i) /\ ~Ahead(i)')
         \/ /\ Owing(i)' \subseteq Owing(i) /\ x \in Owing(i) /\ x \notin Owing(i)'
            /\ handed'[i] = handed[i] + 1 /\ Allowed' = Allowed /\ (Ahead(i)' => Ahead(i))
  PROVE  Balanced(i)'
<1> DEFINE A == Owing(i)
           B == Owing(i)'
           p == IF Ahead(i) THEN 1 ELSE 0
           q == IF Ahead(i)' THEN 1 ELSE 0
<1>1. /\ handed[i] \in Nat /\ handed'[i] \in Nat /\ Allowed \in Nat /\ Allowed' \in Nat
      /\ p \in 0..1 /\ q \in 0..1
  BY DEF Rows, Allowed, Incidents
<1>2. IsFiniteSet(A) /\ Cardinality(A) \in Nat /\ handed[i] + Cardinality(A) + p <= Allowed
  BY FS_CardinalityType DEF Balanced
<1>3. ASSUME B \subseteq A
      PROVE  /\ IsFiniteSet(B) /\ Cardinality(B) \in Nat /\ Cardinality(B) <= Cardinality(A)
             /\ \A w \in A : w \notin B => Cardinality(B) <= Cardinality(A) - 1
  BY <1>2, <1>3, Fewer
<1>4. ASSUME B \subseteq A \cup {x}
      PROVE  IsFiniteSet(B) /\ Cardinality(B) \in Nat /\ Cardinality(B) <= Cardinality(A) + 1
  BY <1>2, <1>4, OneMore
<1>5. p = 0 \/ p = 1
  OBVIOUS
<1>6. (Ahead(i) => p = 1) /\ (~Ahead(i)' => q = 0) /\ (Ahead(i)' => Ahead(i)) => q <= p
  OBVIOUS
<1>7. IsFiniteSet(B) /\ handed'[i] + Cardinality(B) + q <= Allowed'
  <2>1. CASE /\ B \subseteq A /\ handed'[i] = handed[i] /\ Allowed' >= Allowed
             /\ Ahead(i)' => Ahead(i) \/ \E w \in A : w \notin B
    BY <2>1, <1>1, <1>2, <1>3
  <2>2. CASE B \subseteq A /\ handed'[i] = handed[i] /\ Allowed' = Allowed + 1
    BY <2>2, <1>1, <1>2, <1>3
  <2>3. CASE /\ B \subseteq A \cup {x} /\ handed'[i] = handed[i]
             /\ Ahead(i)' => Ahead(i)
             /\ Allowed' = Allowed + 1 \/ (Allowed' = Allowed /\ Ahead(i) /\ ~Ahead(i)')
    BY <2>3, <1>1, <1>2, <1>4
  <2>4. CASE /\ B \subseteq A /\ x \in A /\ x \notin B
             /\ handed'[i] = handed[i] + 1 /\ Allowed' = Allowed /\ (Ahead(i)' => Ahead(i))
    BY <2>4, <1>1, <1>2, <1>3
  <2> QED BY <2>1, <2>2, <2>3, <2>4
<1> QED BY <1>7 DEF Balanced

--------------------------------------------------------------------------------
(* A step that takes no message in hand and uncovers none.                     *)
LEMMA QuietStep ==
  ASSUME OnceInv, Rows', Functions', Seen', UNCHANGED <<cp, pc, after, batch, last, handed>>,
         n'["crash"] = n["crash"], n'["overlap"] = n["overlap"],
         \A i \in Ids : \A c : Behind(log, born, c, i) => Behind(log', born', c, i)
  PROVE  OnceInv'
<1>1. ASSUME NEW i \in Ids PROVE Balanced(i)'
  <2>1. \A w \in Workers : Owes(w, i)' => Owes(w, i)
    BY DEF Owes
  <2>2. Owing(i)' \subseteq Owing(i)
    BY <2>1 DEF Owing
  <2>3. ASSUME Ahead(i)' PROVE Ahead(i) \/ \E w \in Owing(i) : w \notin Owing(i)'
    BY <2>3 DEF Ahead, Owing
  <2>4. Allowed' = Allowed /\ Allowed \in Nat
    BY DEF Allowed, OnceInv, Rows, Incidents
  <2> QED BY <2>2, <2>3, <2>4, Settled DEF OnceInv
<1> QED BY <1>1 DEF OnceInv

LEMMA SayOnce ==
  ASSUME OnceInv, NEW role, Say(role)
  PROVE  OnceInv'
<1> DEFINE new == [id |-> born + 1, role |-> role, at |-> clock]
<1>1. /\ born' = born + 1 /\ log' = log \cup {new} /\ born < MaxMsgs /\ born \in Nat
      /\ UNCHANGED <<clock, cp, pc, after, batch, last, n, handed>>
  BY DEF Say, worker, OnceInv, Rows
<1>2. Rows' /\ Functions'
  BY <1>1, ConsolidationAssumption DEF OnceInv, Rows, Functions
<1>3. \A i : \A c : Behind(log, born, c, i) => Behind(log', born', c, i)
  BY <1>1 DEF Behind
<1>4. Seen'
  <2>1. \A m, k \in log' : m.id = k.id => m = k
    BY <1>1 DEF OnceInv, Seen, Rows
  <2> QED BY <1>1, <1>3, <2>1 DEF OnceInv, Seen
<1> QED BY <1>1, <1>2, <1>3, <1>4, QuietStep

LEMMA ClearOnce ==
  ASSUME OnceInv, Clear
  PROVE  OnceInv'
<1>1. /\ log' = {} /\ n' \in [Incidents -> Nat] /\ n'["crash"] = n["crash"] /\ n'["overlap"] = n["overlap"]
      /\ UNCHANGED <<born, clock, cp, pc, after, batch, last, handed>>
  BY DEF Clear, worker, Count, OnceInv, Rows, Incidents
<1>2. Rows' /\ Functions'
  BY <1>1 DEF OnceInv, Rows, Functions
<1>3. \A i : \A c : Behind(log, born, c, i) => Behind(log', born', c, i)
  BY <1>1 DEF Behind
<1>4. Seen'
  BY <1>1, <1>3 DEF OnceInv, Seen
<1> QED BY <1>1, <1>2, <1>3, <1>4, QuietStep

LEMMA ClockOnce ==
  ASSUME OnceInv, Tick \/ SetBack
  PROVE  OnceInv'
<1>1. /\ n' \in [Incidents -> Nat] /\ n'["crash"] = n["crash"] /\ n'["overlap"] = n["overlap"]
      /\ clock' \in Nat /\ UNCHANGED <<log, born, cp, pc, after, batch, last, handed>>
  BY DEF Tick, SetBack, worker, Count, OnceInv, Rows, Incidents
<1>2. Rows' /\ Functions' /\ Seen'
  BY <1>1 DEF OnceInv, Rows, Functions, Seen
<1> QED BY <1>1, <1>2, QuietStep

--------------------------------------------------------------------------------
(* What the others owe is not the worker's doing.                              *)
LEMMA OwnDebts ==
  ASSUME NEW w \in Workers, UNCHANGED <<log, born>>,
         \A v \in Workers \ {w} : /\ pc'[v] = pc[v] /\ after'[v] = after[v]
                                  /\ batch'[v] = batch[v] /\ last'[v] = last[v],
         NEW i
  PROVE  /\ \A v \in Workers \ {w} : Owes(v, i)' <=> Owes(v, i)
         /\ Owing(i)' \subseteq Owing(i) \cup {w}
         /\ w \in Owing(i)' <=> Owes(w, i)'
         /\ (Owes(w, i)' => Owes(w, i)) => Owing(i)' \subseteq Owing(i)
<1>1. \A v \in Workers \ {w} : Owes(v, i)' <=> Owes(v, i)
  BY DEF Owes
<1> QED BY <1>1 DEF Owing

(* Seen, when the worker is not handed another batch.                          *)
LEMMA SeenStep ==
  ASSUME Seen, NEW w \in Workers, UNCHANGED <<log, born>>,
         \A v \in Workers \ {w} : /\ pc'[v] = pc[v] /\ after'[v] = after[v]
                                  /\ batch'[v] = batch[v] /\ last'[v] = last[v],
         pc'[w] = "distil" => /\ \A m \in batch'[w] : Behind(log, born, last'[w], m.id)
                              /\ \A m, k \in batch'[w] : m.id = k.id => m = k
  PROVE  Seen'
BY DEF Seen

(* The worker gives up before it has read: its debts fall to the checkpoint.   *)
LEMMA RestOnce ==
  ASSUME OnceInv, NEW w \in Workers, pc[w] \in {"count", "read"}, Rest(w),
         UNCHANGED <<log, born, clock, cp, n, handed>>
  PROVE  OnceInv'
<1>1. /\ Functions' /\ pc'[w] = "idle"
      /\ \A v \in Workers \ {w} : /\ pc'[v] = pc[v] /\ after'[v] = after[v]
                                  /\ batch'[v] = batch[v] /\ last'[v] = last[v]
  BY Rested DEF OnceInv
<1>2. Rows' /\ Seen'
  BY <1>1, SeenStep DEF OnceInv, Rows
<1>3. ASSUME NEW i \in Ids PROVE Balanced(i)'
  <2>1. ~Owes(w, i)'
    BY <1>1 DEF Owes
  <2>2. \A v \in Workers \ {w} : Owes(v, i)' <=> Owes(v, i)
    BY <1>1, OwnDebts
  <2>3. Owing(i)' \subseteq Owing(i) /\ w \notin Owing(i)'
    BY <2>1, <1>1, OwnDebts
  <2>4. ASSUME Ahead(i)' PROVE Ahead(i) \/ w \in Owing(i)
    BY <2>2, <2>4, <1>1 DEF Ahead, Owing
  <2>5. Allowed' = Allowed /\ Allowed \in Nat
    BY DEF Allowed, OnceInv, Rows, Incidents
  <2> QED BY <2>3, <2>4, <2>5, <1>2, Settled DEF OnceInv
<1> QED BY <1>1, <1>2, <1>3 DEF OnceInv

(* A worker starts: it takes over the debts of the checkpoint, or overlaps.    *)
LEMMA StartOnce ==
  ASSUME OnceInv, NEW w \in Workers, Start(w)
  PROVE  OnceInv'
<1>1. /\ Functions' /\ pc[w] = "idle" /\ pc'[w] = "count" /\ after'[w] = cp
      /\ UNCHANGED <<log, born, clock, cp, handed>>
      /\ \A v \in Workers \ {w} : /\ pc'[v] = pc[v] /\ after'[v] = after[v]
                                  /\ batch'[v] = batch[v] /\ last'[v] = last[v]
  BY DEF Start, Idle, Goto, OnceInv, Functions
<1>2. /\ n' \in [Incidents -> Nat] /\ Allowed \in Nat
      /\ \/ n' = n /\ \A v \in Workers : pc[v] = "idle"
         \/ n' = [n EXCEPT !["overlap"] = @ + 1]
  BY DEF Start, Idle, Count, Allowed, OnceInv, Rows, Incidents
<1>3. Rows' /\ Seen'
  BY <1>1, <1>2, SeenStep DEF OnceInv, Rows
<1>4. ASSUME NEW i \in Ids PROVE Balanced(i)'
  <2>1. \A v \in Workers \ {w} : Owes(v, i)' <=> Owes(v, i)
    BY <1>1, OwnDebts
  <2>2. /\ Owing(i)' \subseteq Owing(i) \cup {w}
        /\ ~Owes(w, i)' => Owing(i)' \subseteq Owing(i)
    BY <1>1, OwnDebts
  <2>3. Ahead(i)' => Ahead(i)
    BY <1>1, <2>1 DEF Ahead, Owes
  <2>4. CASE n' = [n EXCEPT !["overlap"] = @ + 1]
    <3>1. Allowed' = Allowed + 1
      BY <2>4 DEF Allowed, OnceInv, Rows, Incidents
    <3> QED BY <3>1, <2>2, <2>3, <1>1, <1>3, Settled DEF OnceInv
  <2>5. CASE n' = n /\ \A v \in Workers : pc[v] = "idle"
    <3>1. Allowed' = Allowed
      BY <2>5 DEF Allowed
    <3>2. CASE Owes(w, i)'
      <4>1. Ahead(i) /\ ~Ahead(i)'
        BY <1>1, <2>5, <3>2 DEF Ahead, Owes
      <4> QED BY <4>1, <3>1, <2>2, <1>1, <1>3, Settled DEF OnceInv
    <3>3. CASE ~Owes(w, i)'
      <4>1. Owing(i)' \subseteq Owing(i) /\ Allowed' >= Allowed
        BY <3>1, <3>3, <2>2, <1>2
      <4> QED BY <4>1, <2>3, <1>1, <1>3, Settled DEF OnceInv
    <3> QED BY <3>2, <3>3
  <2> QED BY <1>2, <2>4, <2>5
<1> QED BY <1>1, <1>3, <1>4 DEF OnceInv

LEMMA CountOnce ==
  ASSUME OnceInv, NEW w \in Workers, CountUsers(w)
  PROVE  OnceInv'
<1>1. UNCHANGED <<log, born, clock, cp, n, handed>> /\ pc[w] = "count"
  BY DEF CountUsers
<1>2. CASE Rest(w)
  BY <1>1, <1>2, RestOnce
<1>3. CASE Goto(w, "read") /\ UNCHANGED <<after, batch, last>>
  <2>1. /\ Functions' /\ pc'[w] = "read"
        /\ \A v \in Workers \ {w} : pc'[v] = pc[v]
    BY <1>3 DEF Goto, OnceInv, Functions
  <2>2. Rows' /\ Seen'
    BY <1>1, <1>3, <2>1, SeenStep DEF OnceInv, Rows
  <2>3. ASSUME NEW i \in Ids PROVE Balanced(i)'
    <3>1. \A v \in Workers : Owes(v, i)' <=> Owes(v, i)
      BY <1>1, <1>3, <2>1 DEF Owes
    <3>2. Owing(i)' \subseteq Owing(i)
      BY <3>1 DEF Owing
    <3>3. Ahead(i)' => Ahead(i)
      BY <1>1, <2>1, <3>1 DEF Ahead
    <3>4. Allowed' = Allowed /\ Allowed \in Nat
      BY <1>1 DEF Allowed, OnceInv, Rows, Incidents
    <3> QED BY <1>1, <2>2, <3>2, <3>3, <3>4, Settled DEF OnceInv
  <2> QED BY <2>1, <2>2, <2>3 DEF OnceInv
<1> QED BY <1>2, <1>3 DEF CountUsers

(* What is read was owed, and the last row read covers it and what the         *)
(* worker's checkpoint covered.                                                *)
LEMMA ReadCovers ==
  ASSUME Rows, Seen, NEW c, NEW m \in Newest(After(c))
  PROVE  /\ \A k \in After(c) : ~Behind(log, born, c, k.id) /\ Behind(log, born, m.id, k.id)
         /\ \A i : Behind(log, born, c, i) => Behind(log, born, m.id, i)
<1>1. m \in After(c) /\ After(c) \subseteq log /\ m \in log
  BY DEF Newest, After
<1>2. \A k \in After(c) : k = m \/ Before(k, m)
  BY DEF Newest
<1>3. \A a \in log : a.id = m.id => a = m
  BY <1>1 DEF Seen
<1>4. ASSUME NEW k \in After(c) PROVE ~Behind(log, born, c, k.id) /\ Behind(log, born, m.id, k.id)
  <2>1. k \in log /\ k.id \in 1..born /\ k.at \in Nat /\ m.at \in Nat /\ m.id \in Nat /\ k.id \in Nat
    BY <1>1 DEF Rows
  <2>2. ~Before(m, k)
    BY <2>1, <1>2 DEF Before
  <2>3. Behind(log, born, m.id, k.id)
    BY <2>1, <2>2, <1>1 DEF Behind, Seen
  <2>4. ASSUME NEW a \in log, a.id = c PROVE Before(a, k)
    <3>1. PICK b \in log : b.id = c /\ Before(b, k)
      BY <2>4 DEF After
    <3> QED BY <2>4, <3>1 DEF Seen
  <2> QED BY <2>1, <2>3, <2>4 DEF Behind
<1>5. ASSUME NEW i, Behind(log, born, c, i) PROVE Behind(log, born, m.id, i)
  <2> SUFFICES ASSUME NEW k \in log, k.id = i PROVE ~Before(m, k)
    BY <1>1, <1>5 DEF Behind
  <2>1. PICK a \in log : a.id = c /\ ~Before(a, k)
    BY <1>5 DEF Behind
  <2>2. PICK b \in log : b.id = c /\ Before(b, m)
    BY <1>1, <2>1 DEF After
  <2>3. a = b
    BY <2>1, <2>2 DEF Seen
  <2>4. /\ a.id \in Nat /\ a.at \in Nat /\ m.id \in Nat /\ m.at \in Nat /\ k.id \in Nat /\ k.at \in Nat
    BY <1>1 DEF Rows
  <2> QED BY <2>1, <2>2, <2>3, <2>4 DEF Before
<1> QED BY <1>4, <1>5

LEMMA ReadOnce ==
  ASSUME OnceInv, NEW w \in Workers, Read(w)
  PROVE  OnceInv'
<1> DEFINE found == After(after[w])
<1>1. UNCHANGED <<log, born, clock, cp, n, handed>> /\ pc[w] = "read"
  BY DEF Read
<1>2. CASE Rest(w)
  BY <1>1, <1>2, RestOnce
<1>3. ASSUME NEW m \in Newest(found), Goto(w, "distil"), UNCHANGED after,
             batch' = [batch EXCEPT ![w] = found], last' = [last EXCEPT ![w] = m.id]
      PROVE  OnceInv'
  <2>1. /\ Functions' /\ pc'[w] = "distil" /\ batch'[w] = found /\ last'[w] = m.id
        /\ \A v \in Workers \ {w} : /\ pc'[v] = pc[v] /\ after'[v] = after[v]
                                    /\ batch'[v] = batch[v] /\ last'[v] = last[v]
    BY <1>3 DEF Goto, OnceInv, Functions
  <2>2. PICK c : c = after[w]
    OBVIOUS
  <2>3. /\ \A k \in found : ~Behind(log, born, after[w], k.id) /\ Behind(log, born, m.id, k.id)
        /\ \A i : Behind(log, born, after[w], i) => Behind(log, born, m.id, i)
    BY <2>2, ReadCovers DEF OnceInv
  <2>4. \A k \in found : k \in log
    BY DEF After
  <2>5. Rows' /\ Seen'
    <3>1. \A k, l \in found : k.id = l.id => k = l
      BY <2>4 DEF OnceInv, Seen
    <3> QED BY <1>1, <2>1, <2>3, <3>1, SeenStep DEF OnceInv, Rows
  <2>6. ASSUME NEW i \in Ids PROVE Balanced(i)'
    <3>1. Owes(w, i)' => Owes(w, i)
      BY <1>1, <2>1, <2>3 DEF Owes
    <3>2. Owing(i)' \subseteq Owing(i)
      BY <3>1, <1>1, <2>1, OwnDebts
    <3>3. ~Ahead(i)'
      BY <2>1 DEF Ahead
    <3>4. Allowed' = Allowed /\ Allowed \in Nat
      BY <1>1 DEF Allowed, OnceInv, Rows, Incidents
    <3> QED BY <1>1, <2>5, <3>2, <3>3, <3>4, Settled DEF OnceInv
  <2> QED BY <2>1, <2>5, <2>6 DEF OnceInv
<1> QED BY <1>2, <1>3 DEF Read

(* A message that is handed over is owed by the worker, and no longer.         *)
LEMMA DistilOnce ==
  ASSUME OnceInv, NEW w \in Workers, Distil(w)
  PROVE  OnceInv'
<1> DEFINE turn == FirstTurn(batch[w])
           Told(i) == Users(turn) # {} /\ \E m \in turn : m.id = i
<1>1. /\ UNCHANGED <<log, born, clock, cp, pc, after, last, n>> /\ pc[w] = "distil"
      /\ batch' = [batch EXCEPT ![w] = @ \ turn]
      /\ handed' = [i \in Ids |-> IF Told(i) THEN handed[i] + 1 ELSE handed[i]]
  BY DEF Distil
<1>2. /\ handed' \in [Ids -> Nat]
      /\ \A i \in Ids : handed'[i] = IF Told(i) THEN handed[i] + 1 ELSE handed[i]
  <2>1. handed \in [Ids -> Nat]
    BY DEF OnceInv, Rows
  <2> HIDE DEF Told
  <2> QED BY <1>1, <2>1
<1>3. /\ Functions' /\ batch'[w] = batch[w] \ turn
      /\ \A v \in Workers \ {w} : batch'[v] = batch[v]
  BY <1>1 DEF OnceInv, Functions
<1>4. Rows' /\ Seen'
  <2>1. Rows'
    BY <1>1, <1>2 DEF OnceInv, Rows
  <2> HIDE DEF turn
  <2> QED BY <1>1, <1>3, <2>1, SeenStep DEF OnceInv, Seen
<1>5. turn \subseteq batch[w]
  BY DEF FirstTurn
<1>6. ASSUME NEW i \in Ids PROVE Balanced(i)'
  <2>1. (Owes(w, i)' => Owes(w, i)) /\ ~Ahead(i)'
    <3> HIDE DEF turn
    <3> QED BY <1>1, <1>3 DEF Owes, Ahead
  <2>2. Owing(i)' \subseteq Owing(i) /\ (w \in Owing(i)' <=> Owes(w, i)')
    BY <2>1, <1>1, <1>3, OwnDebts
  <2>3. Allowed' = Allowed /\ Allowed \in Nat
    BY <1>1 DEF Allowed, OnceInv, Rows, Incidents
  <2>4. CASE Told(i)
    <3>1. PICK m \in turn : m.id = i
      BY <2>4
    <3>2. m \in batch[w] /\ m \notin batch'[w] /\ Behind(log, born, last[w], i)
      BY <3>1, <1>1, <1>3, <1>5 DEF OnceInv, Seen
    <3>3. w \in Owing(i)
      BY <3>1, <3>2, <1>1 DEF Owing, Owes
    <3>4. \A k \in batch'[w] : k.id # i
      BY <3>1, <3>2, <1>1, <1>3 DEF OnceInv, Seen
    <3>5. ~Owes(w, i)'
      BY <3>2, <3>4, <1>1 DEF Owes
    <3>6. handed'[i] = handed[i] + 1
      <4> HIDE DEF Told
      <4> QED BY <1>2, <2>4
    <3> QED BY <2>1, <2>2, <2>3, <3>3, <3>5, <3>6, <1>4, Settled DEF OnceInv
  <2>5. CASE ~Told(i)
    <3>1. handed'[i] = handed[i]
      <4> HIDE DEF Told
      <4> QED BY <1>2, <2>5
    <3> QED BY <2>1, <2>2, <2>3, <3>1, <1>4, Settled DEF OnceInv
  <2> QED BY <2>4, <2>5
<1> QED BY <1>3, <1>4, <1>6 DEF OnceInv

(* The checkpoint covers what the worker does not owe any more.                *)
LEMMA UpsertOnce ==
  ASSUME OnceInv, NEW w \in Workers, Upsert(w)
  PROVE  OnceInv'
<1>1. /\ UNCHANGED <<log, born, clock, n, handed>> /\ pc[w] = "distil"
      /\ cp' = last[w] /\ Rest(w)
  BY DEF Upsert
<1>2. /\ Functions' /\ pc'[w] = "idle"
      /\ \A v \in Workers \ {w} : /\ pc'[v] = pc[v] /\ after'[v] = after[v]
                                  /\ batch'[v] = batch[v] /\ last'[v] = last[v]
  BY <1>1, Rested DEF OnceInv
<1>3. Rows' /\ Seen'
  BY <1>1, <1>2, SeenStep DEF OnceInv, Rows
<1>4. ASSUME NEW i \in Ids PROVE Balanced(i)'
  <2>1. ~Owes(w, i)'
    BY <1>2 DEF Owes
  <2>2. Owing(i)' \subseteq Owing(i) /\ w \notin Owing(i)'
    BY <2>1, <1>1, <1>2, OwnDebts
  <2>3. ASSUME Ahead(i)' PROVE w \in Owing(i)
    BY <2>3, <1>1 DEF Ahead, Owing, Owes
  <2>4. Allowed' = Allowed /\ Allowed \in Nat
    BY <1>1 DEF Allowed, OnceInv, Rows, Incidents
  <2> QED BY <1>1, <2>2, <2>3, <2>4, <1>3, Settled DEF OnceInv
<1> QED BY <1>2, <1>3, <1>4 DEF OnceInv

LEMMA CrashOnce ==
  ASSUME OnceInv, NEW w \in Workers, Crash(w)
  PROVE  OnceInv'
<1>1. UNCHANGED <<log, born, clock, cp, handed>> /\ Rest(w) /\ Count("crash")
  BY DEF Crash
<1>2. /\ Functions' /\ pc'[w] = "idle"
      /\ \A v \in Workers \ {w} : /\ pc'[v] = pc[v] /\ after'[v] = after[v]
                                  /\ batch'[v] = batch[v] /\ last'[v] = last[v]
  BY <1>1, Rested DEF OnceInv
<1>3. n' \in [Incidents -> Nat] /\ Allowed' = Allowed + 1
  BY <1>1 DEF Count, Allowed, OnceInv, Rows, Incidents
<1>4. Rows' /\ Seen'
  BY <1>1, <1>2, <1>3, SeenStep DEF OnceInv, Rows
<1>5. ASSUME NEW i \in Ids PROVE Balanced(i)'
  <2>1. ~Owes(w, i)'
    BY <1>2 DEF Owes
  <2>2. Owing(i)' \subseteq Owing(i)
    BY <2>1, <1>1, <1>2, OwnDebts
  <2> QED BY <1>1, <1>3, <2>2, <1>4, Settled DEF OnceInv
<1> QED BY <1>2, <1>4, <1>5 DEF OnceInv

--------------------------------------------------------------------------------
LEMMA OnceStep == OnceInv /\ [Next]_vars => OnceInv'
<1> SUFFICES ASSUME OnceInv, [Next]_vars PROVE OnceInv'
  OBVIOUS
<1>1. CASE Say("user") \/ Say("other") \/ Tick \/ SetBack \/ Clear
  BY <1>1, SayOnce, ClockOnce, ClearOnce
<1>2. CASE \E w \in Workers :
             Start(w) \/ CountUsers(w) \/ Read(w) \/ Distil(w) \/ Upsert(w) \/ Crash(w)
  BY <1>2, StartOnce, CountOnce, ReadOnce, DistilOnce, UpsertOnce, CrashOnce
<1>3. CASE UNCHANGED vars
  <2>1. UNCHANGED <<log, born, clock, cp, pc, after, batch, last, n, handed>>
    BY <1>3 DEF vars
  <2>2. Rows' /\ Functions' /\ Seen'
    BY <2>1 DEF OnceInv, Rows, Functions, Seen
  <2> QED BY <2>1, <2>2, QuietStep
<1> QED BY <1>1, <1>2, <1>3 DEF Next

(* A message is handed to the model once, and once more at most for each       *)
(* worker that died before its checkpoint or overlapped with another, also     *)
(* when the session is cleared or the clock set back meanwhile                 *)
(* (_maybe_consolidate_session, consolidate_pending_turns, upsert_checkpoint). *)
THEOREM HandedOnceCorrect == Spec => []HandedOnce
<1>1. OnceInv => HandedOnce
  <2> SUFFICES ASSUME OnceInv, NEW i \in Ids PROVE handed[i] <= Allowed
    BY DEF HandedOnce, Allowed
  <2>1. Cardinality(Owing(i)) \in Nat /\ handed[i] \in Nat /\ Allowed \in Nat
    BY FS_CardinalityType DEF OnceInv, Balanced, Rows, Allowed, Incidents
  <2> QED BY <2>1 DEF OnceInv, Balanced
<1> QED BY OnceInit, OnceStep, <1>1, PTL DEF Spec
================================================================================
