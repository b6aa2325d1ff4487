-------------------------- MODULE ConversationProofs --------------------------
(* KeptButForFaults, ChainsWhole and TrimNewest for any number of processes,   *)
(* turns, messages and incidents, over SQLite and PostgreSQL, and for every    *)
(* window, budget and cost of a message.                                       *)
EXTENDS Conversation, FiniteSetTheorems, SequenceTheorems, WellFoundedInduction, TLAPS

Connections == [open : BOOLEAN, since : Nat, failed : BOOLEAN, pending : SUBSET Stored]

(* A turn that writes has something to write.                                  *)
Running ==
  /\ run = [p |-> run.p, step |-> run.step, turn |-> run.turn, todo |-> run.todo, next |-> run.next]
  /\ run.p \in Procs /\ run.todo \in Seq(Plain \cup Stored)
  /\ run.step \in {"add", "commit"} => run.todo # <<>>
  /\ run.next \in {"assemble", "end", "suspend"}

ConversationType ==
  /\ clock \in Nat /\ seq \in Nat /\ turns \in Nat
  /\ n \in [Incidents -> Nat] /\ tx \in [Procs -> Connections]
  /\ run # None => Running

(* The message between its INSERT and its COMMIT: as long as no statement of   *)
(* the connection failed it will be in the log, and from then on it is lost.   *)
Committing == run # None /\ run.step = "commit"
InHand == Committing /\ ~tx[run.p].failed => Head(run.todo) \in rows \cup tx[run.p].pending

(* What is lost, or will be when its COMMIT is answered: KeptButForFaults does *)
(* not count the second.                                                       *)
Staked == IF Committing /\ tx[run.p].failed THEN {Head(run.todo).seq} ELSE {}
Missing == (acked \cup Staked) \ {r.seq : r \in rows}
Counted == IsFiniteSet(Missing) /\ Cardinality(Missing) <= n["fault"]

KeptInv == ConversationType /\ InHand /\ Counted

-------------------------------------------------------------------------------
LEMMA KeptInit == Init => KeptInv
<1> SUFFICES ASSUME Init PROVE KeptInv
  OBVIOUS
<1>1. ConversationType
  BY DEF Init, ConversationType, Quiet, Connections
<1>2. InHand /\ Missing = {}
  BY DEF Init, InHand, Missing, Staked, Committing
<1>3. n["fault"] = 0
  BY DEF Init, Incidents
<1> QED BY <1>1, <1>2, <1>3, FS_EmptySet DEF KeptInv, Counted

LEMMA CountType ==
  ASSUME ConversationType, NEW k \in Incidents, Count(k)
  PROVE  n' \in [Incidents -> Nat] /\ n'[k] = n[k] + 1 /\ n'["fault"] >= n["fault"]
<1>1. n' = [n EXCEPT ![k] = @ + 1]
  BY DEF Count
<1> QED BY <1>1 DEF ConversationType, Incidents

(* What a step owes the count: it loses no message, or is the fault of one.    *)
LEMMA NothingLost ==
  ASSUME KeptInv, n' \in [Incidents -> Nat], n'["fault"] >= n["fault"], Missing' \subseteq Missing
  PROVE  Counted'
<1>1. IsFiniteSet(Missing') /\ Cardinality(Missing') <= Cardinality(Missing) /\ Cardinality(Missing') \in Nat
  BY FS_Subset, FS_CardinalityType DEF KeptInv, Counted
<1>2. Cardinality(Missing) \in Nat /\ n["fault"] \in Nat /\ n'["fault"] \in Nat
  BY FS_CardinalityType DEF KeptInv, Counted, ConversationType, Incidents
<1> QED BY <1>1, <1>2 DEF Counted, KeptInv

LEMMA OneLost ==
  ASSUME KeptInv, NEW x, Missing' \subseteq Missing \cup {x}, n'["fault"] = n["fault"] + 1
  PROVE  Counted'
<1>1. /\ IsFiniteSet(Missing \cup {x})
      /\ Cardinality(Missing \cup {x}) <= Cardinality(Missing) + 1
      /\ Cardinality(Missing \cup {x}) \in Nat /\ Cardinality(Missing) \in Nat
  <2> DEFINE L == Missing
  <2>1. IsFiniteSet(L)
    BY DEF KeptInv, Counted
  <2> HIDE DEF L
  <2>2. IsFiniteSet(L \cup {x})
    BY <2>1, FS_AddElement
  <2>3. Cardinality(L) \in Nat
    BY <2>1, FS_CardinalityType
  <2>4. Cardinality(L \cup {x}) \in Nat
    BY <2>2, FS_CardinalityType
  <2>5. Cardinality(L \cup {x}) = IF x \in L THEN Cardinality(L) ELSE Cardinality(L) + 1
    BY <2>1, FS_AddElement
  <2>6. Cardinality(L \cup {x}) <= Cardinality(L) + 1
    BY <2>3, <2>5
  <2> QED BY <2>2, <2>3, <2>4, <2>6 DEF L
<1>2. IsFiniteSet(Missing') /\ Cardinality(Missing') <= Cardinality(Missing \cup {x}) /\ Cardinality(Missing') \in Nat
  BY <1>1, FS_Subset, FS_CardinalityType
<1>3. n["fault"] \in Nat
  BY DEF KeptInv, ConversationType, Incidents
<1> QED BY <1>1, <1>2, <1>3 DEF Counted, KeptInv

LEMMA Same ==
  ASSUME KeptInv, UNCHANGED n
  PROVE  n' \in [Incidents -> Nat] /\ n'["fault"] >= n["fault"]
BY DEF KeptInv, ConversationType, Incidents

-------------------------------------------------------------------------------
(* The turn.                                                                   *)

(* A step that leaves the log and the connections alone and is not about to    *)
(* commit afterwards.                                                          *)
LEMMA TurnStep ==
  ASSUME KeptInv, UNCHANGED <<clock, rows, seq, tx, acked>>, turns' \in Nat,
         n' \in [Incidents -> Nat], n'["fault"] >= n["fault"],
         run' # None => Running' /\ run'.step # "commit"
  PROVE  KeptInv'
<1>1. ConversationType'
  BY DEF KeptInv, ConversationType
<1>2. InHand' /\ Missing' \subseteq Missing
  BY DEF InHand, Missing, Staked, Committing
<1> QED BY <1>1, <1>2, NothingLost DEF KeptInv

LEMMA Written ==
  ASSUME NEW p \in Procs, NEW turn, NEW ms \in Seq(Plain), ms # <<>>,
         NEW next \in {"assemble", "end", "suspend"}, Write(p, turn, ms, next)
  PROVE  Running' /\ run'.step # "commit"
<1>1. ms \in Seq(Plain \cup Stored)
  BY SeqMonotonic
<1> QED BY <1>1 DEF Write, Running

LEMMA Messages ==
  /\ \A kind \in Roles : Message(kind, {}) \in Plain
  /\ \A k \in 1..2 : Message("call", 1..k) \in Plain
  /\ \A kind \in Roles : <<Message(kind, {})>> \in Seq(Plain) /\ <<Message(kind, {})>> # <<>>
  /\ \A k \in 1..2 :
       LET ms == <<Message("call", 1..k)>> \o [i \in 1..k |-> Message("tool", {})]
       IN  ms \in Seq(Plain) /\ ms # <<>>
<1>1. \A kind \in Roles : Message(kind, {}) \in Plain
  BY DEF Message, Plain
<1>2. \A k \in 1..2 : Message("call", 1..k) \in Plain
  BY DEF Message, Plain, Roles
<1>3. \A k \in 1..2 :
       LET ms == <<Message("call", 1..k)>> \o [i \in 1..k |-> Message("tool", {})]
       IN  ms \in Seq(Plain) /\ ms # <<>>
  <2> SUFFICES ASSUME NEW k \in 1..2
               PROVE LET ms == <<Message("call", 1..k)>> \o [i \in 1..k |-> Message("tool", {})]
                     IN  ms \in Seq(Plain) /\ ms # <<>>
    OBVIOUS
  <2>1. [i \in 1..k |-> Message("tool", {})] \in Seq(Plain)
    BY <1>1 DEF Roles
  <2>2. PICK x \in Plain : x = Message("call", 1..k)
    BY <1>2
  <2>3. <<x>> \in Seq(Plain) /\ Len(<<x>>) = 1
    OBVIOUS
  <2>4. PICK tools \in Seq(Plain) : tools = [i \in 1..k |-> Message("tool", {})]
    BY <2>1
  <2>5. <<x>> \o tools \in Seq(Plain) /\ Len(<<x>> \o tools) = 1 + Len(tools) /\ Len(tools) \in Nat
    BY <2>3, ConcatProperties, LenProperties
  <2> QED BY <2>2, <2>4, <2>5, EmptySeq
<1> QED BY <1>1, <1>2, <1>3

LEMMA WriteStep ==
  ASSUME KeptInv, NEW p \in Procs, Begin(p) \/ Resume(p) \/ Act(p) \/ Answer(p) \/ Ask(p)
  PROVE  KeptInv'
<1>1. UNCHANGED <<clock, rows, seq, tx, acked>> /\ turns' \in Nat
  BY DEF Begin, Resume, Act, Answer, Ask, KeptInv, ConversationType
<1>2. n' \in [Incidents -> Nat] /\ n'["fault"] >= n["fault"]
  BY Same, CountType DEF Begin, Resume, Act, Answer, Ask, KeptInv, Incidents
<1>3. Running' /\ run'.step # "commit"
  BY Messages, Written DEF Begin, Resume, Act, Answer, Ask, Roles
<1> QED BY <1>1, <1>2, <1>3, TurnStep

LEMMA ReadStep ==
  ASSUME KeptInv, NEW p \in Procs, Hint(p) \/ GiveUp(p) \/ Refused(p)
  PROVE  KeptInv'
<1>1. UNCHANGED <<clock, rows, seq, tx, acked, turns>>
  BY DEF Hint, GiveUp, Refused
<1>2. n' \in [Incidents -> Nat] /\ n'["fault"] >= n["fault"]
  BY Same, CountType DEF Hint, GiveUp, Refused, KeptInv, Incidents
<1>3. run' # None => Running' /\ run'.step # "commit"
  BY DEF Hint, GiveUp, Refused, Raise, Serving, Running, KeptInv, ConversationType
<1> QED BY <1>1, <1>2, <1>3, TurnStep DEF KeptInv, ConversationType

LEMMA ConnectionType ==
  ASSUME ConversationType, NEW p \in Procs
  PROVE  /\ tx[p] \in Connections /\ Began(p) \in Nat /\ Stamp(p) \in Nat
         /\ Opened(p) \in Connections /\ Opened(p).failed = tx[p].failed
         /\ Opened(p).pending = tx[p].pending
         /\ Quiet \in Connections /\ Quiet.failed = FALSE
BY DEF ConversationType, Connections, Began, Stamp, Opened, Quiet

LEMMA RowType ==
  ASSUME ConversationType, NEW p \in Procs, Serving(p, "add")
  PROVE  Row(p) \in Stored
<1>1. Head(run.todo) \in Plain \cup Stored
  BY DEF ConversationType, Running, Serving
<1>2. Head(run.todo).kind \in Roles /\ Head(run.todo).ids \in SUBSET Nat
  BY <1>1 DEF Plain, Stored
<1>3. Stamp(p) \in Nat /\ seq \in Nat /\ turns \in Nat
  BY ConnectionType DEF ConversationType
<1> QED BY <1>2, <1>3 DEF Row, Stored

LEMMA AssembleStep ==
  ASSUME KeptInv, NEW p \in Procs, Assemble(p)
  PROVE  KeptInv'
<1>1. /\ UNCHANGED <<clock, rows, seq, turns, acked, n>> /\ run # None /\ run.p = p
      /\ run.step = "assemble" /\ run' = [run EXCEPT !.step = "decide"]
      /\ tx' = [tx EXCEPT ![p] = Opened(p)]
  BY DEF Assemble, Serving
<1>2. Running' /\ run'.step # "commit"
  BY <1>1 DEF KeptInv, ConversationType, Running
<1>3. ConversationType'
  BY <1>1, <1>2, ConnectionType DEF KeptInv, ConversationType
<1>4. InHand' /\ Missing' \subseteq Missing
  BY <1>1, <1>2 DEF InHand, Missing, Staked, Committing
<1> QED BY <1>1, <1>3, <1>4, Same, NothingLost DEF KeptInv

(* The message is added: the turn goes on with the next, or is done.           *)
LEMMA AddedRun ==
  ASSUME ConversationType, run # None, run.step \in {"add", "commit"},
         NEW STATE m, Added(m)
  PROVE  /\ run' # None => Running' /\ run'.step # "commit"
         /\ acked' = acked \cup {m.seq}
<1>1. Running /\ run.todo # <<>>
  BY DEF ConversationType, Running
<1>2. Tail(run.todo) \in Seq(Plain \cup Stored) /\ (Len(run.todo) # 1 => Tail(run.todo) # <<>>)
  <2>1. PICK S : run.todo \in Seq(S) /\ S = Plain \cup Stored
    BY <1>1 DEF Running
  <2>2. Tail(run.todo) \in Seq(S) /\ Len(Tail(run.todo)) = Len(run.todo) - 1
    BY <1>1, <2>1, HeadTailProperties
  <2>3. Len(run.todo) \in Nat
    BY <2>1, LenProperties
  <2>4. Len(run.todo) # 1 => Tail(run.todo) # <<>>
    <3>1. SUFFICES ASSUME Tail(run.todo) = <<>> PROVE Len(run.todo) = 1
      OBVIOUS
    <3>2. Len(Tail(run.todo)) = 0
      BY <3>1, EmptySeq, Zenon
    <3>3. PICK k \in Nat : k = Len(run.todo)
      BY <2>3
    <3>4. k - 1 = 0
      BY <2>2, <3>2, <3>3, Zenon
    <3> QED BY <3>3, <3>4
  <2> QED BY <2>1, <2>2, <2>4
<1> QED BY <1>1, <1>2 DEF Added, Running

LEMMA AddLiteStep ==
  ASSUME KeptInv, NEW p \in Procs, AddLite(p)
  PROVE  KeptInv'
<1>1. /\ UNCHANGED <<clock, tx, turns, n>> /\ run # None /\ run.step = "add"
      /\ rows' = rows \cup {Row(p)} /\ seq' = seq + 1 /\ Added(Row(p))
  BY DEF AddLite, Serving
<1>2. /\ run' # None => Running' /\ run'.step # "commit"
      /\ acked' = acked \cup {Row(p).seq}
  BY <1>1, RowType, AddedRun DEF AddLite, KeptInv
<1>3. ConversationType'
  BY <1>1, <1>2 DEF KeptInv, ConversationType
<1>4. InHand' /\ Missing' \subseteq Missing
  BY <1>1, <1>2 DEF InHand, Missing, Staked, Committing
<1> QED BY <1>1, <1>3, <1>4, Same, NothingLost DEF KeptInv

LEMMA InsertStep ==
  ASSUME KeptInv, NEW p \in Procs, Insert(p)
  PROVE  KeptInv'
<1> DEFINE c == [Opened(p) EXCEPT !.pending = {Row(p)}]
<1>1. /\ UNCHANGED <<clock, rows, turns, acked, n>> /\ run # None /\ run.p = p /\ ~tx[p].failed
      /\ tx' = [tx EXCEPT ![p] = c] /\ seq' = seq + 1
      /\ run' = [run EXCEPT !.step = "commit", !.todo = <<Row(p)>> \o Tail(@)]
      /\ run.step = "add"
  BY DEF Insert, Serving, Usable
<1>2. Row(p) \in Stored
  BY RowType DEF Insert, KeptInv
<1>3. c \in Connections /\ c.failed = FALSE /\ c.pending = {Row(p)}
  BY <1>1, <1>2, ConnectionType DEF KeptInv, Connections
<1>4. /\ tx' \in [Procs -> Connections] /\ tx'[p] = c
  BY <1>1, <1>3 DEF KeptInv, ConversationType
<1>5. /\ Running /\ run.todo # <<>>
  BY <1>1 DEF KeptInv, ConversationType, Running
<1>6. LET todo == <<Row(p)>> \o Tail(run.todo)
      IN  todo \in Seq(Plain \cup Stored) /\ todo # <<>> /\ Head(todo) = Row(p)
  <2>1. Tail(run.todo) \in Seq(Plain \cup Stored)
    BY <1>5, HeadTailProperties DEF Running
  <2>2. <<Row(p)>> \in Seq(Plain \cup Stored) /\ Len(<<Row(p)>>) = 1 /\ <<Row(p)>>[1] = Row(p)
    BY <1>2
  <2> QED BY <2>1, <2>2, ConcatProperties, HeadTailProperties, EmptySeq
<1>7. Running' /\ run'.p = p /\ Head(run'.todo) = Row(p)
  BY <1>1, <1>5, <1>6 DEF Running
<1>8. ConversationType'
  BY <1>1, <1>4, <1>7 DEF KeptInv, ConversationType
<1>9. InHand' /\ Missing' \subseteq Missing
  BY <1>1, <1>3, <1>4, <1>7 DEF InHand, Missing, Staked, Committing
<1> QED BY <1>1, <1>8, <1>9, Same, NothingLost DEF KeptInv

(* What is answered now is in the log, or was counted when it was lost.        *)
LEMMA CommitStep ==
  ASSUME KeptInv, NEW p \in Procs, Commit(p)
  PROVE  KeptInv'
<1> DEFINE m == Head(run.todo)
<1>1. /\ UNCHANGED <<clock, seq, turns, n>> /\ run # None /\ run.p = p /\ run.step = "commit"
      /\ rows' = IF tx[p].failed THEN rows ELSE rows \cup tx[p].pending
      /\ tx' = [tx EXCEPT ![p] = Quiet] /\ Added(m)
  BY DEF Commit, Serving
<1>2. /\ run' # None => Running' /\ run'.step # "commit"
      /\ acked' = acked \cup {m.seq}
  BY <1>1, AddedRun DEF KeptInv
<1>3. ConversationType'
  BY <1>1, <1>2, ConnectionType DEF KeptInv, ConversationType
<1>4. InHand' /\ Staked' = {}
  BY <1>2 DEF InHand, Staked, Committing
<1>5. Missing' \subseteq Missing
  <2>1. CASE tx[p].failed
    BY <1>1, <1>2, <1>4, <2>1 DEF Missing, Staked, Committing
  <2>2. CASE ~tx[p].failed
    <3>1. m \in rows'
      BY <1>1, <2>2 DEF KeptInv, InHand, Committing
    <3> QED BY <1>1, <1>2, <1>4, <2>2, <3>1 DEF Missing
  <2> QED BY <2>1, <2>2
<1> QED BY <1>1, <1>3, <1>4, <1>5, Same, NothingLost DEF KeptInv

-------------------------------------------------------------------------------
(* Beside the turn.                                                            *)

LEMMA OtherStep ==
  ASSUME KeptInv, NEW p \in Procs, OtherRead(p) \/ OtherWrite(p)
  PROVE  KeptInv'
<1>1. UNCHANGED <<clock, seq, turns, run, acked>> /\ ~tx[p].failed
  BY DEF OtherRead, OtherWrite, Usable
<1>2. n' \in [Incidents -> Nat] /\ n'["fault"] >= n["fault"]
  BY Same, CountType DEF OtherRead, OtherWrite, KeptInv, Incidents
<1>3. CASE OtherRead(p)
  <2>1. tx' = [tx EXCEPT ![p] = Opened(p)] /\ rows' = rows
    BY <1>3 DEF OtherRead
  <2>2. /\ tx' \in [Procs -> Connections]
        /\ \A q \in Procs : tx'[q].failed = tx[q].failed /\ tx'[q].pending = tx[q].pending
    BY <2>1, ConnectionType DEF KeptInv, ConversationType
  <2>3. ConversationType'
    BY <1>1, <1>2, <2>2 DEF KeptInv, ConversationType, Running
  <2>4. run # None => run.p \in Procs
    BY DEF KeptInv, ConversationType, Running
  <2>5. InHand' /\ Missing' \subseteq Missing
    BY <1>1, <2>1, <2>2, <2>4 DEF KeptInv, InHand, Missing, Staked, Committing
  <2> QED BY <1>2, <2>3, <2>5, NothingLost DEF KeptInv
<1>4. CASE OtherWrite(p)
  <2>1. tx' = [tx EXCEPT ![p] = Quiet] /\ rows' = rows \cup tx[p].pending
    BY <1>4 DEF OtherWrite
  <2>2. /\ tx' \in [Procs -> Connections]
        /\ \A q \in Procs : tx'[q].failed = tx[q].failed
        /\ \A q \in Procs : q # p => tx'[q].pending = tx[q].pending
    <3>1. tx \in [Procs -> Connections] /\ Quiet \in Connections /\ Quiet.failed = FALSE
      BY ConnectionType DEF KeptInv, ConversationType
    <3>2. tx' \in [Procs -> Connections] /\ tx'[p] = Quiet
      BY <2>1, <3>1
    <3>3. \A q \in Procs : q # p => tx'[q] = tx[q]
      BY <2>1, <3>1
    <3>4. tx'[p].failed = tx[p].failed
      <4>1. tx[p].failed \in BOOLEAN
        BY <3>1 DEF Connections
      <4> QED BY <1>1, <3>1, <3>2, <4>1
    <3> QED BY <3>2, <3>3, <3>4
  <2>3. ConversationType'
    BY <1>1, <1>2, <2>2 DEF KeptInv, ConversationType, Running
  <2>4. run # None => run.p \in Procs
    BY DEF KeptInv, ConversationType, Running
  <2>5. InHand' /\ Missing' \subseteq Missing
    BY <1>1, <2>1, <2>2, <2>4 DEF KeptInv, InHand, Missing, Staked, Committing
  <2> QED BY <1>2, <2>3, <2>5, NothingLost DEF KeptInv
<1> QED BY <1>3, <1>4

(* The one step that costs a message: the one in hand on this connection.      *)
LEMMA FaultStep ==
  ASSUME KeptInv, NEW p \in Procs, Fault(p)
  PROVE  KeptInv'
<1>1. /\ UNCHANGED <<clock, rows, seq, turns, run, acked>>
      /\ tx' = [tx EXCEPT ![p].failed = TRUE] /\ Count("fault")
  BY DEF Fault
<1>2. n' \in [Incidents -> Nat] /\ n'["fault"] = n["fault"] + 1
  BY <1>1, CountType DEF KeptInv, Incidents
<1>3. /\ tx' \in [Procs -> Connections] /\ tx'[p].failed
      /\ \A q \in Procs : q # p => tx'[q] = tx[q]
  BY <1>1 DEF KeptInv, ConversationType, Connections
<1>4. ConversationType'
  BY <1>1, <1>2, <1>3 DEF KeptInv, ConversationType, Running
<1>5. run # None => run.p \in Procs
  BY DEF KeptInv, ConversationType, Running
<1>6. InHand' /\ Missing' \subseteq Missing \cup {Head(run.todo).seq}
  BY <1>1, <1>3, <1>5 DEF KeptInv, InHand, Missing, Staked, Committing
<1> QED BY <1>2, <1>4, <1>6, OneLost DEF KeptInv

LEMMA RestStep ==
  ASSUME KeptInv, Tick \/ \E p \in Procs : ClearSession(p) \/ Crash(p)
  PROVE  KeptInv'
<1>1. CASE Tick
  <2>1. UNCHANGED <<rows, seq, tx, run, turns, acked, n>> /\ clock' = clock + 1
    BY <1>1 DEF Tick
  <2>2. ConversationType'
    BY <2>1 DEF KeptInv, ConversationType, Running
  <2>3. InHand' /\ Missing' \subseteq Missing
    BY <2>1 DEF KeptInv, InHand, Missing, Staked, Committing
  <2> QED BY <2>1, <2>2, <2>3, Same, NothingLost DEF KeptInv
<1>2. ASSUME NEW p \in Procs, ClearSession(p) PROVE KeptInv'
  <2>1. /\ UNCHANGED <<clock, seq, run, turns>> /\ run = None /\ tx' = [tx EXCEPT ![p] = Quiet]
        /\ rows' = {} /\ acked' = acked \ {r.seq : r \in rows}
    BY <1>2 DEF ClearSession
  <2>2. n' \in [Incidents -> Nat] /\ n'["fault"] >= n["fault"]
    BY <1>2, CountType DEF ClearSession, KeptInv, Incidents
  <2>3. ConversationType'
    BY <2>1, <2>2, ConnectionType DEF KeptInv, ConversationType
  <2>4. InHand' /\ Missing' \subseteq Missing
    BY <2>1 DEF InHand, Missing, Staked, Committing
  <2> QED BY <2>2, <2>3, <2>4, NothingLost DEF KeptInv
<1>3. ASSUME NEW p \in Procs, Crash(p) PROVE KeptInv'
  <2>1. /\ UNCHANGED <<clock, rows, seq, turns, acked>> /\ tx' = [tx EXCEPT ![p] = Quiet]
        /\ run' = None \/ (run' = run /\ (run # None => run.p # p))
    BY <1>3 DEF Crash, Raise
  <2>2. n' \in [Incidents -> Nat] /\ n'["fault"] >= n["fault"]
    BY <1>3, CountType DEF Crash, KeptInv, Incidents
  <2>3. /\ tx' \in [Procs -> Connections] /\ \A q \in Procs : q # p => tx'[q] = tx[q]
    BY <2>1, ConnectionType DEF KeptInv, ConversationType
  <2>4. ConversationType'
    BY <2>1, <2>2, <2>3 DEF KeptInv, ConversationType, Running
  <2>5. run # None => run.p \in Procs
    BY DEF KeptInv, ConversationType, Running
  <2>6. InHand' /\ Missing' \subseteq Missing
    BY <2>1, <2>3, <2>5 DEF KeptInv, InHand, Missing, Staked, Committing
  <2> QED BY <2>2, <2>4, <2>6, NothingLost DEF KeptInv
<1> QED BY <1>1, <1>2, <1>3

-------------------------------------------------------------------------------
LEMMA KeptStep == KeptInv /\ [Next]_vars => KeptInv'
<1> SUFFICES ASSUME KeptInv, [Next]_vars PROVE KeptInv'
  OBVIOUS
<1>1. ASSUME NEW p \in Procs,
             \/ Begin(p) \/ Resume(p) \/ Act(p) \/ Answer(p) \/ Ask(p)
             \/ Hint(p) \/ GiveUp(p) \/ Refused(p) \/ Assemble(p)
             \/ AddLite(p) \/ Insert(p) \/ Commit(p)
             \/ OtherRead(p) \/ OtherWrite(p) \/ Fault(p)
      PROVE  KeptInv'
  BY <1>1, WriteStep, ReadStep, AssembleStep, AddLiteStep, InsertStep, CommitStep,
     OtherStep, FaultStep
<1>2. CASE Tick \/ \E p \in Procs : ClearSession(p) \/ Crash(p)
  BY <1>2, RestStep
<1>3. CASE UNCHANGED vars
  BY <1>3 DEF vars, KeptInv, ConversationType, Running, InHand, Counted, Missing, Staked, Committing
<1> QED BY <1>1, <1>2, <1>3 DEF Next

(* A statement that fails on the shared connection costs at most one message   *)
(* whose add_message returned, and nothing else costs any: not a crash, nor    *)
(* what other sessions do on the connection                                    *)
(* (PostgresConversationStore.add_message).                                    *)
THEOREM KeptCorrect == Spec => []KeptButForFaults
<1>1. KeptInv => KeptButForFaults
  <2> SUFFICES ASSUME KeptInv PROVE KeptButForFaults
    OBVIOUS
  <2>1. Lost \subseteq Missing
    BY DEF Lost, Missing
  <2>2. /\ Cardinality(Lost) <= Cardinality(Missing)
        /\ Cardinality(Lost) \in Nat /\ Cardinality(Missing) \in Nat
    BY <2>1, FS_Subset, FS_CardinalityType DEF KeptInv, Counted
  <2>3. n["fault"] \in Nat
    BY DEF KeptInv, ConversationType, Incidents
  <2> QED BY <2>2, <2>3 DEF KeptInv, Counted, KeptButForFaults
<1> QED BY KeptInit, KeptStep, <1>1, PTL DEF Spec

-------------------------------------------------------------------------------
(* Induction over the numbers, as a statement about sets.                      *)
LEMMA Least ==
  ASSUME NEW T, T \subseteq Nat, T # {}
  PROVE  \E x \in T : \A y \in T : x <= y
<1>1. PICK R : R = OpToRel(<, Nat)
  OBVIOUS
<1>2. R = {ss \in Nat \X Nat : ss[1] < ss[2]}
  BY <1>1 DEF OpToRel
<1>3. IsWellFoundedOn(R, Nat)
  BY <1>1, NatLessThanWellFounded
<1>4. PICK x \in T : \A y \in T : ~(<<y, x>> \in R)
  BY <1>3, WFMin
<1>5. \A y \in T : ~(y < x)
  BY <1>2, <1>4
<1> QED BY <1>4, <1>5

(* A set of numbers with 0 and every successor has them all.                   *)
LEMMA Inductive ==
  ASSUME NEW T, 0 \in T, \A j \in Nat : j \in T => j + 1 \in T
  PROVE  Nat \subseteq T
<1> SUFFICES ASSUME Nat \ T # {} PROVE FALSE
  OBVIOUS
<1>1. PICK x \in Nat \ T : \A y \in Nat \ T : x <= y
  BY Least
<1>2. x # 0 /\ x - 1 \in Nat /\ ~(x <= x - 1)
  BY <1>1
<1>3. x - 1 \in T
  BY <1>1, <1>2
<1> QED BY <1>1, <1>2, <1>3

(* What is defined step by step exists.                                        *)
Steps(V, size) == [(1..size) \X V -> V]
IsIterate(f, V, a, size, step) ==
  f \in [0..size -> V] /\ f[0] = a /\ \A j \in 1..size : f[j] = step[<<j, f[j - 1]>>]

LEMMA Iterates ==
  ASSUME NEW V, NEW a \in V, NEW size \in Nat, NEW step \in Steps(V, size)
  PROVE  \E f : IsIterate(f, V, a, size, step)
<1> DEFINE Good(k) == \E f \in [0..k -> V] : f[0] = a /\ \A j \in 1..k : f[j] = step[<<j, f[j - 1]>>]
<1> DEFINE T == {k \in Nat : k <= size => Good(k)}
<1>1. 0 \in T
  <2> DEFINE f == [j \in 0..0 |-> a]
  <2>1. f \in [0..0 -> V] /\ f[0] = a /\ 1..0 = {}
    OBVIOUS
  <2> QED BY <2>1
<1>2. ASSUME NEW k \in Nat, k \in T PROVE k + 1 \in T
  <2> SUFFICES ASSUME k + 1 <= size PROVE Good(k + 1)
    OBVIOUS
  <2>1. PICK f \in [0..k -> V] : f[0] = a /\ \A j \in 1..k : f[j] = step[<<j, f[j - 1]>>]
    BY <1>2
  <2>2. f[k] \in V /\ k + 1 \in 1..size
    BY <2>1
  <2>3. step[<<k + 1, f[k]>>] \in V
    BY <2>2 DEF Steps
  <2> DEFINE g == [j \in 0..k + 1 |-> IF j = k + 1 THEN step[<<k + 1, f[k]>>] ELSE f[j]]
  <2>4. g \in [0..k + 1 -> V]
    BY <2>3
  <2>5. g[0] = a
    BY <2>1
  <2>6. \A j \in 1..k : g[j] = f[j] /\ g[j - 1] = f[j - 1]
    OBVIOUS
  <2>7. g[k + 1] = step[<<k + 1, f[k]>>] /\ g[(k + 1) - 1] = f[k]
    OBVIOUS
  <2> HIDE DEF g
  <2>8. \A j \in 1..k + 1 : g[j] = step[<<j, g[j - 1]>>]
    <3> SUFFICES ASSUME NEW j \in 1..k + 1 PROVE g[j] = step[<<j, g[j - 1]>>]
      OBVIOUS
    <3>1. CASE j = k + 1
      BY <2>7, <3>1
    <3>2. CASE j \in 1..k
      BY <2>1, <2>6, <3>2
    <3>3. j = k + 1 \/ j \in 1..k
      OBVIOUS
    <3> QED BY <3>1, <3>2, <3>3
  <2> QED BY <2>4, <2>5, <2>8
<1> HIDE DEF T
<1>3. Nat \subseteq T
  BY <1>1, <1>2, Inductive
<1> QED BY <1>3 DEF T, IsIterate

LEMMA TokensType == ASSUME NEW m \in Stored PROVE Tokens(m) \in Nat
BY ConversationAssumption DEF Tokens, Stored, Roles

(* Total by its partial sums.                                                  *)
LEMMA TotalIs ==
  ASSUME NEW ms \in Seq(Stored)
  PROVE  \E f \in [0..Len(ms) -> Nat] :
           /\ f[0] = 0 /\ Total(ms) = f[Len(ms)]
           /\ \A i \in 1..Len(ms) : f[i] = f[i - 1] + Tokens(ms[i])
<1> DEFINE len == Len(ms)
<1>1. len \in Nat /\ \A i \in 1..len : Tokens(ms[i]) \in Nat
  BY ElementOfSeq, LenProperties, TokensType
<1> DEFINE step == [x \in (1..len) \X Nat |-> x[2] + Tokens(ms[x[1]])]
<1>2. step \in [(1..len) \X Nat -> Nat]
  BY <1>1
<1>3. PICK f \in [0..len -> Nat] : f[0] = 0 /\ \A i \in 1..len : f[i] = step[<<i, f[i - 1]>>]
  <2>1. PICK k \in Nat : k = len
    BY <1>1
  <2>2. PICK st \in Steps(Nat, k) : st = step
    BY <1>2, <2>1 DEF Steps
  <2>3. \E f : IsIterate(f, Nat, 0, k, st)
    BY Iterates
  <2> QED BY <2>1, <2>2, <2>3 DEF IsIterate
<1>4. \A i \in 1..len : f[i] = f[i - 1] + Tokens(ms[i])
  <2> SUFFICES ASSUME NEW i \in 1..len PROVE f[i] = f[i - 1] + Tokens(ms[i])
    OBVIOUS
  <2>1. \A k \in Nat : \A j \in 1..k : j - 1 \in 0..k
    OBVIOUS
  <2>2. i - 1 \in 0..len
    BY <1>1, <2>1, Zenon
  <2>3. f[i - 1] \in Nat
    BY <2>2, Zenon
  <2>4. step[<<i, f[i - 1]>>] = f[i - 1] + Tokens(ms[i])
    BY <2>3
  <2> QED BY <1>3, <2>4
<1>5. f = [i \in 0..len |-> IF i = 0 THEN 0 ELSE f[i - 1] + Tokens(ms[i])]
  BY <1>1, <1>3, <1>4
<1> DEFINE sum == CHOOSE s : s = [i \in 0..len |-> IF i = 0 THEN 0 ELSE s[i - 1] + Tokens(ms[i])]
<1>6. sum = [i \in 0..len |-> IF i = 0 THEN 0 ELSE sum[i - 1] + Tokens(ms[i])]
  BY <1>5
<1>7. Total(ms) = sum[len]
  BY DEF Total
<1> HIDE DEF sum
<1>8. sum[0] = 0 /\ \A i \in 1..len : sum[i] = sum[i - 1] + Tokens(ms[i])
  BY <1>1, <1>6
<1>9. \A k \in Nat : k <= len => sum[k] = f[k]
  <2> DEFINE T == {k \in Nat : k <= len => sum[k] = f[k]}
  <2>1. 0 \in T
    BY <1>3, <1>8
  <2>2. ASSUME NEW k \in Nat, k \in T PROVE k + 1 \in T
    <3> SUFFICES ASSUME k + 1 <= len PROVE sum[k + 1] = f[k + 1]
      OBVIOUS
    <3>1. k + 1 \in 1..len /\ (k + 1) - 1 = k /\ sum[k] = f[k]
      BY <1>1, <2>2
    <3> QED BY <1>4, <1>8, <3>1
  <2> HIDE DEF T
  <2>3. Nat \subseteq T
    BY <2>1, <2>2, Inductive
  <2> QED BY <2>3 DEF T
<1>10. Total(ms) = f[len]
  BY <1>1, <1>7, <1>9
<1> QED BY <1>3, <1>4, <1>10

(* The results of a call are the messages from it up to some end.              *)
LEMMA GroupIs ==
  ASSUME NEW ms \in Seq(Stored), NEW h \in DOMAIN ms
  PROVE  \E e \in h..Len(ms) :
           /\ \A i \in DOMAIN ms : Chained(ms, h, i) <=> i \in h + 1..e
           /\ Group(ms, h) \in Seq(Stored) /\ Len(Group(ms, h)) = e - h + 1
           /\ \A i \in 1..e - h + 1 : Group(ms, h)[i] = ms[h + i - 1]
<1>1. Len(ms) \in Nat /\ DOMAIN ms = 1..Len(ms) /\ \A i \in 1..Len(ms) : ms[i] \in Stored
  BY LenProperties, ElementOfSeq
<1> DEFINE S == {h} \cup {i \in DOMAIN ms : Chained(ms, h, i)}
<1> DEFINE T == {j \in Nat : h + j \notin S}
<1>2. T \subseteq Nat /\ T # {}
  <2>1. (Len(ms) - h) + 1 \in Nat /\ h + ((Len(ms) - h) + 1) = Len(ms) + 1
    BY <1>1
  <2>2. Len(ms) + 1 \notin S
    BY <1>1
  <2> QED BY <2>1, <2>2
<1>3. PICK j \in T : \A k \in T : j <= k
  <2> HIDE DEF T
  <2> QED BY <1>2, Least
<1>4. j # 0 /\ j \in Nat
  BY <1>1, <1>3
<1>5. \A i \in S : i >= h /\ i <= Len(ms) /\ \A k \in h..i : k \in S
  <2> SUFFICES ASSUME NEW i \in S, i # h PROVE i >= h /\ i <= Len(ms) /\ \A k \in h..i : k \in S
    BY <1>1
  <2>1. i \in DOMAIN ms /\ Chained(ms, h, i) /\ h < i
    BY DEF Chained
  <2>2. ASSUME NEW k \in h + 1..i PROVE k \in DOMAIN ms /\ Chained(ms, h, k)
    BY <1>1, <2>1, <2>2 DEF Chained
  <2> QED BY <1>1, <2>1, <2>2
<1> DEFINE e == h + j - 1
<1>6. S = h..e
  <2>1. \A k \in h..e : k \in S
    <3> SUFFICES ASSUME NEW k \in h..e PROVE k \in S
      OBVIOUS
    <3>1. k - h \in Nat /\ ~(j <= k - h) /\ h + (k - h) = k
      BY <1>1, <1>4
    <3> HIDE DEF S
    <3> QED BY <1>3, <3>1
  <2>2. \A i \in S : i \in h..e
    <3> SUFFICES ASSUME NEW i \in S, i > e PROVE FALSE
      BY <1>1, <1>4, <1>5
    <3>1. h + j \in h..i
      BY <1>1, <1>4, <1>5
    <3>2. h + j \in S
      BY <1>5, <3>1
    <3> HIDE DEF S
    <3> QED BY <1>3, <3>2
  <2> QED BY <2>1, <2>2
<1>7. e \in h..Len(ms)
  BY <1>1, <1>4, <1>5, <1>6
<1>8. \A i \in DOMAIN ms : Chained(ms, h, i) <=> i \in h + 1..e
  <2>1. ~Chained(ms, h, h)
    BY <1>1 DEF Chained
  <2> QED BY <1>1, <1>6, <1>7, <2>1
<1>9. Cardinality(S) = e - h + 1
  <2>1. PICK a \in Int, b \in Int : a = h /\ b = e
    BY <1>1, <1>7
  <2>2. Cardinality(a..b) = IF a <= b THEN b - a + 1 ELSE 0
    BY FS_Interval
  <2>3. a <= b /\ b - a + 1 = e - h + 1
    BY <1>1, <1>7, <2>1
  <2> HIDE DEF S, e
  <2> QED BY <1>6, <2>1, <2>2, <2>3
<1>10. Group(ms, h) = [i \in 1..e - h + 1 |-> ms[h + i - 1]]
  BY <1>9 DEF Group
<1>11. \A i \in 1..e - h + 1 : ms[h + i - 1] \in Stored
  BY <1>1, <1>7
<1> QED
  <2>1. PICK len \in Nat : len = e - h + 1
    BY <1>1, <1>7
  <2>2. Group(ms, h) \in [1..len -> Stored]
    BY <1>10, <1>11, <2>1
  <2>3. Group(ms, h) \in Seq(Stored) /\ Len(Group(ms, h)) = len
    BY <2>1, <2>2
  <2> QED BY <1>7, <1>8, <1>10, <2>1, <2>3

(* Chains do not reach from one group into the next, and keep their places.    *)
LEMMA ConcatChained ==
  ASSUME NEW a \in Seq(Stored), NEW b \in Seq(Stored)
  PROVE  /\ \A h, i \in 1..Len(a) : Chained(a \o b, h, i) <=> Chained(a, h, i)
         /\ \A h, i \in 1..Len(b) : Chained(a \o b, Len(a) + h, Len(a) + i) <=> Chained(b, h, i)
<1>1. Len(a) \in Nat /\ Len(b) \in Nat /\ Len(a \o b) = Len(a) + Len(b)
  BY LenProperties, ConcatProperties
<1>2. \A i \in 1..Len(a) : (a \o b)[i] = a[i]
  BY <1>1, ConcatProperties
<1>3. \A i \in 1..Len(b) : (a \o b)[Len(a) + i] = b[i]
  <2> SUFFICES ASSUME NEW i \in 1..Len(b) PROVE (a \o b)[Len(a) + i] = b[i]
    OBVIOUS
  <2>1. Len(a) + i \in 1..Len(a) + Len(b) /\ ~(Len(a) + i <= Len(a)) /\ Len(a) + i - Len(a) = i
    BY <1>1
  <2> QED BY <2>1, ConcatProperties
<1>4. ASSUME NEW h \in 1..Len(a), NEW i \in 1..Len(a)
      PROVE  Chained(a \o b, h, i) <=> Chained(a, h, i)
  BY <1>1, <1>2 DEF Chained
<1>5. ASSUME NEW h \in 1..Len(b), NEW i \in 1..Len(b)
      PROVE  Chained(a \o b, Len(a) + h, Len(a) + i) <=> Chained(b, h, i)
  <2>1. Len(a) + h < Len(a) + i <=> h < i
    BY <1>1
  <2>2. ASSUME NEW k \in h + 1..i PROVE Len(a) + k \in Len(a) + h + 1..Len(a) + i /\ k \in 1..Len(b)
    BY <1>1
  <2>3. ASSUME NEW k \in Len(a) + h + 1..Len(a) + i
        PROVE  k - Len(a) \in h + 1..i /\ k - Len(a) \in 1..Len(b) /\ Len(a) + (k - Len(a)) = k
    BY <1>1
  <2>4. (\A k \in h + 1..i : b[k].kind = "tool")
        <=> \A k \in Len(a) + h + 1..Len(a) + i : (a \o b)[k].kind = "tool"
    <3>1. ASSUME \A k \in h + 1..i : b[k].kind = "tool", NEW k \in Len(a) + h + 1..Len(a) + i
          PROVE (a \o b)[k].kind = "tool"
      BY <1>3, <2>3, <3>1
    <3>2. ASSUME \A k \in Len(a) + h + 1..Len(a) + i : (a \o b)[k].kind = "tool", NEW k \in h + 1..i
          PROVE b[k].kind = "tool"
      BY <1>3, <2>2, <3>2
    <3> QED BY <3>1, <3>2
  <2> QED BY <1>3, <2>1, <2>4 DEF Chained
<1> QED BY <1>4, <1>5

(* What may be sent: both halves of each chain are there.                      *)
Fair(ms) == ms \in Seq(Stored) /\ \A i \in DOMAIN ms : Answered(ms, i)

(* Groups that are fair one by one are fair in a row.                          *)
LEMMA ConcatFair ==
  ASSUME NEW a, NEW b, Fair(a), Fair(b)
  PROVE  Fair(a \o b)
<1> DEFINE c == a \o b
<1>1. a \in Seq(Stored) /\ b \in Seq(Stored) /\ c \in Seq(Stored)
  BY ConcatProperties DEF Fair
<1>2. /\ Len(a) \in Nat /\ Len(b) \in Nat /\ Len(c) = Len(a) + Len(b)
      /\ DOMAIN a = 1..Len(a) /\ DOMAIN b = 1..Len(b) /\ DOMAIN c = 1..Len(c)
  BY <1>1, LenProperties, ConcatProperties
<1>3. \A i \in 1..Len(a) : c[i] = a[i] /\ i \in DOMAIN c
  BY <1>1, <1>2, ConcatProperties
<1>4. \A i \in 1..Len(b) : c[Len(a) + i] = b[i] /\ Len(a) + i \in DOMAIN c
  <2> SUFFICES ASSUME NEW i \in 1..Len(b) PROVE c[Len(a) + i] = b[i] /\ Len(a) + i \in DOMAIN c
    OBVIOUS
  <2>1. Len(a) + i \in 1..Len(a) + Len(b) /\ ~(Len(a) + i <= Len(a)) /\ Len(a) + i - Len(a) = i
    BY <1>2
  <2> QED BY <1>1, <1>2, <2>1, ConcatProperties
<1>5. /\ \A h, i \in 1..Len(a) : Chained(c, h, i) <=> Chained(a, h, i)
      /\ \A h, i \in 1..Len(b) : Chained(c, Len(a) + h, Len(a) + i) <=> Chained(b, h, i)
  BY <1>1, ConcatChained
<1> HIDE DEF c
<1>6. ASSUME NEW i \in 1..Len(a) PROVE Answered(c, i)
  <2>1. Answered(a, i)
    BY <1>2 DEF Fair
  <2>2. ASSUME c[i].kind = "call", NEW id \in c[i].ids
        PROVE  \E j \in DOMAIN c : c[j].kind = "tool" /\ id \in c[j].ids /\ Chained(c, i, j)
    <3>1. PICK j \in 1..Len(a) : a[j].kind = "tool" /\ id \in a[j].ids /\ Chained(a, i, j)
      BY <1>2, <1>3, <2>1, <2>2 DEF Answered
    <3> QED BY <1>3, <1>5, <3>1
  <2>3. ASSUME c[i].kind = "tool"
        PROVE  \E h \in DOMAIN c : Chained(c, h, i) /\ (c[i].ids \subseteq c[h].ids \/ Astray(c[i]))
    <3>1. PICK h \in 1..Len(a) : Chained(a, h, i) /\ (a[i].ids \subseteq a[h].ids \/ Astray(a[i]))
      BY <1>2, <1>3, <2>1, <2>3 DEF Answered
    <3> QED BY <1>3, <1>5, <3>1
  <2> QED BY <2>2, <2>3 DEF Answered
<1>7. ASSUME NEW i \in 1..Len(b) PROVE Answered(c, Len(a) + i)
  <2>1. Answered(b, i)
    BY <1>2 DEF Fair
  <2>2. ASSUME c[Len(a) + i].kind = "call", NEW id \in c[Len(a) + i].ids
        PROVE  \E j \in DOMAIN c : c[j].kind = "tool" /\ id \in c[j].ids /\ Chained(c, Len(a) + i, j)
    <3>1. PICK j \in 1..Len(b) : b[j].kind = "tool" /\ id \in b[j].ids /\ Chained(b, i, j)
      BY <1>2, <1>4, <2>1, <2>2 DEF Answered
    <3> QED BY <1>4, <1>5, <3>1
  <2>3. ASSUME c[Len(a) + i].kind = "tool"
        PROVE  \E h \in DOMAIN c : /\ Chained(c, h, Len(a) + i)
                                   /\ c[Len(a) + i].ids \subseteq c[h].ids \/ Astray(c[Len(a) + i])
    <3>1. PICK h \in 1..Len(b) : Chained(b, h, i) /\ (b[i].ids \subseteq b[h].ids \/ Astray(b[i]))
      BY <1>2, <1>4, <2>1, <2>3 DEF Answered
    <3> QED BY <1>4, <1>5, <3>1
  <2> QED BY <2>2, <2>3 DEF Answered
<1>8. ASSUME NEW i \in DOMAIN c PROVE Answered(c, i)
  <2>1. CASE i <= Len(a)
    BY <1>2, <1>6, <2>1
  <2>2. CASE i > Len(a)
    <3>1. PICK k \in 1..Len(b) : k = i - Len(a)
      BY <1>2, <2>2
    <3>2. Len(a) + k = i
      BY <1>2, <3>1
    <3> QED BY <1>7, <3>2
  <2> QED BY <1>2, <2>1, <2>2
<1> QED BY <1>1, <1>8 DEF Fair, c

-------------------------------------------------------------------------------
(* The loop of trim_conversation_history.                                      *)
Acc == [kept : Seq(Stored), left : Int, full : BOOLEAN]
Nothing == [kept |-> <<>>, left |-> Budget, full |-> FALSE]

(* One turn of the loop of trim_conversation_history.                          *)
LEMMA KeepIs ==
  ASSUME NEW g \in Seq(Stored), NEW acc \in Acc
  PROVE  /\ Total(g) \in Nat
         /\ acc.full => Keep(g, acc) = acc
         /\ ~acc.full /\ Total(g) <= acc.left =>
              /\ Keep(g, acc).kept = g \o acc.kept /\ Keep(g, acc).left = acc.left - Total(g)
              /\ ~Keep(g, acc).full
         /\ ~acc.full /\ ~(Total(g) <= acc.left) =>
              /\ Keep(g, acc).kept = acc.kept /\ Keep(g, acc).left = acc.left
              /\ Keep(g, acc).full <=> Total(g) <= Budget
         /\ Keep(g, acc) \in Acc
<1>1. Total(g) \in Nat
  <2>1. PICK f \in [0..Len(g) -> Nat] : Total(g) = f[Len(g)]
    BY TotalIs
  <2> QED BY <2>1, LenProperties
<1>2. acc.kept \in Seq(Stored) /\ acc.left \in Int /\ acc.full \in BOOLEAN /\ Budget \in Int
  BY ConversationAssumption DEF Acc
<1>3. g \o acc.kept \in Seq(Stored)
  BY <1>2, ConcatProperties
<1>4. CASE acc.full
  <2>1. Keep(g, acc) = acc
    BY <1>4 DEF Keep
  <2> QED BY <1>1, <1>4, <2>1
<1>5. CASE ~acc.full /\ Total(g) <= acc.left
  <2>1. PICK r \in Seq(Stored) : r = g \o acc.kept
    BY <1>3
  <2>2. PICK k \in Int : k = acc.left - Total(g)
    BY <1>1, <1>2
  <2>3. Keep(g, acc) = [[acc EXCEPT !.kept = r] EXCEPT !.left = k]
    BY <1>5, <2>1, <2>2 DEF Keep
  <2>4. [[acc EXCEPT !.kept = r] EXCEPT !.left = k] = [kept |-> r, left |-> k, full |-> acc.full]
    <3>1. PICK x : x = [acc EXCEPT !.kept = r]
      OBVIOUS
    <3>2. x = [kept |-> r, left |-> acc.left, full |-> acc.full]
      BY <3>1 DEF Acc
    <3>3. [x EXCEPT !.left = k] = [kept |-> r, left |-> k, full |-> acc.full]
      BY <3>2
    <3> QED BY <3>1, <3>3
  <2>5. PICK y : y = [kept |-> r, left |-> k, full |-> acc.full]
    OBVIOUS
  <2>6. y \in Acc /\ y.kept = r /\ y.left = k /\ y.full = acc.full
    BY <1>2, <2>5 DEF Acc
  <2> QED BY <1>1, <1>5, <2>1, <2>2, <2>3, <2>4, <2>5, <2>6
<1>6. CASE ~acc.full /\ ~(Total(g) <= acc.left)
  <2>1. PICK b \in BOOLEAN : b = (Total(g) <= Budget)
    <3>1. CASE Total(g) <= Budget
      BY <3>1, Zenon
    <3>2. CASE ~(Total(g) <= Budget)
      <4>1. FALSE = (Total(g) <= Budget)
        BY <3>2
      <4> QED BY <4>1, Zenon
    <3> QED BY <3>1, <3>2
  <2>2. Keep(g, acc) = [acc EXCEPT !.full = b]
    BY <1>6, <2>1 DEF Keep
  <2>3. [acc EXCEPT !.full = b] = [kept |-> acc.kept, left |-> acc.left, full |-> b]
    BY DEF Acc
  <2>4. PICK y : y = [kept |-> acc.kept, left |-> acc.left, full |-> b]
    OBVIOUS
  <2>5. y \in Acc /\ y.kept = acc.kept /\ y.left = acc.left /\ y.full = b
    BY <1>2, <2>4 DEF Acc
  <2>6. b <=> Total(g) <= Budget
    BY <2>1, Zenon
  <2> QED BY <1>1, <1>6, <2>2, <2>3, <2>4, <2>5, <2>6
<1> QED BY <1>1, <1>4, <1>5, <1>6

LEMMA KeepType ==
  ASSUME NEW g \in Seq(Stored), NEW acc \in Acc
  PROVE  /\ Keep(g, acc) \in Acc
         /\ Keep(g, acc).kept = acc.kept \/ Keep(g, acc).kept = g \o acc.kept
BY KeepIs

LEMMA KeepCompleteType ==
  ASSUME NEW ms \in Seq(Stored), NEW h \in DOMAIN ms, NEW acc \in Acc
  PROVE  KeepComplete(ms, h, acc) \in Acc
<1>1. Group(ms, h) \in Seq(Stored)
  BY GroupIs
<1> QED BY <1>1, KeepType DEF KeepComplete

(* The loop by its turns, from the newest group to the oldest.                 *)
LEMMA TrimmedIs ==
  ASSUME NEW ms \in Seq(Stored)
  PROVE  /\ Trimmed(ms) \in [0..Len(ms) -> Acc] /\ Trimmed(ms)[0] = Nothing
         /\ \A j \in 1..Len(ms) : Trimmed(ms)[j] = KeepComplete(ms, Len(ms) - j + 1, Trimmed(ms)[j - 1])
<1> DEFINE len == Len(ms)
<1>1. len \in Nat /\ \A j \in 1..len : len - j + 1 \in DOMAIN ms
  BY LenProperties
<1>2. Nothing \in Acc
  BY ConversationAssumption, EmptySeq DEF Nothing, Acc
<1> DEFINE step == [x \in (1..len) \X Acc |-> KeepComplete(ms, len - x[1] + 1, x[2])]
<1>3. step \in Steps(Acc, len)
  BY <1>1, KeepCompleteType DEF Steps
<1>4. PICK f : IsIterate(f, Acc, Nothing, len, step)
  <2>1. PICK k \in Nat : k = len
    BY <1>1
  <2>2. PICK st \in Steps(Acc, k) : st = step
    BY <1>3, <2>1
  <2> QED BY <1>2, <2>1, <2>2, Iterates
<1>5. ASSUME NEW j \in 1..len PROVE f[j] = KeepComplete(ms, len - j + 1, f[j - 1])
  <2>1. f[j - 1] \in Acc /\ f[j] = step[<<j, f[j - 1]>>]
    <3>1. PICK k \in Nat : k = len
      BY <1>1
    <3>2. PICK st : st = step
      OBVIOUS
    <3>3. IsIterate(f, Acc, Nothing, k, st) /\ j \in 1..k /\ j - 1 \in 0..k
      BY <1>4, <3>1, <3>2
    <3>4. f[j - 1] \in Acc /\ f[j] = st[<<j, f[j - 1]>>]
      BY <3>3 DEF IsIterate
    <3> QED BY <3>2, <3>4
  <2> QED BY <2>1
<1>6. f = [j \in 0..len |-> IF j = 0 THEN Nothing ELSE KeepComplete(ms, len - j + 1, f[j - 1])]
  BY <1>1, <1>4, <1>5 DEF IsIterate
<1> DEFINE acc == CHOOSE a : a = [j \in 0..len |-> IF j = 0 THEN Nothing ELSE KeepComplete(ms, len - j + 1, a[j - 1])]
<1>7. acc = [j \in 0..len |-> IF j = 0 THEN Nothing ELSE KeepComplete(ms, len - j + 1, acc[j - 1])]
  BY <1>6
<1>8. Trimmed(ms) = acc
  BY DEF Trimmed, Nothing
<1> HIDE DEF acc
<1>9. acc[0] = Nothing /\ \A j \in 1..len : acc[j] = KeepComplete(ms, len - j + 1, acc[j - 1])
  <2>1. PICK k \in Nat : k = len
    BY <1>1
  <2>2. 0 \in 0..k /\ \A j \in 1..k : j \in 0..k /\ j # 0
    OBVIOUS
  <2>3. acc = [j \in 0..k |-> IF j = 0 THEN Nothing ELSE KeepComplete(ms, k - j + 1, acc[j - 1])]
    BY <1>7, <2>1
  <2>4. acc[0] = Nothing /\ \A j \in 1..k : acc[j] = KeepComplete(ms, k - j + 1, acc[j - 1])
    BY <2>2, <2>3
  <2> QED BY <2>1, <2>4
<1>10. \A k \in Nat : k <= len => acc[k] \in Acc
  <2> DEFINE T == {k \in Nat : k <= len => acc[k] \in Acc}
  <2>1. 0 \in T
    BY <1>2, <1>9
  <2>2. ASSUME NEW k \in Nat, k \in T PROVE k + 1 \in T
    <3> SUFFICES ASSUME k + 1 <= len PROVE acc[k + 1] \in Acc
      OBVIOUS
    <3>1. k + 1 \in 1..len /\ (k + 1) - 1 = k /\ acc[k] \in Acc
      BY <1>1, <2>2
    <3> QED BY <1>1, <1>9, <3>1, KeepCompleteType
  <2> HIDE DEF T
  <2>3. Nat \subseteq T
    BY <2>1, <2>2, Inductive
  <2> QED BY <2>3 DEF T
<1>11. acc \in [0..len -> Acc]
  BY <1>1, <1>7, <1>10
<1> QED BY <1>8, <1>9, <1>11

(* What the loop keeps of fair groups is fair.                                 *)
LEMMA TrimFair ==
  ASSUME NEW ms \in Seq(Stored), Fair(<<>>),
         \A h \in Heads(ms) : Complete(Group(ms, h)) => Fair(Group(ms, h))
  PROVE  Fair(Trim(ms))
<1> DEFINE acc == Trimmed(ms)
<1> DEFINE T == {k \in Nat : k <= Len(ms) => Fair(acc[k].kept)}
<1>0. Len(ms) \in Nat
  BY LenProperties
<1>1. 0 \in T
  BY <1>0, TrimmedIs DEF Nothing
<1>2. ASSUME NEW k \in Nat, k \in T PROVE k + 1 \in T
  <2> SUFFICES ASSUME k + 1 <= Len(ms) PROVE Fair(acc[k + 1].kept)
    OBVIOUS
  <2>1. PICK h : h = Len(ms) - (k + 1) + 1
    OBVIOUS
  <2>2. k + 1 \in 1..Len(ms) /\ (k + 1) - 1 = k /\ k \in 0..Len(ms) /\ h \in DOMAIN ms
    BY <1>0, <2>1, LenProperties
  <2>3. acc[k + 1] = KeepComplete(ms, h, acc[k]) /\ acc[k] \in Acc /\ Fair(acc[k].kept)
    BY <1>2, <2>1, <2>2, TrimmedIs
  <2>4. CASE h \in Heads(ms) /\ Complete(Group(ms, h))
    <3>1. Fair(Group(ms, h)) /\ acc[k + 1] = Keep(Group(ms, h), acc[k])
      BY <2>3, <2>4 DEF KeepComplete
    <3>2. PICK g \in Seq(Stored) : g = Group(ms, h)
      BY <3>1 DEF Fair
    <3>3. PICK a \in Acc : a = acc[k]
      BY <2>3
    <3>4. Fair(g \o a.kept)
      BY <2>3, <3>1, <3>2, <3>3, ConcatFair
    <3>5. Keep(g, a).kept = a.kept \/ Keep(g, a).kept = g \o a.kept
      BY KeepType
    <3> QED BY <2>3, <3>1, <3>2, <3>3, <3>4, <3>5
  <2>5. CASE ~(h \in Heads(ms) /\ Complete(Group(ms, h)))
    BY <2>3, <2>5 DEF KeepComplete
  <2> QED BY <2>4, <2>5
<1> HIDE DEF T
<1>3. Nat \subseteq T
  BY <1>1, <1>2, Inductive
<1>4. Fair(acc[Len(ms)].kept)
  BY <1>0, <1>3 DEF T
<1> QED BY <1>4 DEF Trim

(* A call and its results as the turn has them: here no result is astray.      *)
OwnAnswers(ms, i) ==
  /\ ms[i].kind = "call" =>
       \A id \in ms[i].ids : \E j \in DOMAIN ms :
          ms[j].kind = "tool" /\ id \in ms[j].ids /\ Chained(ms, i, j)
  /\ ms[i].kind = "tool" =>
       \E h \in DOMAIN ms : Chained(ms, h, i) /\ ms[i].ids \subseteq ms[h].ids
Whole(ms) == ms \in Seq(Stored) /\ \A i \in DOMAIN ms : OwnAnswers(ms, i)

(* Rows have numbers of their own, and none is of a time to come.              *)
Log ==
  /\ IsFiniteSet(rows) /\ rows \subseteq Stored /\ acked \subseteq 1..seq
  /\ \A r \in rows : r.seq \in 1..seq /\ r.at <= clock
  /\ \A r, s \in rows : r.seq = s.seq => r = s

(* Only a user's message can be dated before an earlier row: the connection    *)
(* has committed since, when the turn writes the others.                       *)
Dated == \A a, b \in rows : b.kind # "user" /\ a.seq < b.seq => a.at <= b.at

(* A result belongs to a call before it that is there, or was lost, and there  *)
(* is nothing but results from the one to the other.                           *)
Owner(o, t) ==
  /\ o < t.seq
  /\ o \in Lost \/ \E c \in rows : c.seq = o /\ c.kind = "call" /\ t.ids \subseteq c.ids
  /\ \A r \in rows : o < r.seq /\ r.seq < t.seq => r.kind = "tool"
Owned == \A t \in rows : t.kind = "tool" => \E o \in Nat : Owner(o, t)

(* On PostgreSQL alone a connection is open; what it holds is the message      *)
(* between its INSERT and its COMMIT.                                          *)
Connected ==
  /\ \A p \in Procs : tx[p].open => backend = "postgres" /\ tx[p].since <= clock
  /\ \A p \in Procs : tx[p].pending # {} =>
       Committing /\ run.p = p /\ tx[p].pending = {Head(run.todo)}

Adding == run # None /\ run.step \in {"add", "commit"}
Past == run # None /\ ~(Adding /\ Head(run.todo).kind = "user")
(* Nothing in the log is dated after the transaction in which the turn goes    *)
(* on: the rows it writes are not dated before one that is there.              *)
InTime == Past /\ tx[run.p].open => \A r \in rows : r.at <= tx[run.p].since

(* The message that is about to be committed is newer than all of the log.     *)
Coming ==
  Committing =>
    LET m == Head(run.todo)
    IN  /\ m \in Stored /\ m.seq = seq /\ seq > 0 /\ seq \notin acked /\ m.at <= clock
        /\ m.kind # "user" => \A r \in rows : r.at <= m.at
        /\ \A r \in rows : r.seq = seq => r = m

(* The chain that is being written: its call is at h, acknowledged, and has    *)
(* the results so far behind it; the len that it lacks are to be written next. *)
Lacks(turn, h, len) ==
  /\ \A i \in DOMAIN turn : i # h => OwnAnswers(turn, i)
  /\ turn[h].kind = "call"
  /\ \A j \in 1..Len(turn) - h : turn[h + j].kind = "tool" /\ turn[h + j].ids = {turn[h].seq + j}
  /\ turn[h].ids = {turn[h].seq + j : j \in 1..(Len(turn) - h) + len}
OpenChain(h) ==
  /\ Lacks(run.turn, h, Len(run.todo)) /\ run.turn[h].seq \in acked
  /\ \A r \in rows : /\ r.seq = run.turn[h].seq => r = run.turn[h]
                     /\ r.seq > run.turn[h].seq => r.kind = "tool"
Reached(h) == run.turn[h].seq + (Len(run.turn) - h)

(* What is still to be written of the turn: a message alone, a call with all   *)
(* of its results, or the results that an open chain lacks.                    *)
Plan ==
  run # None =>
    /\ run.step \in {"add", "commit", "assemble", "decide"} /\ run.turn \in Seq(Stored)
    /\ ~Adding => Whole(run.turn)
    /\ Adding =>
         LET m == Head(run.todo)
         IN  \/ /\ m.kind \in {"user", "say"} /\ Len(run.todo) = 1 /\ Whole(run.turn)
             \/ /\ m.kind = "call" /\ run.next = "assemble" /\ Whole(run.turn)
                /\ \A i \in 2..Len(run.todo) : run.todo[i].kind = "tool"
                /\ m.ids = {(IF run.step = "add" THEN 0 ELSE seq) + j : j \in 1..Len(run.todo) - 1}
             \/ /\ m.kind = "tool" /\ run.next = "assemble"
                /\ \A i \in DOMAIN run.todo : run.todo[i].kind = "tool"
                /\ run.step = "commit" => m.ids = {seq}
                /\ \E h \in DOMAIN run.turn :
                     OpenChain(h) /\ seq = Reached(h) + (IF run.step = "add" THEN 0 ELSE 1)

PromptInv ==
  /\ KeptInv /\ Log /\ Dated /\ Owned /\ Connected /\ InTime /\ Coming /\ Plan
  /\ snap # None => Whole(snap)
  /\ ChainsWhole

-------------------------------------------------------------------------------
(* The log in its order, and the window on it.                                 *)
LEMMA OlderTotal ==
  ASSUME Log, NEW a \in rows, NEW b \in rows, a # b
  PROVE  /\ Older(a, b) \/ Older(b, a)
         /\ ~(Older(a, b) /\ Older(b, a))
<1>1. a.seq \in Nat /\ b.seq \in Nat /\ a.at \in Nat /\ b.at \in Nat /\ a.seq # b.seq
  BY DEF Log, Stored
<1> QED BY <1>1 DEF Older

LEMMA OlderTransitive ==
  ASSUME Log, NEW a \in rows, NEW b \in rows, NEW c \in rows, Older(a, b), Older(b, c)
  PROVE  Older(a, c)
<1>1. /\ a.seq \in Nat /\ b.seq \in Nat /\ c.seq \in Nat
      /\ a.at \in Nat /\ b.at \in Nat /\ c.at \in Nat
  BY DEF Log, Stored
<1> QED BY <1>1 DEF Older

LEMMA OlderIrreflexive ==
  ASSUME Log, NEW a \in rows
  PROVE  ~Older(a, a)
<1>1. a.seq \in Nat /\ a.at \in Nat
  BY DEF Log, Stored
<1> QED BY <1>1 DEF Older

(* A row has as many newer ones as its rank says, so that each rank is taken   *)
(* once.                                                                       *)
LEMMA NewerIs ==
  ASSUME Log
  PROVE  /\ Cardinality(rows) \in Nat
         /\ \A m \in rows : Newer(rows, m) \in 0..Cardinality(rows) - 1
         /\ \A a, b \in rows : Older(a, b) => Newer(rows, b) < Newer(rows, a)
         /\ \A i \in 0..Cardinality(rows) - 1 : \E m \in rows : Newer(rows, m) = i
<1>1. IsFiniteSet(rows) /\ Cardinality(rows) \in Nat
  BY FS_CardinalityType DEF Log
<1> DEFINE After(m) == {k \in rows : Older(m, k)}
<1>2. ASSUME NEW m \in rows
      PROVE  IsFiniteSet(After(m)) /\ Newer(rows, m) \in 0..Cardinality(rows) - 1
  <2>1. After(m) \subseteq rows \ {m}
    BY OlderIrreflexive
  <2>2. IsFiniteSet(rows \ {m}) /\ Cardinality(rows \ {m}) = Cardinality(rows) - 1
    BY <1>1, FS_RemoveElement
  <2>3. IsFiniteSet(After(m)) /\ Cardinality(After(m)) <= Cardinality(rows) - 1
    BY <2>1, <2>2, FS_Subset
  <2>4. Cardinality(After(m)) \in Nat
    BY <2>3, FS_CardinalityType
  <2> QED BY <1>1, <2>3, <2>4 DEF Newer
<1>3. ASSUME NEW a \in rows, NEW b \in rows, Older(a, b)
      PROVE  Newer(rows, b) < Newer(rows, a)
  <2>1. b \notin After(b) /\ After(b) \cup {b} \subseteq After(a)
    BY <1>3, OlderIrreflexive, OlderTransitive
  <2>2. PICK A, B : A = After(a) /\ B = After(b)
    OBVIOUS
  <2>3. IsFiniteSet(A) /\ IsFiniteSet(B) /\ b \notin B /\ B \cup {b} \subseteq A
    BY <1>2, <2>1, <2>2
  <2>4. Cardinality(B \cup {b}) = Cardinality(B) + 1 /\ Cardinality(B) \in Nat /\ Cardinality(A) \in Nat
    BY <2>3, FS_AddElement, FS_CardinalityType
  <2>5. Cardinality(B \cup {b}) <= Cardinality(A)
    BY <2>3, FS_Subset
  <2>6. Cardinality(B) < Cardinality(A)
    BY <2>4, <2>5
  <2> QED BY <2>2, <2>6 DEF Newer
<1>4. ASSUME NEW i \in 0..Cardinality(rows) - 1 PROVE \E m \in rows : Newer(rows, m) = i
  <2>1. PICK len \in Nat : len = Cardinality(rows)
    BY <1>1
  <2>2. PICK f : f = [m \in rows |-> Newer(rows, m)]
    OBVIOUS
  <2>3. PICK I : I = 0..len - 1
    OBVIOUS
  <2>4. f \in [rows -> I]
    BY <1>2, <2>1, <2>2, <2>3
  <2>5. \A a, b \in rows : f[a] = f[b] => a = b
    <3> SUFFICES ASSUME NEW a \in rows, NEW b \in rows, f[a] = f[b], a # b PROVE FALSE
      OBVIOUS
    <3>1. Newer(rows, a) < Newer(rows, b) \/ Newer(rows, b) < Newer(rows, a)
      BY <1>3, OlderTotal
    <3>2. f[a] \in Nat /\ f[b] \in Nat
      BY <2>3, <2>4
    <3> QED BY <2>2, <3>1, <3>2
  <2>6. f \in Injection(rows, I)
    BY <2>4, <2>5 DEF Injection, IsInjective
  <2>7. IsFiniteSet(I) /\ Cardinality(I) = len
    <3>1. PICK a \in Int, b \in Int : a = 0 /\ b = len - 1
      OBVIOUS
    <3>2. IsFiniteSet(a..b) /\ Cardinality(a..b) = IF a > b THEN 0 ELSE b - a + 1
      BY FS_Interval
    <3> QED BY <2>3, <3>1, <3>2
  <2>8. f \in Surjection(rows, I)
    BY <2>1, <2>6, <2>7, FS_Injection
  <2>9. \E m \in rows : f[m] = i
    BY <2>1, <2>3, <2>8 DEF Surjection
  <2> QED BY <2>2, <2>9
<1> QED BY <1>1, <1>2, <1>3, <1>4

(* A stretch of the log in its order, without gaps.                            *)
Stretch(ms) ==
  /\ ms \in Seq(rows)
  /\ \A i, j \in DOMAIN ms : i < j => Older(ms[i], ms[j])
  /\ \A i, j \in DOMAIN ms : \A m \in rows :
       Older(ms[i], m) /\ Older(m, ms[j]) => \E k \in i + 1..j - 1 : ms[k] = m

(* What get_recent returns has no gap.                                         *)
LEMMA WindowStretch ==
  ASSUME Log, NEW len \in Nat, len <= Cardinality(rows)
  PROVE  Stretch([i \in 1..len |-> CHOOSE m \in rows : Newer(rows, m) = len - i])
<1> DEFINE w == [i \in 1..len |-> CHOOSE m \in rows : Newer(rows, m) = len - i]
<1>0. Cardinality(rows) \in Nat
  BY NewerIs
<1>1. ASSUME NEW i \in 1..len PROVE w[i] \in rows /\ Newer(rows, w[i]) = len - i
  <2>1. len - i \in 0..Cardinality(rows) - 1
    BY <1>0
  <2>2. PICK c : c = len - i
    OBVIOUS
  <2>3. \E m \in rows : Newer(rows, m) = c
    BY <2>1, <2>2, NewerIs
  <2>4. w[i] = CHOOSE m \in rows : Newer(rows, m) = c
    BY <2>2
  <2> HIDE DEF w
  <2> QED BY <2>2, <2>3, <2>4
<1>2. w \in Seq(rows) /\ Len(w) = len /\ DOMAIN w = 1..len
  <2>1. w \in [1..len -> rows]
    BY <1>1
  <2> QED BY <2>1
<1> HIDE DEF w
<1>3. \A m \in rows : Newer(rows, m) \in Nat
  BY <1>0, NewerIs
<1>4. ASSUME NEW i \in 1..len, NEW j \in 1..len, i < j PROVE Older(w[i], w[j])
  <2>1. Newer(rows, w[j]) < Newer(rows, w[i])
    BY <1>1, <1>4
  <2>2. w[i] # w[j] /\ ~Older(w[j], w[i])
    BY <1>1, <1>3, <2>1, NewerIs
  <2> QED BY <1>1, <2>2, OlderTotal
<1>5. ASSUME NEW i \in 1..len, NEW j \in 1..len, NEW m \in rows, Older(w[i], m), Older(m, w[j])
      PROVE  \E k \in i + 1..j - 1 : w[k] = m
  <2>1. PICK a \in Nat : a = Newer(rows, m)
    BY <1>3
  <2>2. a < len - i /\ len - j < a
    BY <1>1, <1>5, <2>1, NewerIs
  <2>3. PICK k \in 1..len : k = len - a
    BY <2>2
  <2>4. k \in i + 1..j - 1 /\ Newer(rows, w[k]) = Newer(rows, m)
    BY <1>1, <2>1, <2>2, <2>3
  <2>5. w[k] = m
    <3> SUFFICES ASSUME w[k] # m PROVE FALSE
      OBVIOUS
    <3>1. Newer(rows, w[k]) < Newer(rows, m) \/ Newer(rows, m) < Newer(rows, w[k])
      BY <1>1, OlderTotal, NewerIs
    <3> QED BY <2>1, <2>4, <3>1
  <2> QED BY <2>4, <2>5
<1>6. Stretch(w)
  <2>1. \A i, j \in DOMAIN w : i < j => Older(w[i], w[j])
    BY <1>2, <1>4
  <2>2. \A i, j \in DOMAIN w : \A m \in rows :
          Older(w[i], m) /\ Older(m, w[j]) => \E k \in i + 1..j - 1 : w[k] = m
    BY <1>2, <1>5
  <2> QED BY <1>2, <2>1, <2>2 DEF Stretch
<1> QED BY <1>6 DEF w

(* A result that follows a call in the log is one of it, or its own is lost.   *)
LEMMA Belongs ==
  ASSUME Log, Dated, Owned, NEW ms, Stretch(ms), NEW h \in DOMAIN ms, NEW i \in DOMAIN ms,
         Chained(ms, h, i)
  PROVE  ms[i].ids \subseteq ms[h].ids \/ Astray(ms[i])
<1>1. DOMAIN ms = 1..Len(ms) /\ Len(ms) \in Nat /\ \A k \in DOMAIN ms : ms[k] \in rows
  BY LenProperties, ElementOfSeq DEF Stretch
<1>2. PICK t \in rows, c \in rows : t = ms[i] /\ c = ms[h]
  BY <1>1
<1>3. c.kind = "call" /\ h < i /\ t.kind = "tool" /\ \A k \in h + 1..i : ms[k].kind = "tool"
  BY <1>1, <1>2 DEF Chained
<1>4. Older(c, t)
  BY <1>2, <1>3 DEF Stretch
<1>5. PICK o \in Nat : Owner(o, t)
  BY <1>3 DEF Owned
<1>6. CASE o \in Lost
  BY <1>2, <1>5, <1>6 DEF Owner, Astray
<1>7. ASSUME NEW d \in rows, d.seq = o, d.kind = "call", t.ids \subseteq d.ids
      PROVE  t.ids \subseteq c.ids
  <2> SUFFICES ASSUME c # d PROVE FALSE
    BY <1>7
  <2>1. /\ c.seq \in Nat /\ d.seq \in Nat /\ t.seq \in Nat
        /\ c.at \in Nat /\ d.at \in Nat /\ t.at \in Nat
        /\ c.seq # d.seq /\ c.seq # t.seq /\ d.seq < t.seq
    BY <1>3, <1>5, <1>7 DEF Log, Stored, Owner
  <2>2. CASE t.seq < c.seq
    <3>1. t.at <= c.at
      BY <1>3, <2>2 DEF Dated
    <3> QED BY <1>4, <2>1, <2>2, <3>1 DEF Older
  <2>3. CASE d.seq < c.seq /\ c.seq < t.seq
    BY <1>3, <1>5, <1>7, <2>3 DEF Owner
  <2>4. CASE c.seq < d.seq
    <3>1. c.at <= d.at /\ d.at <= t.at
      BY <1>3, <1>7, <2>1, <2>4 DEF Dated
    <3>2. Older(c, d) /\ Older(d, t)
      BY <2>1, <2>4, <3>1 DEF Older
    <3>3. PICK k \in h + 1..i - 1 : ms[k] = d
      BY <1>2, <3>2 DEF Stretch
    <3>4. k \in h + 1..i
      BY <1>1
    <3> QED BY <1>3, <1>7, <3>3, <3>4
  <2> QED BY <2>1, <2>2, <2>3, <2>4
<1> QED BY <1>2, <1>5, <1>6, <1>7 DEF Owner

(* A complete group of such a stretch is a call with its results.              *)
LEMMA GroupFair ==
  ASSUME Log, Dated, Owned, NEW ms, Stretch(ms), NEW h \in DOMAIN ms, Complete(Group(ms, h))
  PROVE  Fair(Group(ms, h))
<1>1. ms \in Seq(Stored) /\ DOMAIN ms = 1..Len(ms) /\ Len(ms) \in Nat
  BY SeqMonotonic, LenProperties DEF Stretch, Log
<1>2. PICK e \in h..Len(ms) :
           /\ \A i \in DOMAIN ms : Chained(ms, h, i) <=> i \in h + 1..e
           /\ Group(ms, h) \in Seq(Stored) /\ Len(Group(ms, h)) = e - h + 1
           /\ \A i \in 1..e - h + 1 : Group(ms, h)[i] = ms[h + i - 1]
  BY <1>1, GroupIs
<1>3. PICK g \in Seq(Stored) : g = Group(ms, h)
  BY <1>2
<1>4. PICK len \in Nat \ {0} : len = e - h + 1
  BY <1>1, <1>2
<1>5. DOMAIN g = 1..len /\ Len(g) = len /\ \A i \in 1..len : g[i] = ms[h + i - 1]
  BY <1>2, <1>3, <1>4, LenProperties
<1>6. g[1] = ms[h]
  BY <1>1, <1>5
<1>7. ASSUME NEW i \in 2..len
      PROVE  /\ h + i - 1 \in DOMAIN ms /\ Chained(ms, h, h + i - 1)
             /\ g[i] = ms[h + i - 1] /\ g[i].kind = "tool" /\ g[1].kind = "call"
  <2>1. i \in 1..len /\ h + i - 1 \in h + 1..e /\ h + i - 1 \in DOMAIN ms
    BY <1>1, <1>2, <1>4
  <2>2. Chained(ms, h, h + i - 1)
    BY <1>2, <2>1
  <2> QED BY <1>1, <1>5, <1>6, <2>1, <2>2 DEF Chained
<1>8. ASSUME NEW i \in 2..len PROVE Chained(g, 1, i)
  BY <1>7 DEF Chained
<1>9. Answered(g, 1)
  <2>1. CASE g[1].kind = "call"
    <3>1. g[1].ids \subseteq UNION {g[i].ids : i \in 2..Len(g)}
      BY <1>3, <2>1 DEF Complete
    <3>2. ASSUME NEW id \in g[1].ids
          PROVE  \E j \in DOMAIN g : g[j].kind = "tool" /\ id \in g[j].ids /\ Chained(g, 1, j)
      <4>1. PICK j \in 2..len : id \in g[j].ids
        BY <1>5, <3>1
      <4>2. j \in DOMAIN g /\ g[j].kind = "tool" /\ Chained(g, 1, j)
        BY <1>5, <1>7, <1>8
      <4> QED BY <4>1, <4>2
    <3> QED BY <2>1, <3>2 DEF Answered
  <2>2. CASE g[1].kind # "call"
    BY <1>3, <2>2 DEF Complete, Answered
  <2> QED BY <2>1, <2>2
<1>10. ASSUME NEW i \in 2..len PROVE Answered(g, i)
  <2>1. g[i].ids \subseteq g[1].ids \/ Astray(g[i])
    <3>1. PICK k \in DOMAIN ms : k = h + i - 1
      BY <1>7
    <3>2. Chained(ms, h, k) /\ g[i] = ms[k]
      BY <1>7, <3>1
    <3>3. ms[k].ids \subseteq ms[h].ids \/ Astray(ms[k])
      BY <3>2, Belongs
    <3> QED BY <1>6, <3>2, <3>3
  <2>2. 1 \in DOMAIN g
    BY <1>5
  <2> QED BY <1>7, <1>8, <2>1, <2>2 DEF Answered
<1>11. \A i \in DOMAIN g : Answered(g, i)
  <2>1. \A i \in 1..len : i = 1 \/ i \in 2..len
    OBVIOUS
  <2> QED BY <1>5, <1>9, <1>10, <2>1
<1> QED BY <1>3, <1>11 DEF Fair


(* Strip cuts the running turn from the end.                                   *)
LEMMA PrefixStretch ==
  ASSUME NEW ms, Stretch(ms), NEW k \in 0..Len(ms)
  PROVE  Stretch(SubSeq(ms, 1, k))
<1> DEFINE s == SubSeq(ms, 1, k)
<1>1. ms \in Seq(rows) /\ Len(ms) \in Nat /\ DOMAIN ms = 1..Len(ms) /\ \A i \in 1..Len(ms) : ms[i] \in rows
  BY LenProperties, ElementOfSeq DEF Stretch
<1>2. s \in Seq(rows) /\ Len(s) = k /\ \A i \in 1..k : s[i] = ms[i]
  <2>1. PICK a \in Int, b \in Int : a = 1 /\ b = k
    BY <1>1
  <2>2. /\ SubSeq(ms, a, b) \in Seq(rows) /\ Len(SubSeq(ms, a, b)) = IF a <= b THEN b - a + 1 ELSE 0
        /\ \A i \in 1..b - a + 1 : SubSeq(ms, a, b)[i] = ms[a + i - 1]
    BY <1>1, <2>1, SubSeqProperties
  <2> QED BY <1>1, <2>1, <2>2
<1>3. DOMAIN s = 1..k /\ 1..k \subseteq DOMAIN ms
  BY <1>1, <1>2, LenProperties
<1> HIDE DEF s
<1>4. \A i, j \in DOMAIN s : i < j => Older(s[i], s[j])
  BY <1>2, <1>3 DEF Stretch
<1>5. \A i, j \in DOMAIN s : \A m \in rows :
        Older(s[i], m) /\ Older(m, s[j]) => \E l \in i + 1..j - 1 : s[l] = m
  <2> SUFFICES ASSUME NEW i \in 1..k, NEW j \in 1..k, NEW m \in rows, Older(s[i], m), Older(m, s[j])
               PROVE  \E l \in i + 1..j - 1 : s[l] = m
    BY <1>3
  <2>1. i \in DOMAIN ms /\ j \in DOMAIN ms /\ Older(ms[i], m) /\ Older(m, ms[j])
    BY <1>2, <1>3
  <2>2. \E l \in i + 1..j - 1 : ms[l] = m
    BY <2>1 DEF Stretch
  <2>3. PICK l \in i + 1..j - 1 : ms[l] = m
    BY <2>2
  <2>4. l \in 1..k
    BY <2>3
  <2> QED BY <1>2, <2>3, <2>4
<1>6. Stretch(s)
  BY <1>2, <1>4, <1>5 DEF Stretch
<1> QED BY <1>6 DEF s

(* What assemble_messages recalls of the log for a prompt.                     *)
LEMMA PriorIs ==
  ASSUME Log, NEW p, tx[p].pending = {}, NEW turn \in Seq(Stored)
  PROVE  Stretch(Strip(Recent(p), turn)) /\ Strip(Recent(p), turn) \in Seq(Stored)
<1>1. PICK len \in Nat : /\ len = IF Cardinality(rows) < Limit THEN Cardinality(rows) ELSE Limit
                         /\ len <= Cardinality(rows)
  BY NewerIs, ConversationAssumption
<1>2. rows \cup tx[p].pending = rows
  OBVIOUS
<1>3. Recent(p) = [i \in 1..len |-> CHOOSE m \in rows : Newer(rows, m) = len - i]
  BY <1>1, <1>2 DEF Recent
<1>4. PICK w : w = Recent(p) /\ Stretch(w)
  BY <1>1, <1>3, WindowStretch
<1>5. Len(turn) \in Nat /\ Len(w) \in Nat
  BY <1>4, LenProperties DEF Stretch
<1>6. PICK ms : ms = Strip(w, turn) /\ Stretch(ms)
  <2>1. CASE Len(turn) = 0 \/ Len(w) < Len(turn)
    BY <1>4, <2>1 DEF Strip
  <2>2. CASE ~(Len(turn) = 0 \/ Len(w) < Len(turn))
    <3>1. PICK k \in 0..Len(w) : k = Len(w) - Len(turn)
      BY <1>5, <2>2
    <3> QED BY <1>4, <2>2, <3>1, PrefixStretch DEF Strip
  <2> QED BY <2>1, <2>2
<1>7. ms \in Seq(Stored)
  BY <1>6, SeqMonotonic DEF Stretch, Log
<1> QED BY <1>4, <1>6, <1>7

(* What is sent of it holds whole chains only.                                 *)
LEMMA HistoryFair ==
  ASSUME Log, Dated, Owned, NEW p, tx[p].pending = {}, NEW turn \in Seq(Stored)
  PROVE  Fair(Trim(Strip(Recent(p), turn)))
<1>1. PICK ms : ms = Strip(Recent(p), turn) /\ Stretch(ms) /\ ms \in Seq(Stored)
  BY PriorIs
<1>2. Fair(<<>>)
  BY EmptySeq DEF Fair
<1>3. \A h \in Heads(ms) : Complete(Group(ms, h)) => Fair(Group(ms, h))
  BY <1>1, GroupFair DEF Heads
<1> QED BY <1>1, <1>2, <1>3, TrimFair

(* A whole turn has nothing astray.                                            *)
LEMMA WholeFair ==
  ASSUME NEW ms, Whole(ms)
  PROVE  Fair(ms)
<1>1. ms \in Seq(Stored) /\ \A i \in DOMAIN ms : OwnAnswers(ms, i)
  BY DEF Whole
<1>2. ASSUME NEW i \in DOMAIN ms PROVE Answered(ms, i)
  BY <1>1 DEF OwnAnswers, Answered
<1> QED BY <1>1, <1>2 DEF Fair

(* A message more at the end breaks no chain.                                  *)
LEMMA AppendOwn ==
  ASSUME NEW ms \in Seq(Stored), NEW m \in Stored
  PROVE  LET c == Append(ms, m)
         IN  /\ c \in Seq(Stored) /\ Len(c) = Len(ms) + 1 /\ c[Len(ms) + 1] = m
             /\ DOMAIN c = DOMAIN ms \cup {Len(ms) + 1} /\ DOMAIN ms = 1..Len(ms) /\ Len(ms) \in Nat
             /\ \A i \in DOMAIN ms : c[i] = ms[i]
             /\ \A h, i \in DOMAIN ms : Chained(c, h, i) <=> Chained(ms, h, i)
             /\ \A i \in DOMAIN ms : OwnAnswers(ms, i) => OwnAnswers(c, i)
<1> DEFINE c == Append(ms, m)
<1>1. /\ c \in Seq(Stored) /\ Len(c) = Len(ms) + 1 /\ c[Len(ms) + 1] = m
      /\ \A i \in 1..Len(ms) : c[i] = ms[i]
  BY AppendProperties
<1>2. Len(ms) \in Nat /\ DOMAIN ms = 1..Len(ms) /\ DOMAIN c = 1..Len(ms) + 1
  BY <1>1, LenProperties
<1>3. DOMAIN c = DOMAIN ms \cup {Len(ms) + 1}
  BY <1>2
<1> HIDE DEF c
<1>4. \A h, i \in DOMAIN ms : Chained(c, h, i) <=> Chained(ms, h, i)
  BY <1>1, <1>2 DEF Chained
<1>5. ASSUME NEW i \in DOMAIN ms, OwnAnswers(ms, i) PROVE OwnAnswers(c, i)
  <2>1. ASSUME c[i].kind = "call", NEW id \in c[i].ids
        PROVE  \E j \in DOMAIN c : c[j].kind = "tool" /\ id \in c[j].ids /\ Chained(c, i, j)
    <3>1. PICK j \in DOMAIN ms : ms[j].kind = "tool" /\ id \in ms[j].ids /\ Chained(ms, i, j)
      BY <1>1, <1>2, <1>5, <2>1 DEF OwnAnswers
    <3> QED BY <1>1, <1>2, <1>3, <1>4, <3>1
  <2>2. ASSUME c[i].kind = "tool"
        PROVE  \E h \in DOMAIN c : Chained(c, h, i) /\ c[i].ids \subseteq c[h].ids
    <3>1. PICK h \in DOMAIN ms : Chained(ms, h, i) /\ ms[i].ids \subseteq ms[h].ids
      BY <1>1, <1>2, <1>5, <2>2 DEF OwnAnswers
    <3> QED BY <1>1, <1>2, <1>3, <1>4, <3>1
  <2> QED BY <2>1, <2>2 DEF OwnAnswers
<1> QED BY <1>1, <1>2, <1>3, <1>4, <1>5 DEF c

(* A message without calls leaves a whole turn whole.                          *)
LEMMA AppendWhole ==
  ASSUME NEW ms, Whole(ms), NEW m \in Stored, m.kind # "tool", m.kind = "call" => m.ids = {}
  PROVE  Whole(Append(ms, m))
<1>1. ms \in Seq(Stored) /\ \A i \in DOMAIN ms : OwnAnswers(ms, i)
  BY DEF Whole
<1>2. PICK c : c = Append(ms, m)
  OBVIOUS
<1>3. /\ c \in Seq(Stored) /\ c[Len(ms) + 1] = m /\ DOMAIN c = DOMAIN ms \cup {Len(ms) + 1}
      /\ \A i \in DOMAIN ms : OwnAnswers(c, i)
  BY <1>1, <1>2, AppendOwn
<1>4. OwnAnswers(c, Len(ms) + 1)
  BY <1>3 DEF OwnAnswers
<1> QED BY <1>2, <1>3, <1>4 DEF Whole

(* A call begins a chain that lacks all of its results.                        *)
LEMMA ChainStarts ==
  ASSUME NEW turn, Whole(turn), NEW m \in Stored, NEW len \in Nat, m.kind = "call",
         m.ids = {m.seq + j : j \in 1..len}
  PROVE  LET next == Append(turn, m)
         IN  next \in Seq(Stored) /\ Lacks(next, Len(turn) + 1, len)
<1>1. turn \in Seq(Stored) /\ \A i \in DOMAIN turn : OwnAnswers(turn, i)
  BY DEF Whole
<1>2. PICK c : c = Append(turn, m)
  OBVIOUS
<1>3. PICK h : h = Len(turn) + 1
  OBVIOUS
<1>4. /\ c \in Seq(Stored) /\ c[h] = m /\ DOMAIN c = DOMAIN turn \cup {h} /\ Len(c) = h /\ h \in Nat
      /\ \A i \in DOMAIN turn : OwnAnswers(c, i)
  BY <1>1, <1>2, <1>3, AppendOwn
<1>5. 1..Len(c) - h = {} /\ Len(c) - h + len = len
  BY <1>4
<1>6. Lacks(c, h, len)
  BY <1>4, <1>5 DEF Lacks
<1> QED BY <1>2, <1>3, <1>4, <1>6

(* m is the next result of the open chain at h.                                *)
Grows(turn, h, len, m) ==
  /\ turn \in Seq(Stored) /\ h \in DOMAIN turn /\ len \in Nat /\ Lacks(turn, h, len + 1)
  /\ m \in Stored /\ m.kind = "tool" /\ m.ids = {m.seq} /\ m.seq = turn[h].seq + (Len(turn) - h) + 1
Grown(next, turn, h, len) ==
  /\ next \in Seq(Stored) /\ h \in DOMAIN next /\ next[h] = turn[h] /\ Len(next) = Len(turn) + 1
  /\ Lacks(next, h, len)

(* A result is one the chain no longer lacks.                                  *)
LEMMA ChainGrows ==
  ASSUME NEW turn, NEW h, NEW len, NEW m, Grows(turn, h, len, m)
  PROVE  Grown(Append(turn, m), turn, h, len)
<1> SUFFICES ASSUME turn \in Seq(Stored), h \in DOMAIN turn, len \in Nat, Lacks(turn, h, len + 1), m \in Stored,
                    m.kind = "tool", m.ids = {m.seq}, m.seq = turn[h].seq + (Len(turn) - h) + 1
             PROVE  Grown(Append(turn, m), turn, h, len)
  BY DEF Grows
<1>1. PICK c : c = Append(turn, m)
  OBVIOUS
<1>2. PICK k : k = Len(turn) + 1
  OBVIOUS
<1>3. /\ c \in Seq(Stored) /\ c[k] = m /\ DOMAIN c = DOMAIN turn \cup {k} /\ Len(c) = k
      /\ DOMAIN turn = 1..Len(turn) /\ Len(turn) \in Nat
      /\ \A i \in DOMAIN turn : c[i] = turn[i]
      /\ \A i, j \in DOMAIN turn : Chained(c, i, j) <=> Chained(turn, i, j)
      /\ \A i \in DOMAIN turn : OwnAnswers(turn, i) => OwnAnswers(c, i)
  BY <1>1, <1>2, AppendOwn
<1>4. turn[h] \in Stored /\ turn[h].seq \in Nat
  <2>1. h \in 1..Len(turn)
    BY <1>3
  <2>2. turn[h] \in Stored
    BY <2>1, ElementOfSeq
  <2> QED BY <2>2 DEF Stored
<1>5. PICK l \in Nat : l = Len(turn) - h
  BY <1>3
<1>6. k - h = l + 1 /\ h + (l + 1) = k /\ m.seq = turn[h].seq + (l + 1)
  BY <1>2, <1>3, <1>4, <1>5
<1>7. \A j \in 1..l + 1 : c[h + j].kind = "tool" /\ c[h + j].ids = {c[h].seq + j}
  <2> SUFFICES ASSUME NEW j \in 1..l + 1 PROVE c[h + j].kind = "tool" /\ c[h + j].ids = {c[h].seq + j}
    OBVIOUS
  <2>1. CASE j \in 1..l
    <3>1. h + j \in DOMAIN turn
      BY <1>3, <1>5, <2>1
    <3>2. turn[h + j].kind = "tool" /\ turn[h + j].ids = {turn[h].seq + j}
      BY <1>5, <2>1 DEF Lacks
    <3> QED BY <1>3, <3>1, <3>2
  <2>2. CASE j = l + 1
    BY <1>3, <1>6, <2>2
  <2> QED BY <2>1, <2>2
<1>8. c[h].ids = {c[h].seq + j : j \in 1..(k - h) + len}
  <2>1. l + (len + 1) = (k - h) + len
    BY <1>6, <1>5
  <2>2. turn[h].ids = {turn[h].seq + j : j \in 1..l + (len + 1)} /\ c[h] = turn[h]
    BY <1>3, <1>5 DEF Lacks
  <2> QED BY <2>1, <2>2
<1>9. OwnAnswers(c, k)
  <2>1. Chained(c, h, k)
    <3>1. h < k
      BY <1>5, <1>6
    <3>2. ASSUME NEW i \in h + 1..k PROVE c[i].kind = "tool"
      <4>0. h \in Nat /\ i \in h + 1..h + (l + 1)
        BY <1>3, <1>6
      <4>1. PICK j \in 1..l + 1 : j = i - h
        BY <4>0
      <4>2. h + j = i
        BY <1>3, <4>1
      <4> QED BY <1>7, <4>2
    <3> QED BY <1>3, <3>1, <3>2 DEF Lacks, Chained
  <2>2. m.seq \in c[h].ids
    <3>1. l + 1 \in 1..(k - h) + len
      BY <1>5, <1>6
    <3> QED BY <1>3, <1>6, <1>8, <3>1
  <2> QED BY <1>3, <2>1, <2>2 DEF OwnAnswers
<1>10. Lacks(c, h, len)
  <2>1. \A i \in DOMAIN c : i # h => OwnAnswers(c, i)
    BY <1>3, <1>9 DEF Lacks
  <2>2. Len(c) - h = l + 1 /\ (Len(c) - h) + len = (k - h) + len
    BY <1>3, <1>6
  <2>3. c[h].kind = "call"
    BY <1>3 DEF Lacks
  <2> QED BY <1>7, <1>8, <2>1, <2>2, <2>3 DEF Lacks
<1> QED BY <1>1, <1>2, <1>3, <1>10 DEF Grown

(* A chain that lacks nothing makes the turn whole.                            *)
LEMMA ChainCloses ==
  ASSUME NEW turn \in Seq(Stored), NEW h \in DOMAIN turn, Lacks(turn, h, 0)
  PROVE  Whole(turn)
<1>1. DOMAIN turn = 1..Len(turn) /\ Len(turn) \in Nat /\ turn[h].seq \in Nat
  <2>1. DOMAIN turn = 1..Len(turn) /\ Len(turn) \in Nat
    BY LenProperties
  <2>2. turn[h] \in Stored
    BY <2>1, ElementOfSeq
  <2> QED BY <2>1, <2>2 DEF Stored
<1>2. PICK l \in Nat : l = Len(turn) - h
  BY <1>1
<1>3. \A j \in 1..l : /\ h + j \in DOMAIN turn /\ turn[h + j].kind = "tool"
                      /\ turn[h + j].ids = {turn[h].seq + j}
  BY <1>1, <1>2 DEF Lacks
<1>4. ASSUME NEW j \in 1..l PROVE Chained(turn, h, h + j)
  <2>1. ASSUME NEW i \in h + 1..h + j PROVE turn[i].kind = "tool"
    <3>1. PICK k \in 1..l : k = i - h
      BY <1>1, <1>2
    <3>2. h + k = i
      BY <1>1, <3>1
    <3> QED BY <1>3, <3>2
  <2> QED BY <1>1, <2>1 DEF Chained, Lacks
<1>5. OwnAnswers(turn, h)
  <2>1. ASSUME NEW id \in turn[h].ids
        PROVE  \E i \in DOMAIN turn : turn[i].kind = "tool" /\ id \in turn[i].ids /\ Chained(turn, h, i)
    <3>1. turn[h].ids = {turn[h].seq + j : j \in 1..l}
      <4>1. l + 0 = l
        OBVIOUS
      <4> QED BY <1>2, <4>1 DEF Lacks
    <3>2. PICK j \in 1..l : id = turn[h].seq + j
      BY <2>1, <3>1
    <3> QED BY <1>3, <1>4, <3>2
  <2> QED BY <2>1 DEF OwnAnswers, Lacks
<1> QED BY <1>5 DEF Whole, Lacks

(* The message to be added next, with its number: what is known of it.         *)
Ready(m) ==
  /\ m \in Stored /\ m.kind = Head(run.todo).kind
  /\ \/ m.kind \in {"user", "say"} /\ Len(run.todo) = 1 /\ Whole(run.turn)
     \/ /\ m.kind = "call" /\ run.next = "assemble" /\ Whole(run.turn)
        /\ \A i \in 2..Len(run.todo) : run.todo[i].kind = "tool"
        /\ m.ids = {m.seq + j : j \in 1..Len(run.todo) - 1}
     \/ /\ m.kind = "tool" /\ run.next = "assemble" /\ m.ids = {m.seq}
        /\ \A i \in DOMAIN run.todo : run.todo[i].kind = "tool"
        /\ \E h \in DOMAIN run.turn : OpenChain(h) /\ m.seq = Reached(h) + 1

LEMMA TurnNumbers ==
  ASSUME run.turn \in Seq(Stored), NEW h \in DOMAIN run.turn
  PROVE  /\ DOMAIN run.turn = 1..Len(run.turn) /\ Len(run.turn) \in Nat /\ h \in Nat
         /\ run.turn[h] \in Stored /\ run.turn[h].seq \in Nat /\ Len(run.turn) - h \in Nat
<1>1. DOMAIN run.turn = 1..Len(run.turn) /\ Len(run.turn) \in Nat
  BY LenProperties
<1>2. h \in 1..Len(run.turn)
  BY <1>1
<1>3. run.turn[h] \in Stored
  BY <1>2, ElementOfSeq
<1>4. run.turn[h].seq \in Nat
  BY <1>3 DEF Stored
<1>5. \A len \in Nat : h \in 1..len => h \in Nat /\ len - h \in Nat
  OBVIOUS
<1>6. h \in Nat /\ Len(run.turn) - h \in Nat
  BY <1>1, <1>2, <1>5
<1> QED BY <1>1, <1>3, <1>4, <1>6

(* A result that is to be added has its call, or the call was lost.            *)
LEMMA ReadyOwned ==
  ASSUME Log, NEW m, Ready(m), m.kind = "tool", run.turn \in Seq(Stored), Len(run.todo) \in Nat \ {0}
  PROVE  \E o \in Nat : Owner(o, m)
<1>1. PICK h \in DOMAIN run.turn : OpenChain(h) /\ m.seq = Reached(h) + 1
  BY DEF Ready
<1>2. PICK c \in Stored, l \in Nat : c = run.turn[h] /\ l = Len(run.turn) - h /\ c.seq \in Nat
  BY TurnNumbers
<1>3. m.ids = {m.seq} /\ m.seq = c.seq + l + 1
  BY <1>1, <1>2 DEF Ready, Reached
<1>4. /\ c.kind = "call" /\ c.seq \in acked /\ c.ids = {c.seq + j : j \in 1..l + Len(run.todo)}
      /\ \A r \in rows : (r.seq = c.seq => r = c) /\ (r.seq > c.seq => r.kind = "tool")
  BY <1>1, <1>2 DEF OpenChain, Lacks
<1>5. c.seq < m.seq
  BY <1>2, <1>3
<1>6. m.ids \subseteq c.ids
  <2>1. PICK k \in Nat \ {0} : k = Len(run.todo)
    OBVIOUS
  <2>2. l + 1 \in 1..l + k /\ c.seq + (l + 1) = m.seq
    <3>1. \A a, x \in Nat, y \in Nat \ {0} : x + 1 \in 1..x + y /\ a + (x + 1) = a + x + 1
      OBVIOUS
    <3>2. c.seq \in Nat /\ l \in Nat /\ k \in Nat \ {0}
      BY <1>2, <2>1
    <3>3. l + 1 \in 1..l + k /\ c.seq + (l + 1) = c.seq + l + 1
      BY <3>1, <3>2
    <3> QED BY <1>3, <3>3
  <2>3. c.ids = {c.seq + j : j \in 1..l + k}
    BY <1>4, <2>1
  <2>4. c.seq + (l + 1) \in {c.seq + j : j \in 1..l + k}
    BY <2>2, Zenon
  <2>5. m.seq \in c.ids
    BY <2>2, <2>3, <2>4
  <2> QED BY <1>3, <2>5
<1>7. \A r \in rows : c.seq < r.seq /\ r.seq < m.seq => r.kind = "tool"
  BY <1>4 DEF Log, Stored
<1>8. c.seq \in Lost \/ \E d \in rows : d.seq = c.seq /\ d.kind = "call" /\ m.ids \subseteq d.ids
  BY <1>4, <1>6 DEF Lost
<1> QED BY <1>2, <1>5, <1>7, <1>8 DEF Owner

(* A row joins the log, the newest by its number.                              *)
LEMMA RowJoins ==
  ASSUME Log, Dated, Owned, NEW m, m \in Stored, m.seq \in 1..seq', seq \in Nat, seq' \in Nat, seq' >= seq,
         UNCHANGED clock, clock \in Nat, m.at <= clock,
         \A r \in rows : r.seq <= m.seq /\ (r.seq = m.seq => r = m),
         m.kind # "user" => \A r \in rows : r.at <= m.at,
         m.kind = "tool" => \E o \in Nat : Owner(o, m),
         rows' = rows \/ rows' = rows \cup {m},
         m.seq \notin acked, acked \subseteq acked', acked' \subseteq acked \cup {m.seq}
  PROVE  Log' /\ Dated' /\ Owned'
<1>1. rows \subseteq rows' /\ rows' \subseteq rows \cup {m}
  OBVIOUS
<1>2. \A r \in rows : r \in Stored /\ r.seq \in Nat /\ r.at \in Nat /\ r.seq \in 1..seq /\ r.at <= clock
  BY DEF Log, Stored
<1>3. m.seq \in Nat /\ m.at \in Nat
  BY DEF Stored
<1>4. Log'
  <2>1. IsFiniteSet(rows')
    <3>1. IsFiniteSet(rows \cup {m})
      BY FS_AddElement DEF Log
    <3> QED BY <1>1, <3>1, FS_Subset
  <2>2. acked' \subseteq 1..seq'
    <3>1. \A i \in 1..seq : i \in 1..seq'
      OBVIOUS
    <3> QED BY <3>1 DEF Log
  <2>3. \A r \in rows' : r \in Stored /\ r.seq \in 1..seq' /\ r.at <= clock'
    BY <1>1, <1>2
  <2>4. \A r, s \in rows' : r.seq = s.seq => r = s
    BY <1>1 DEF Log
  <2> QED BY <2>1, <2>2, <2>3, <2>4 DEF Log
<1>5. Dated'
  <2> SUFFICES ASSUME NEW a \in rows', NEW b \in rows', b.kind # "user", a.seq < b.seq PROVE a.at <= b.at
    BY DEF Dated
  <2>1. CASE a \in rows /\ b \in rows
    BY <2>1 DEF Dated
  <2>2. CASE b = m
    <3>1. a = m \/ a \in rows
      BY <1>1
    <3> QED BY <1>3, <2>2, <3>1
  <2>3. CASE a = m /\ b \in rows
    BY <1>2, <1>3, <2>3
  <2> QED BY <1>1, <2>1, <2>2, <2>3
<1>6. Lost \subseteq Lost'
  <2> SUFFICES ASSUME NEW s \in Lost PROVE s \in Lost'
    OBVIOUS
  <2>1. s \in acked' /\ s # m.seq /\ \A r \in rows : s # r.seq
    BY DEF Lost
  <2> QED BY <1>1, <2>1 DEF Lost
<1>7. ASSUME NEW t \in rows \cup {m}, NEW o \in Nat, Owner(o, t) PROVE Owner(o, t)'
  <2>1. o < t.seq /\ \A r \in rows : o < r.seq /\ r.seq < t.seq => r.kind = "tool"
    BY <1>7 DEF Owner
  <2>2. o \in Lost' \/ \E c \in rows' : c.seq = o /\ c.kind = "call" /\ t.ids \subseteq c.ids
    BY <1>1, <1>6, <1>7 DEF Owner
  <2>3. ~(m.seq < t.seq)
    BY <1>2, <1>3
  <2>4. \A r \in rows' : o < r.seq /\ r.seq < t.seq => r.kind = "tool"
    BY <1>1, <2>1, <2>3
  <2> QED BY <2>1, <2>2, <2>4 DEF Owner
<1>8. Owned'
  <2> SUFFICES ASSUME NEW t \in rows', t.kind = "tool" PROVE \E o \in Nat : Owner(o, t)'
    BY DEF Owned
  <2>1. \E o \in Nat : Owner(o, t)
    BY <1>1 DEF Owned
  <2> QED BY <1>1, <1>7, <2>1
<1> QED BY <1>4, <1>5, <1>8

(* The turn goes on, with the message.                                         *)
LEMMA PlanGoesOn ==
  ASSUME KeptInv, Log, Adding, run.turn \in Seq(Stored), NEW m, Ready(m), Added(m), seq' = m.seq,
         \A r \in rows : r.seq <= m.seq /\ (r.seq = m.seq => r = m), rows' \subseteq rows \cup {m},
         snap # None => Whole(snap)
  PROVE  /\ Plan' /\ (snap' # None => Whole(snap'))
         /\ run' # None => run'.step \in {"add", "assemble"} /\ run'.p = run.p
         /\ run' # None /\ run'.step = "add" => Head(run'.todo).kind = "tool"
<1>1. Running /\ run # None /\ run.todo # <<>>
  BY DEF Adding, KeptInv, ConversationType, Running
<1>2. PICK S : S = Plain \cup Stored
  OBVIOUS
<1>3. PICK todo \in Seq(S) : todo = run.todo
  BY <1>1, <1>2 DEF Running
<1>4. PICK len \in Nat : Len(todo) = len + 1
  <2>1. Len(todo) \in Nat \ {0}
    BY <1>1, <1>3, EmptySeq
  <2> QED BY <2>1
<1>5. PICK rest \in Seq(S) : rest = Tail(todo) /\ Len(rest) = len /\ \A i \in 1..len : rest[i] = todo[i + 1]
  <2>1. todo # <<>>
    BY <1>1, <1>3
  <2>2. Tail(todo) \in Seq(S) /\ Len(Tail(todo)) = Len(todo) - 1
    BY <2>1, HeadTailProperties
  <2>3. Len(Tail(todo)) = len
    BY <1>4, <2>2
  <2>4. \A i \in 1..Len(Tail(todo)) : Tail(todo)[i] = todo[i + 1]
    BY <2>1, HeadTailProperties
  <2> QED BY <2>2, <2>3, <2>4
<1>6. m \in Stored /\ m.seq \in Nat
  BY DEF Ready, Stored
<1>7. PICK turn \in Seq(Stored) : turn = run.turn
  OBVIOUS
<1>8. PICK turn1 : turn1 = Append(turn, m)
  OBVIOUS
<1>9. PICK step : step = IF len = 0 THEN run.next ELSE "add"
  OBVIOUS
<1>10. len = 0 <=> Len(run.todo) = 1
  BY <1>3, <1>4
<1>11. run' # None => /\ run' = [p |-> run.p, step |-> step, turn |-> turn1, todo |-> rest, next |-> run.next]
                      /\ (len = 0 => run.next = "assemble")
  BY <1>1, <1>3, <1>5, <1>7, <1>8, <1>9, <1>10 DEF Added, Running
<1>12. /\ acked' = acked \cup {m.seq}
       /\ snap' = snap \/ (snap' = turn /\ len = 0 /\ run.next = "suspend")
  BY <1>7, <1>10 DEF Added
<1>13. Whole(turn) \/ run.next = "assemble"
  BY <1>7 DEF Ready
<1>14. snap' # None => Whole(snap')
  BY <1>12, <1>13
<1>15. ASSUME run' # None PROVE Plan' /\ (step = "add" => Head(rest).kind = "tool")
  <2>1. /\ run'.p = run.p /\ run'.step = step /\ run'.turn = turn1 /\ run'.todo = rest /\ run'.next = run.next
        /\ step = IF len = 0 THEN "assemble" ELSE "add"
    BY <1>9, <1>11, <1>15
  <2>2. Whole(turn1) /\ len = 0 => Plan'
    <3> SUFFICES ASSUME Whole(turn1), len = 0 PROVE Plan'
      OBVIOUS
    <3>1. ~Adding' /\ turn1 \in Seq(Stored)
      BY <2>1 DEF Adding, Whole
    <3> QED BY <2>1, <3>1 DEF Plan
  <2>3. len # 0 => Adding' /\ Head(rest) = rest[1]
    BY <1>5, <1>15, <2>1 DEF Adding
  <2>4. ASSUME NEW h \in DOMAIN turn1, Lacks(turn1, h, len), turn1 \in Seq(Stored), len # 0,
               turn1[h].seq \in acked', m.seq = turn1[h].seq + (Len(turn1) - h), run.next = "assemble",
               \A i \in 1..len : rest[i].kind = "tool",
               \A r \in rows' : (r.seq = turn1[h].seq => r = turn1[h]) /\ (r.seq > turn1[h].seq => r.kind = "tool")
        PROVE  Plan'
    <3>1. OpenChain(h)' /\ Reached(h)' = m.seq
      BY <1>5, <2>1, <2>4 DEF OpenChain, Reached
    <3>2. seq' = Reached(h)' + (IF run'.step = "add" THEN 0 ELSE 1)
      BY <1>6, <2>1, <2>4, <3>1
    <3>3. DOMAIN rest = 1..len /\ 1 \in 1..len
      BY <1>4, <1>5, <2>4, LenProperties
    <3>4. Head(rest).kind = "tool"
      BY <2>3, <2>4, <3>3
    <3>5. run'.step = "add"
      BY <2>1, <2>4
    <3> QED BY <2>1, <2>3, <2>4, <3>1, <3>2, <3>3, <3>4, <3>5 DEF Plan
  <2>5. CASE m.kind \in {"user", "say"} /\ Len(run.todo) = 1 /\ Whole(run.turn)
    BY <1>6, <1>7, <1>8, <1>10, <2>1, <2>2, <2>5, AppendWhole
  <2>6. CASE /\ m.kind = "call" /\ run.next = "assemble" /\ Whole(run.turn)
             /\ \A i \in 2..Len(run.todo) : run.todo[i].kind = "tool"
             /\ m.ids = {m.seq + j : j \in 1..Len(run.todo) - 1}
    <3>1. m.ids = {m.seq + j : j \in 1..len}
      <4>1. Len(run.todo) - 1 = len
        BY <1>3, <1>4
      <4> QED BY <2>6, <4>1
    <3>2. CASE len = 0
      <4>1. m.ids = {}
        BY <3>1, <3>2
      <4>2. Whole(turn1)
        BY <1>6, <1>7, <1>8, <2>6, <4>1, AppendWhole
      <4> QED BY <2>1, <2>2, <3>2, <4>2
    <3>3. CASE len # 0
      <4>1. PICK h : h = Len(turn) + 1
        OBVIOUS
      <4>2. turn1 \in Seq(Stored) /\ Lacks(turn1, h, len)
        BY <1>4, <1>6, <1>7, <1>8, <2>6, <3>1, <4>1, ChainStarts
      <4>3. turn1[h] = m /\ h \in DOMAIN turn1 /\ Len(turn1) = h /\ h \in Nat
        BY <1>6, <1>8, <4>1, AppendOwn
      <4>4. \A i \in 1..len : rest[i].kind = "tool"
        <5> SUFFICES ASSUME NEW i \in 1..len PROVE rest[i].kind = "tool"
          OBVIOUS
        <5>1. i + 1 \in 2..Len(run.todo)
          BY <1>3, <1>4
        <5> QED BY <1>3, <1>5, <2>6, <5>1
      <4>5. \A r \in rows' : (r.seq = m.seq => r = m) /\ (r.seq > m.seq => r.kind = "tool")
        <5>1. \A r \in rows : r.seq \in Nat
          BY DEF Log, Stored
        <5> QED BY <1>6, <5>1
      <4>6. m.seq = turn1[h].seq + (Len(turn1) - h) /\ turn1[h].seq \in acked'
        BY <1>6, <1>12, <4>3
      <4>7. Plan'
        BY <2>4, <2>6, <3>3, <4>2, <4>3, <4>4, <4>5, <4>6
      <4>8. 1 \in 1..len
        BY <1>4, <3>3
      <4> QED BY <2>3, <3>3, <4>4, <4>7, <4>8
    <3> QED BY <3>2, <3>3
  <2>7. CASE /\ m.kind = "tool" /\ run.next = "assemble" /\ m.ids = {m.seq}
             /\ \A i \in DOMAIN run.todo : run.todo[i].kind = "tool"
             /\ \E h \in DOMAIN run.turn : OpenChain(h) /\ m.seq = Reached(h) + 1
    <3>1. PICK h \in DOMAIN turn : OpenChain(h) /\ m.seq = Reached(h) + 1
      BY <1>7, <2>7
    <3>2. /\ Lacks(turn, h, len + 1) /\ turn[h].seq \in acked
          /\ m.seq = turn[h].seq + (Len(turn) - h) + 1
          /\ \A r \in rows : (r.seq = turn[h].seq => r = turn[h]) /\ (r.seq > turn[h].seq => r.kind = "tool")
      <4>1. Len(run.todo) = len + 1
        BY <1>3, <1>4
      <4>2. /\ Lacks(run.turn, h, Len(run.todo)) /\ run.turn[h].seq \in acked
            /\ \A r \in rows : /\ r.seq = run.turn[h].seq => r = run.turn[h]
                               /\ r.seq > run.turn[h].seq => r.kind = "tool"
        BY <3>1 DEF OpenChain
      <4>3. m.seq = turn[h].seq + (Len(turn) - h) + 1
        <5>1. m.seq = Reached(h) + 1
          BY <3>1
        <5>2. Reached(h) = turn[h].seq + (Len(turn) - h)
          BY <1>7, Zenon DEF Reached
        <5> QED BY <5>1, <5>2
      <4>4. Lacks(turn, h, len + 1)
        BY <1>7, <4>1, <4>2, Zenon
      <4>5. /\ turn[h].seq \in acked
            /\ \A r \in rows : (r.seq = turn[h].seq => r = turn[h]) /\ (r.seq > turn[h].seq => r.kind = "tool")
        BY <1>7, <4>2, Zenon
      <4> QED BY <4>3, <4>4, <4>5
    <3>3. /\ turn1 \in Seq(Stored) /\ h \in DOMAIN turn1 /\ turn1[h] = turn[h] /\ Len(turn1) = Len(turn) + 1
          /\ Lacks(turn1, h, len)
      <4>1. Grows(turn, h, len, m)
        BY <1>4, <1>6, <1>7, <2>7, <3>1, <3>2 DEF Grows
      <4> QED BY <1>8, <4>1, ChainGrows DEF Grown
    <3>4. CASE len = 0
      BY <2>1, <2>2, <3>3, <3>4, ChainCloses
    <3>5. CASE len # 0
      <4>1. turn[h].seq \in Nat /\ Len(turn) - h \in Nat /\ Len(turn) \in Nat /\ h \in Nat
        BY <1>7, TurnNumbers
      <4>2. m.seq = turn1[h].seq + (Len(turn1) - h) /\ m.seq > turn[h].seq
        <5>1. \A a, g, k \in Nat : k - g \in Nat =>
                a + (k - g) + 1 = a + ((k + 1) - g) /\ a + (k - g) + 1 > a
          OBVIOUS
        <5>2. /\ turn[h].seq + (Len(turn) - h) + 1 = turn[h].seq + ((Len(turn) + 1) - h)
              /\ turn[h].seq + (Len(turn) - h) + 1 > turn[h].seq
          BY <4>1, <5>1
        <5> QED BY <3>2, <3>3, <5>2
      <4>3. \A i \in 1..len : rest[i].kind = "tool"
        <5> SUFFICES ASSUME NEW i \in 1..len PROVE rest[i].kind = "tool"
          OBVIOUS
        <5>1. i + 1 \in DOMAIN run.todo
          BY <1>3, <1>4, LenProperties
        <5> QED BY <1>3, <1>5, <2>7, <5>1
      <4>4. \A r \in rows' : /\ r.seq = turn1[h].seq => r = turn1[h]
                             /\ r.seq > turn1[h].seq => r.kind = "tool"
        <5>1. m.seq # turn[h].seq
          BY <1>6, <4>1, <4>2
        <5> QED BY <2>7, <3>2, <3>3, <5>1
      <4>5. turn1[h].seq \in acked'
        BY <1>12, <3>2, <3>3
      <4>6. Plan'
        BY <2>4, <2>7, <3>3, <3>5, <4>2, <4>3, <4>4, <4>5
      <4>7. 1 \in 1..len
        BY <1>4, <3>5
      <4> QED BY <2>3, <3>5, <4>3, <4>6, <4>7
    <3> QED BY <3>4, <3>5
  <2> QED BY <2>5, <2>6, <2>7 DEF Ready
<1>16. run' = None => Plan'
  BY DEF Plan
<1>17. run' # None => /\ run'.step = step /\ run'.p = run.p /\ run'.todo = rest
                      /\ step \in {"add", "assemble"}
  BY <1>9, <1>11
<1> QED BY <1>14, <1>15, <1>16, <1>17

-------------------------------------------------------------------------------
(* What a step leaves alone.                                                   *)

(* The log stands when no row comes or goes.                                   *)
LEMMA LogStays ==
  ASSUME Log, Dated, Owned, UNCHANGED <<rows, acked>>, seq \in Nat, seq' \in Nat, seq' >= seq,
         clock \in Nat, clock' \in Nat, clock' >= clock
  PROVE  Log' /\ Dated' /\ Owned'
<1>1. \A r \in rows : r.at \in Nat
  BY DEF Log, Stored
<1>2. \A i \in 1..seq : i \in 1..seq'
  OBVIOUS
<1>3. \A r \in rows : r.seq \in 1..seq' /\ r.at <= clock'
  BY <1>1, <1>2 DEF Log
<1>4. acked' \subseteq 1..seq'
  BY <1>2 DEF Log
<1>5. Log'
  BY <1>3, <1>4 DEF Log
<1> QED BY <1>5 DEF Dated, Owned, Owner, Lost

LEMMA ChainsStay ==
  ASSUME ChainsWhole, UNCHANGED <<run, prompt>>,
         run # None /\ run.step = "decide" => UNCHANGED <<rows, acked>>
  PROVE  ChainsWhole'
<1> SUFFICES ASSUME run # None, run.step = "decide" PROVE ChainsWhole'
  BY DEF ChainsWhole
<1>1. PICK ms : ms = prompt.kept \o run.turn
  OBVIOUS
<1>2. \A i \in DOMAIN ms : Answered(ms, i)
  BY <1>1 DEF ChainsWhole
<1>3. \A i \in DOMAIN ms : Answered(ms, i)'
  BY <1>2 DEF Answered, Astray, Lost, Chained
<1> QED BY <1>1, <1>3 DEF ChainsWhole

(* The message in hand when its COMMIT comes.                                  *)
LEMMA TodoIs ==
  ASSUME KeptInv, Adding
  PROVE  /\ Running /\ run # None /\ run.p \in Procs /\ Len(run.todo) \in Nat \ {0}
         /\ run.todo \in Seq(Plain \cup Stored) /\ run.todo # <<>> /\ Head(run.todo) = run.todo[1]
<1>1. Running /\ run # None /\ run.todo # <<>> /\ run.todo \in Seq(Plain \cup Stored) /\ run.p \in Procs
  BY DEF Adding, KeptInv, ConversationType, Running
<1>2. Len(run.todo) \in Nat /\ Len(run.todo) # 0
  BY <1>1, EmptySeq, LenProperties
<1> QED BY <1>1, <1>2

(* The message of the INSERT is still the next of the plan at its COMMIT.      *)
LEMMA ReadyCommit ==
  ASSUME KeptInv, Coming, Plan, Committing
  PROVE  Ready(Head(run.todo)) /\ Adding
<1>1. Adding /\ run.step = "commit" /\ run # None
  BY DEF Adding, Committing
<1>2. PICK m : m = Head(run.todo)
  OBVIOUS
<1>3. m \in Stored /\ m.seq = seq
  BY <1>2 DEF Coming, Committing
<1>4. \/ m.kind \in {"user", "say"} /\ Len(run.todo) = 1 /\ Whole(run.turn)
      \/ /\ m.kind = "call" /\ run.next = "assemble" /\ Whole(run.turn)
         /\ \A i \in 2..Len(run.todo) : run.todo[i].kind = "tool"
         /\ m.ids = {seq + j : j \in 1..Len(run.todo) - 1}
      \/ /\ m.kind = "tool" /\ run.next = "assemble" /\ m.ids = {seq}
         /\ \A i \in DOMAIN run.todo : run.todo[i].kind = "tool"
         /\ \E h \in DOMAIN run.turn : OpenChain(h) /\ seq = Reached(h) + 1
  BY <1>1, <1>2 DEF Plan
<1>5. Ready(m)
  BY <1>2, <1>3, <1>4 DEF Ready
<1> QED BY <1>1, <1>2, <1>5

(* The row of add_message is the next of the plan.                             *)
LEMMA ReadyLite ==
  ASSUME KeptInv, Plan, NEW p \in Procs, Serving(p, "add")
  PROVE  /\ Ready(Row(p)) /\ Adding /\ Row(p).seq = seq + 1 /\ Row(p) \in Stored
         /\ Row(p).kind = Head(run.todo).kind /\ Row(p).at = Stamp(p)
<1>1. Adding /\ run.step = "add" /\ run # None /\ seq \in Nat
  BY DEF Adding, Serving, KeptInv, ConversationType
<1>2. PICK c : c = Head(run.todo)
  OBVIOUS
<1>3. PICK m \in Stored : m = Row(p)
  BY RowType DEF KeptInv
<1>4. /\ m.kind = c.kind /\ m.seq = seq + 1 /\ m.at = Stamp(p)
      /\ m.ids = IF c.kind = "call" THEN {seq + 1 + i : i \in c.ids}
                 ELSE IF c.kind = "tool" THEN {seq + 1} ELSE {}
  BY <1>2, <1>3 DEF Row
<1>5. \/ c.kind \in {"user", "say"} /\ Len(run.todo) = 1 /\ Whole(run.turn)
      \/ /\ c.kind = "call" /\ run.next = "assemble" /\ Whole(run.turn)
         /\ \A i \in 2..Len(run.todo) : run.todo[i].kind = "tool"
         /\ c.ids = {0 + j : j \in 1..Len(run.todo) - 1}
      \/ /\ c.kind = "tool" /\ run.next = "assemble"
         /\ \A i \in DOMAIN run.todo : run.todo[i].kind = "tool"
         /\ \E h \in DOMAIN run.turn : OpenChain(h) /\ seq = Reached(h) + 0
  BY <1>1, <1>2 DEF Plan
<1>6. Ready(m)
  <2>1. CASE c.kind \in {"user", "say"} /\ Len(run.todo) = 1 /\ Whole(run.turn)
    BY <1>2, <1>4, <2>1 DEF Ready
  <2>2. CASE /\ c.kind = "call" /\ run.next = "assemble" /\ Whole(run.turn)
             /\ \A i \in 2..Len(run.todo) : run.todo[i].kind = "tool"
             /\ c.ids = {0 + j : j \in 1..Len(run.todo) - 1}
    <3>1. \A len \in Nat : {0 + j : j \in 1..len - 1} = 1..len - 1
      <4> SUFFICES ASSUME NEW len \in Nat PROVE {0 + j : j \in 1..len - 1} = 1..len - 1
        OBVIOUS
      <4>1. \A j \in 1..len - 1 : 0 + j = j
        OBVIOUS
      <4> QED BY <4>1
    <3>2. c.ids = 1..Len(run.todo) - 1
      BY <1>1, <2>2, <3>1, TodoIs
    <3>3. m.ids = {m.seq + j : j \in 1..Len(run.todo) - 1}
      BY <1>4, <2>2, <3>2
    <3> QED BY <1>2, <1>4, <2>2, <3>3 DEF Ready
  <2>3. CASE /\ c.kind = "tool" /\ run.next = "assemble"
             /\ \A i \in DOMAIN run.todo : run.todo[i].kind = "tool"
             /\ \E h \in DOMAIN run.turn : OpenChain(h) /\ seq = Reached(h) + 0
    <3>1. PICK h \in DOMAIN run.turn : OpenChain(h) /\ seq = Reached(h) + 0
      BY <2>3
    <3>2. run.turn \in Seq(Stored)
      BY <1>1 DEF Plan
    <3>3. Reached(h) \in Nat
      BY <3>2, TurnNumbers DEF Reached
    <3>4. m.seq = Reached(h) + 1 /\ m.ids = {m.seq}
      BY <1>4, <2>3, <3>1, <3>3
    <3> QED BY <1>2, <1>4, <2>3, <3>1, <3>4 DEF Ready
  <2> QED BY <1>5, <2>1, <2>2, <2>3
<1> QED BY <1>1, <1>2, <1>3, <1>4, <1>6

-------------------------------------------------------------------------------
(* Steps beside the turn.                                                      *)

(* Another session's commit may bring the message in hand into the log.        *)
Joined == rows' = rows \/ (Committing /\ rows' = rows \cup {Head(run.todo)})

LEMMA LacksStays == ASSUME NEW ms, NEW h, NEW len, Lacks(ms, h, len) PROVE Lacks(ms, h, len)'
BY DEF Lacks, OwnAnswers, Chained

(* What others do on the connection leaves the plan as it is.                  *)
LEMMA PlanStays ==
  ASSUME KeptInv, Coming, Plan, UNCHANGED <<run, seq, acked>>, Joined
  PROVE  Plan'
<1> SUFFICES ASSUME run # None PROVE Plan'
  BY DEF Plan
<1>1. ASSUME NEW h \in DOMAIN run.turn, OpenChain(h), rows' # rows, Head(run.todo).kind = "tool",
             seq = Reached(h) + 1, run.turn \in Seq(Stored)
      PROVE  OpenChain(h)'
  <2>1. PICK m : m = Head(run.todo) /\ m.seq = seq /\ rows' = rows \cup {m}
    BY <1>1 DEF Coming, Joined
  <2>2. PICK c \in Stored, l \in Nat : c = run.turn[h] /\ l = Len(run.turn) - h /\ c.seq \in Nat
    BY <1>1, TurnNumbers
  <2>3. m.seq > c.seq /\ m.seq # c.seq /\ m.kind = "tool"
    <3>1. m.kind = "tool" /\ m.seq = c.seq + l + 1
      BY <1>1, <2>1, <2>2 DEF Reached
    <3> QED BY <2>2, <3>1
  <2>4. \A r \in rows : (r.seq = c.seq => r = c) /\ (r.seq > c.seq => r.kind = "tool")
    BY <1>1, <2>2 DEF OpenChain
  <2>5. \A r \in rows' : (r.seq = c.seq => r = c) /\ (r.seq > c.seq => r.kind = "tool")
    BY <2>1, <2>3, <2>4
  <2>6. Lacks(run.turn, h, Len(run.todo)) /\ run.turn[h].seq \in acked
    BY <1>1 DEF OpenChain
  <2>7. PICK turn, len : turn = run.turn /\ len = Len(run.todo)
    OBVIOUS
  <2>8. Lacks(turn, h, len)'
    BY <2>6, <2>7, LacksStays
  <2> QED BY <2>2, <2>5, <2>6, <2>7, <2>8 DEF OpenChain
<1>2. ASSUME NEW h, OpenChain(h), rows' = rows PROVE OpenChain(h)'
  <2>1. PICK turn, len : turn = run.turn /\ len = Len(run.todo)
    OBVIOUS
  <2>2. Lacks(turn, h, len)'
    BY <1>2, <2>1, LacksStays DEF OpenChain
  <2> QED BY <1>2, <2>1, <2>2 DEF OpenChain
<1>3. rows' # rows => run.step = "commit"
  BY DEF Joined, Committing
<1>4. \A h : Reached(h)' = Reached(h)
  BY DEF Reached
<1>5. Adding' = Adding /\ (Whole(run.turn) => Whole(run.turn)')
  BY DEF Adding, Whole, OwnAnswers, Chained
<1>6. run.step \in {"add", "commit", "assemble", "decide"} /\ run.turn \in Seq(Stored) /\ (~Adding => Whole(run.turn))
  BY DEF Plan
<1>7. CASE ~Adding
  BY <1>5, <1>6, <1>7 DEF Plan
<1>8. CASE Adding
  <2>1. PICK m : m = Head(run.todo)
    OBVIOUS
  <2>2. \/ m.kind \in {"user", "say"} /\ Len(run.todo) = 1 /\ Whole(run.turn)
        \/ /\ m.kind = "call" /\ run.next = "assemble" /\ Whole(run.turn)
           /\ \A i \in 2..Len(run.todo) : run.todo[i].kind = "tool"
           /\ m.ids = {(IF run.step = "add" THEN 0 ELSE seq) + j : j \in 1..Len(run.todo) - 1}
        \/ /\ m.kind = "tool" /\ run.next = "assemble"
           /\ \A i \in DOMAIN run.todo : run.todo[i].kind = "tool"
           /\ run.step = "commit" => m.ids = {seq}
           /\ \E h \in DOMAIN run.turn :
                OpenChain(h) /\ seq = Reached(h) + (IF run.step = "add" THEN 0 ELSE 1)
    BY <1>8, <2>1 DEF Plan
  <2>3. ASSUME NEW h \in DOMAIN run.turn, m.kind = "tool", OpenChain(h),
               seq = Reached(h) + (IF run.step = "add" THEN 0 ELSE 1)
        PROVE  OpenChain(h)'
    BY <1>1, <1>2, <1>3, <1>6, <2>1, <2>3
  <2>4. CASE m.kind \in {"user", "say"} /\ Len(run.todo) = 1 /\ Whole(run.turn)
    BY <1>5, <1>6, <1>8, <2>1, <2>4 DEF Plan
  <2>5. CASE /\ m.kind = "call" /\ run.next = "assemble" /\ Whole(run.turn)
             /\ \A i \in 2..Len(run.todo) : run.todo[i].kind = "tool"
             /\ m.ids = {(IF run.step = "add" THEN 0 ELSE seq) + j : j \in 1..Len(run.todo) - 1}
    BY <1>5, <1>6, <1>8, <2>1, <2>5 DEF Plan
  <2>6. CASE /\ m.kind = "tool" /\ run.next = "assemble"
             /\ \A i \in DOMAIN run.todo : run.todo[i].kind = "tool"
             /\ run.step = "commit" => m.ids = {seq}
             /\ \E h \in DOMAIN run.turn :
                  OpenChain(h) /\ seq = Reached(h) + (IF run.step = "add" THEN 0 ELSE 1)
    <3>1. PICK h \in DOMAIN run.turn :
            OpenChain(h) /\ seq = Reached(h) + (IF run.step = "add" THEN 0 ELSE 1)
      BY <2>6
    <3>2. OpenChain(h)' /\ Reached(h)' = Reached(h)
      BY <1>4, <2>3, <2>6, <3>1
    <3> QED BY <1>5, <1>6, <1>8, <2>1, <2>6, <3>1, <3>2 DEF Plan
  <2> QED BY <2>2, <2>4, <2>5, <2>6
<1> QED BY <1>7, <1>8

LEMMA LogJoined ==
  ASSUME KeptInv, Log, Dated, Owned, Coming, Plan, UNCHANGED <<run, seq, acked>>, Joined,
         clock' \in Nat, clock' >= clock, rows' # rows => UNCHANGED clock
  PROVE  Log' /\ Dated' /\ Owned'
<1>1. seq \in Nat /\ clock \in Nat
  BY DEF KeptInv, ConversationType
<1>2. CASE rows' = rows
  BY <1>1, <1>2, LogStays
<1>3. CASE rows' # rows
  <2>1. Committing
    BY <1>3 DEF Joined
  <2>2. PICK m : m = Head(run.todo) /\ rows' = rows \cup {m}
    BY <1>3 DEF Joined
  <2>3. Ready(m) /\ run # None /\ run.turn \in Seq(Stored) /\ Len(run.todo) \in Nat \ {0}
    BY <2>1, <2>2, ReadyCommit, TodoIs DEF Plan, Committing
  <2>4. /\ m \in Stored /\ m.seq = seq /\ seq > 0 /\ seq \notin acked /\ m.at <= clock
        /\ m.kind # "user" => \A r \in rows : r.at <= m.at
        /\ \A r \in rows : r.seq = seq => r = m
    BY <2>1, <2>2 DEF Coming
  <2>5. m.kind = "tool" => \E o \in Nat : Owner(o, m)
    BY <2>3, ReadyOwned
  <2>6. m.seq \in 1..seq' /\ m.seq \notin acked /\ \A r \in rows : r.seq <= m.seq /\ (r.seq = m.seq => r = m)
    BY <1>1, <2>4 DEF Log
  <2>7. UNCHANGED clock /\ seq' \in Nat /\ seq' >= seq
    BY <1>1, <1>3
  <2> QED BY <1>1, <2>2, <2>4, <2>5, <2>6, <2>7, RowJoins
<1> QED BY <1>2, <1>3

(* Steps beside the turn.                                                      *)
LEMMA Beside ==
  ASSUME PromptInv, KeptInv', UNCHANGED <<backend, seq, run, snap, prompt, acked>>, Joined,
         clock' \in Nat, clock' >= clock, rows' # rows => UNCHANGED clock /\ ~tx'[run.p].open,
         \A q \in Procs :
           /\ tx'[q].pending \in {tx[q].pending, {}}
           /\ tx'[q].open =>
                \/ tx[q].open /\ tx'[q].since = tx[q].since
                \/ backend = "postgres" /\ tx'[q].since = clock
  PROVE  PromptInv'
<1>1. /\ KeptInv /\ Log /\ Dated /\ Owned /\ Connected /\ InTime /\ Coming /\ Plan
      /\ snap # None => Whole(snap)
      /\ ChainsWhole
  BY DEF PromptInv
<1>2. clock \in Nat /\ \A q \in Procs : tx[q].since \in Nat
  BY <1>1 DEF KeptInv, ConversationType, Connections
<1>3. run # None => run.p \in Procs
  BY <1>1 DEF KeptInv, ConversationType, Running
<1>4. Log' /\ Dated' /\ Owned'
  BY <1>1, LogJoined
<1>5. Plan'
  BY <1>1, PlanStays
<1>6. Connected'
  <2> SUFFICES ASSUME NEW q \in Procs
               PROVE  /\ tx'[q].open => backend' = "postgres" /\ tx'[q].since <= clock'
                      /\ tx'[q].pending # {} =>
                           Committing' /\ run'.p = q /\ tx'[q].pending = {Head(run'.todo)}
    BY DEF Connected
  <2>1. tx[q].open => backend = "postgres" /\ tx[q].since <= clock
    BY <1>1 DEF Connected
  <2>2. tx[q].pending # {} => Committing /\ run.p = q /\ tx[q].pending = {Head(run.todo)}
    BY <1>1 DEF Connected
  <2>3. tx'[q].open => backend' = "postgres" /\ tx'[q].since <= clock'
    BY <1>2, <2>1
  <2> QED BY <2>2, <2>3 DEF Committing
<1>7. Past' = Past /\ (Past => run # None)
  BY DEF Past, Adding
<1>8. InTime'
  <2> SUFFICES ASSUME Past, tx'[run.p].open, NEW r \in rows' PROVE r.at <= tx'[run.p].since
    BY <1>7 DEF InTime
  <2>1. rows' = rows /\ run.p \in Procs
    BY <1>3, <1>7 DEF Joined
  <2>2. CASE tx[run.p].open /\ tx'[run.p].since = tx[run.p].since
    BY <1>1, <2>1, <2>2 DEF InTime
  <2>3. CASE tx'[run.p].since = clock
    BY <1>1, <2>1, <2>3 DEF Log
  <2> QED BY <2>1, <2>2, <2>3
<1>9. Coming'
  <2> SUFFICES ASSUME Committing PROVE Coming'
    BY DEF Coming, Committing
  <2>1. PICK m : m = Head(run.todo)
    OBVIOUS
  <2>2. /\ m \in Stored /\ m.seq = seq /\ seq > 0 /\ seq \notin acked /\ m.at <= clock
        /\ m.kind # "user" => \A r \in rows : r.at <= m.at
        /\ \A r \in rows : r.seq = seq => r = m
    BY <1>1, <2>1 DEF Coming
  <2>3. rows' \subseteq rows \cup {m} /\ m.at \in Nat
    BY <2>1, <2>2 DEF Joined, Stored
  <2>4. m.at <= clock'
    BY <1>2, <2>2, <2>3
  <2>5. m.kind # "user" => \A r \in rows' : r.at <= m.at
    BY <2>2, <2>3
  <2>6. \A r \in rows' : r.seq = seq => r = m
    BY <2>2, <2>3
  <2> QED BY <2>1, <2>2, <2>4, <2>5, <2>6 DEF Coming
<1>10. ChainsWhole'
  BY <1>1, ChainsStay DEF Joined, Committing
<1>11. snap' # None => Whole(snap')
  BY <1>1
<1> QED BY <1>4, <1>5, <1>6, <1>8, <1>9, <1>10, <1>11 DEF PromptInv

LEMMA OpenedIs ==
  ASSUME KeptInv, NEW p \in Procs
  PROVE  /\ tx[p] \in Connections /\ Opened(p) \in Connections
         /\ Opened(p).pending = tx[p].pending /\ Opened(p).failed = tx[p].failed
         /\ backend = "postgres" => Opened(p).open = TRUE /\ Opened(p).since = Began(p)
         /\ backend # "postgres" => Opened(p) = tx[p]
<1>1. PICK x \in Connections : x = tx[p]
  BY DEF KeptInv, ConversationType
<1>2. PICK b \in Nat : b = Began(p)
  BY ConnectionType DEF KeptInv
<1>3. CASE backend = "postgres"
  <2>1. Opened(p) = [x EXCEPT !.open = TRUE, !.since = b]
    BY <1>1, <1>2, <1>3 DEF Opened
  <2>2. PICK y : y = [x EXCEPT !.open = TRUE, !.since = b]
    OBVIOUS
  <2>3. /\ y \in Connections /\ y.open = TRUE /\ y.since = b /\ y.pending = x.pending
        /\ y.failed = x.failed
    BY <2>2 DEF Connections
  <2> QED BY <1>1, <1>2, <1>3, <2>1, <2>2, <2>3
<1>4. CASE backend # "postgres"
  BY <1>1, <1>4 DEF Opened
<1> QED BY <1>3, <1>4

LEMMA BesideStep ==
  ASSUME PromptInv, KeptInv',
         Tick \/ (\E p \in Procs : OtherRead(p) \/ OtherWrite(p) \/ Fault(p)) \/ UNCHANGED vars
  PROVE  PromptInv'
<1>1. /\ KeptInv /\ Connected /\ clock \in Nat /\ tx \in [Procs -> Connections]
      /\ run # None => run.p \in Procs
  BY DEF PromptInv, KeptInv, ConversationType, Running
<1>2. CASE Tick \/ UNCHANGED vars
  BY <1>1, <1>2, Beside DEF Tick, vars, Joined
<1>3. ASSUME NEW p \in Procs, OtherRead(p) PROVE PromptInv'
  <2>1. UNCHANGED <<backend, clock, seq, run, snap, prompt, acked, rows>> /\ backend = "postgres"
    BY <1>3 DEF OtherRead
  <2>2. PICK c : c = Opened(p) /\ tx' = [tx EXCEPT ![p] = c]
    BY <1>3 DEF OtherRead
  <2>3. c.pending = tx[p].pending /\ c.since = clock
    BY <1>1, <1>3, <2>1, <2>2, OpenedIs DEF OtherRead, Began
  <2>4. \A q \in Procs : tx'[q] = IF q = p THEN c ELSE tx[q]
    BY <1>1, <2>2
  <2>5. \A q \in Procs : /\ tx'[q].pending = tx[q].pending
                         /\ tx'[q].since = IF q = p THEN clock ELSE tx[q].since
                         /\ q # p => tx'[q].open = tx[q].open
    BY <2>3, <2>4
  <2> QED BY <1>1, <2>1, <2>5, Beside DEF Joined
<1>4. ASSUME NEW p \in Procs, OtherWrite(p) PROVE PromptInv'
  <2>1. /\ UNCHANGED <<backend, clock, seq, run, snap, prompt, acked>>
        /\ rows' = rows \cup tx[p].pending /\ tx' = [tx EXCEPT ![p] = Quiet]
    BY <1>4 DEF OtherWrite
  <2>2. tx'[p] = Quiet /\ \A q \in Procs : q # p => tx'[q] = tx[q]
    BY <1>1, <2>1
  <2>3. Quiet.open = FALSE /\ Quiet.pending = {}
    BY DEF Quiet
  <2>4. \A q \in Procs : /\ tx'[q].pending \in {tx[q].pending, {}}
                         /\ tx'[q].open => tx[q].open /\ tx'[q].since = tx[q].since
    BY <2>2, <2>3
  <2>5. Joined /\ (rows' # rows => run.p = p)
    BY <1>1, <2>1 DEF Connected, Joined
  <2>6. rows' # rows => ~tx'[run.p].open
    BY <2>2, <2>3, <2>5
  <2> QED BY <1>1, <2>1, <2>4, <2>5, <2>6, Beside
<1>5. ASSUME NEW p \in Procs, Fault(p) PROVE PromptInv'
  <2>1. /\ UNCHANGED <<backend, clock, rows, seq, run, snap, prompt, acked>>
        /\ tx' = [tx EXCEPT ![p].failed = TRUE]
    BY <1>5 DEF Fault
  <2>2. \A q \in Procs : /\ tx'[q].pending = tx[q].pending /\ tx'[q].open = tx[q].open
                         /\ tx'[q].since = tx[q].since
    BY <1>1, <2>1 DEF Connections
  <2> QED BY <1>1, <2>1, <2>2, Beside DEF Joined
<1> QED BY <1>2, <1>3, <1>4, <1>5

-------------------------------------------------------------------------------
(* Steps of the turn.                                                          *)

(* What a plan begins with.                                                    *)
Begins(ms, next) ==
  \/ Head(ms).kind \in {"user", "say"} /\ Len(ms) = 1
  \/ /\ Head(ms).kind = "call" /\ next = "assemble"
     /\ \A i \in 2..Len(ms) : ms[i].kind = "tool"
     /\ Head(ms).ids = {0 + j : j \in 1..Len(ms) - 1}

LEMMA MessagesBegin ==
  /\ \A next : Begins(<<Message("user", {})>>, next) /\ Begins(<<Message("say", {})>>, next)
  /\ Head(<<Message("user", {})>>).kind = "user"
  /\ \A k \in 1..2 :
       Begins(<<Message("call", 1..k)>> \o [i \in 1..k |-> Message("tool", {})], "assemble")
<1>1. \A m : Head(<<m>>) = m /\ Len(<<m>>) = 1
  OBVIOUS
<1>2. Message("user", {}).kind = "user" /\ Message("say", {}).kind = "say"
  BY DEF Message
<1>3. ASSUME NEW k \in 1..2
      PROVE  Begins(<<Message("call", 1..k)>> \o [i \in 1..k |-> Message("tool", {})], "assemble")
  <2>1. PICK c : c = Message("call", 1..k)
    OBVIOUS
  <2>2. c = Message("call", 1..k) /\ c.kind = "call" /\ c.ids = 1..k
    BY <2>1 DEF Message
  <2>3. PICK t : t = Message("tool", {})
    OBVIOUS
  <2>4. t = Message("tool", {}) /\ t.kind = "tool"
    BY <2>3 DEF Message
  <2>5. <<c>> \in Seq({c, t}) /\ Len(<<c>>) = 1 /\ <<c>>[1] = c
    OBVIOUS
  <2>6. PICK a \in Seq({c, t}) : a = <<c>> /\ Len(a) = 1 /\ a[1] = c
    BY <2>5
  <2>7. [i \in 1..k |-> t] \in Seq({c, t}) /\ Len([i \in 1..k |-> t]) = k
    OBVIOUS
  <2>8. \A i \in 1..k : [j \in 1..k |-> t][i] = t
    OBVIOUS
  <2>9. PICK b \in Seq({c, t}) : b = [i \in 1..k |-> t] /\ Len(b) = k /\ \A i \in 1..k : b[i] = t
    BY <2>7, <2>8
  <2>10. PICK ms \in Seq({c, t}) : /\ ms = a \o b /\ Len(ms) = k + 1 /\ ms[1] = c
                                  /\ \A i \in 2..k + 1 : ms[i] = t
    <3>1. a \o b \in Seq({c, t}) /\ Len(a \o b) = Len(a) + Len(b)
      BY ConcatProperties
    <3>2. \A i \in 1..Len(a) + Len(b) : (a \o b)[i] = IF i <= Len(a) THEN a[i] ELSE b[i - Len(a)]
      BY ConcatProperties
    <3>3. (a \o b)[1] = c
      BY <2>6, <2>9, <3>2
    <3>4. \A i \in 2..k + 1 : (a \o b)[i] = t
      BY <2>6, <2>9, <3>2
    <3>5. Len(a \o b) = k + 1
      BY <2>6, <2>9, <3>1
    <3> QED BY <3>1, <3>3, <3>4, <3>5
  <2>11. Head(ms) = c
    BY <2>10, EmptySeq
  <2>12. {0 + j : j \in 1..k} = 1..k /\ Len(ms) - 1 = k
    <3>1. \A j \in 1..k : 0 + j = j
      OBVIOUS
    <3> QED BY <2>10, <3>1
  <2>13. Begins(ms, "assemble")
    BY <2>2, <2>4, <2>10, <2>11, <2>12 DEF Begins
  <2> QED BY <2>2, <2>4, <2>6, <2>9, <2>10, <2>13
<1> QED BY <1>1, <1>2, <1>3 DEF Begins

(* A turn that begins to write has a plan.                                     *)
LEMMA PlanWritten ==
  ASSUME NEW p, NEW turn, Whole(turn), NEW ms, NEW next, Begins(ms, next), Write(p, turn, ms, next)
  PROVE  /\ Plan' /\ run'.step = "add" /\ run'.p = p /\ run'.todo = ms
<1>1. run' = [p |-> p, step |-> "add", turn |-> turn, todo |-> ms, next |-> next]
  BY DEF Write
<1>2. PICK r : r = [p |-> p, step |-> "add", turn |-> turn, todo |-> ms, next |-> next]
  OBVIOUS
<1>3. /\ run' = r /\ r.p = p /\ r.step = "add" /\ r.turn = turn /\ r.todo = ms /\ r.next = next
  BY <1>1, <1>2
<1>4. turn \in Seq(Stored) /\ Whole(turn)'
  BY DEF Whole, OwnAnswers, Chained
<1>5. run' # None => Adding'
  BY <1>3 DEF Adding
<1>6. Plan'
  BY <1>3, <1>4, <1>5 DEF Plan, Begins
<1> QED BY <1>3, <1>6

(* Neither the log nor a prompt changes, and the connections hold nothing.     *)
LEMMA TurnBeside ==
  ASSUME PromptInv, KeptInv', UNCHANGED <<backend, clock, rows, seq, acked>>,
         \A q \in Procs : tx'[q] \in {tx[q], Quiet},
         Committing => tx'[run.p] = Quiet,
         run' # None => run'.step # "commit", Plan',
         run' # None /\ Past' => Past /\ run'.p = run.p,
         snap' # None => Whole(snap'),
         ~(run' # None /\ run'.step = "decide")
  PROVE  PromptInv'
<1>1. /\ KeptInv /\ Log /\ Dated /\ Owned /\ Connected /\ InTime
  BY DEF PromptInv
<1>2. Log' /\ Dated' /\ Owned'
  BY <1>1, LogStays DEF KeptInv, ConversationType
<1>3. Quiet.open = FALSE /\ Quiet.pending = {}
  BY DEF Quiet
<1>4. \A q \in Procs : tx[q].pending # {} => Committing /\ run.p = q
  BY <1>1 DEF Connected
<1>5. \A q \in Procs : tx'[q].pending = {} /\ (tx'[q].open => tx[q].open /\ tx'[q] = tx[q])
  BY <1>3, <1>4
<1>6. Connected'
  BY <1>1, <1>5 DEF Connected
<1>7. InTime'
  <2> SUFFICES ASSUME Past', tx'[run'.p].open, NEW r \in rows PROVE r.at <= tx'[run'.p].since
    BY DEF InTime
  <2>1. run' # None /\ Past /\ run'.p = run.p
    BY DEF Past
  <2>2. run.p \in Procs
    BY <1>1, <2>1 DEF KeptInv, ConversationType, Running, Past
  <2> QED BY <1>1, <1>5, <2>1, <2>2 DEF InTime
<1>8. Coming' /\ ChainsWhole'
  BY DEF Coming, Committing, ChainsWhole
<1> QED BY <1>2, <1>6, <1>7, <1>8 DEF PromptInv

LEMMA WholeStays == ASSUME NEW ms, Whole(ms) PROVE Whole(ms)'
BY DEF Whole, OwnAnswers, Chained

LEMMA EmptyWhole == Whole(<<>>)
<1>1. <<>> \in Seq(Stored) /\ DOMAIN <<>> = {}
  BY EmptySeq, LenProperties
<1> QED BY <1>1 DEF Whole

(* One lemma for each kind of step.                                            *)
LEMMA WritePrompts ==
  ASSUME PromptInv, KeptInv', NEW p \in Procs, Begin(p) \/ Resume(p) \/ Act(p) \/ Answer(p) \/ Ask(p)
  PROVE  PromptInv'
<1>1. UNCHANGED <<backend, clock, rows, seq, tx, acked>>
  BY DEF Begin, Resume, Act, Answer, Ask
<1>2. /\ run # None => run.step = "decide" /\ run.p = p
      /\ snap' = None \/ snap' = snap
      /\ Begin(p) \/ Resume(p) \/ run # None
  BY DEF Begin, Resume, Act, Answer, Ask, Resting, Serving
<1>3. ~Committing /\ ~Adding
  BY <1>2 DEF Committing, Adding
<1>4. Plan /\ (snap # None => Whole(snap))
  BY DEF PromptInv
<1>5. run # None => Whole(run.turn)
  BY <1>3, <1>4 DEF Plan
<1>6. snap' # None => Whole(snap')
  BY <1>2, <1>4
<1>7. /\ Plan' /\ run'.step = "add" /\ run'.p = p
      /\ Begin(p) \/ Resume(p) => Head(run'.todo).kind = "user"
  <2>1. CASE Begin(p)
    BY <2>1, MessagesBegin, PlanWritten, EmptyWhole DEF Begin
  <2>2. CASE Resume(p)
    <3>1. Whole(snap) /\ Write(p, snap, <<Message("user", {})>>, "assemble")
      BY <1>4, <2>2 DEF Resume
    <3>2. PICK turn : turn = snap
      OBVIOUS
    <3>3. Whole(turn) /\ Write(p, turn, <<Message("user", {})>>, "assemble")
      BY <3>1, <3>2
    <3> QED BY <3>3, MessagesBegin, PlanWritten
  <2>3. PICK turn : turn = run.turn
    OBVIOUS
  <2>4. CASE Act(p) \/ Answer(p) \/ Ask(p)
    <3>1. Whole(turn) /\ run # None
      BY <1>5, <2>3, <2>4 DEF Act, Answer, Ask, Serving
    <3>2. \E ms, next : Begins(ms, next) /\ Write(p, turn, ms, next)
      BY <2>3, <2>4, MessagesBegin DEF Act, Answer, Ask
    <3>3. ~(Begin(p) \/ Resume(p))
      BY <3>1 DEF Begin, Resume, Resting
    <3> QED BY <3>1, <3>2, <3>3, PlanWritten
  <2> QED BY <2>1, <2>2, <2>4
<1>8. run' # None /\ Past' => Past /\ run'.p = run.p
  <2> SUFFICES ASSUME run' # None, Past' PROVE Past /\ run'.p = run.p
    OBVIOUS
  <2>1. ~(Begin(p) \/ Resume(p))
    BY <1>7 DEF Past, Adding
  <2>2. run # None
    BY <1>2, <2>1
  <2> QED BY <1>2, <1>3, <1>7, <2>2 DEF Past
<1> QED BY <1>1, <1>3, <1>6, <1>7, <1>8, TurnBeside

LEMMA EndPrompts ==
  ASSUME PromptInv, KeptInv', NEW p \in Procs, Hint(p) \/ GiveUp(p) \/ Refused(p)
  PROVE  PromptInv'
<1>1. UNCHANGED <<backend, clock, rows, seq, tx, acked, snap>>
  BY DEF Hint, GiveUp, Refused
<1>2. ~Committing
  BY DEF Hint, GiveUp, Refused, Serving, Committing
<1>3. snap' # None => Whole(snap')
  BY <1>1 DEF PromptInv
<1>4. CASE run' = None
  <2>1. Plan'
    BY <1>4 DEF Plan
  <2> QED BY <1>1, <1>2, <1>3, <1>4, <2>1, TurnBeside
<1>5. CASE Hint(p)
  <2>1. PICK hint : hint = [kind |-> "user", ids |-> {}, seq |-> 0, at |-> 0, turn |-> turns]
    OBVIOUS
  <2>2. hint \in Stored /\ hint.kind = "user"
    BY <2>1 DEF Stored, Roles, PromptInv, KeptInv, ConversationType
  <2>3. run # None /\ run.step = "decide" /\ run.p = p
    BY <1>5 DEF Hint, Serving
  <2>4. Running /\ run' = [run EXCEPT !.step = "assemble", !.turn = Append(@, hint)]
    BY <1>5, <2>1, <2>3 DEF Hint, PromptInv, KeptInv, ConversationType
  <2>5. PICK turn : turn = run.turn
    OBVIOUS
  <2>6. PICK turn1 : turn1 = Append(turn, hint)
    OBVIOUS
  <2>7. run'.p = p /\ run'.step = "assemble" /\ run'.turn = turn1
    BY <2>3, <2>4, <2>5, <2>6 DEF Running
  <2>8. Whole(turn)
    BY <2>3, <2>5 DEF PromptInv, Plan, Adding
  <2>9. Whole(turn1)
    BY <2>2, <2>6, <2>8, AppendWhole
  <2>10. turn1 \in Seq(Stored) /\ Whole(turn1)'
    BY <2>9, WholeStays DEF Whole
  <2>11. Plan' /\ ~Adding'
    BY <2>7, <2>10 DEF Plan, Adding
  <2>12. Past
    BY <2>3 DEF Past, Adding
  <2> QED BY <1>1, <1>2, <1>3, <2>3, <2>7, <2>11, <2>12, TurnBeside
<1> QED BY <1>4, <1>5 DEF GiveUp, Refused, Raise

LEMMA CrashPrompts ==
  ASSUME PromptInv, KeptInv', NEW p \in Procs, Crash(p)
  PROVE  PromptInv'
<1>1. UNCHANGED <<backend, clock, rows, seq, acked, snap>> /\ tx' = [tx EXCEPT ![p] = Quiet]
  BY DEF Crash
<1>2. KeptInv /\ clock \in Nat /\ tx \in [Procs -> Connections] /\ (snap # None => Whole(snap))
  BY DEF PromptInv, KeptInv, ConversationType
<1>3. tx'[p] = Quiet /\ \A q \in Procs : q # p => tx'[q] = tx[q]
  BY <1>1, <1>2
<1>4. CASE run # None /\ run.p = p
  <2>1. run' = None
    BY <1>4 DEF Crash, Raise
  <2>2. Plan'
    BY <2>1 DEF Plan
  <2>3. \A q \in Procs : tx'[q] \in {tx[q], Quiet}
    BY <1>3
  <2>4. snap' # None => Whole(snap')
    BY <1>1, <1>2
  <2> QED BY <1>1, <1>3, <1>4, <2>1, <2>2, <2>3, <2>4, TurnBeside
<1>5. CASE ~(run # None /\ run.p = p)
  <2>1. UNCHANGED <<run, prompt>>
    BY <1>5 DEF Crash
  <2>2. Quiet.open = FALSE /\ Quiet.pending = {}
    BY DEF Quiet
  <2>3. \A q \in Procs : /\ tx'[q].pending \in {tx[q].pending, {}}
                         /\ tx'[q].open => tx[q].open /\ tx'[q].since = tx[q].since
    BY <1>3, <2>2
  <2> QED BY <1>1, <1>2, <2>1, <2>3, Beside DEF Joined
<1> QED BY <1>4, <1>5

LEMMA ClearPrompts ==
  ASSUME PromptInv, KeptInv', NEW p \in Procs, ClearSession(p)
  PROVE  PromptInv'
<1>1. /\ UNCHANGED <<backend, clock, seq, run, snap, prompt>> /\ run = None
      /\ rows' = {} /\ acked' = acked \ {r.seq : r \in rows} /\ tx' = [tx EXCEPT ![p] = Quiet]
  BY DEF ClearSession
<1>2. KeptInv /\ Log /\ Connected /\ tx \in [Procs -> Connections] /\ (snap # None => Whole(snap))
  BY DEF PromptInv, KeptInv, ConversationType
<1>3. Log' /\ Dated' /\ Owned'
  BY <1>1, <1>2, FS_EmptySet DEF Log, Dated, Owned
<1>4. tx'[p] = Quiet /\ \A q \in Procs : q # p => tx'[q] = tx[q]
  BY <1>1, <1>2
<1>5. Quiet.open = FALSE /\ Quiet.pending = {}
  BY DEF Quiet
<1>6. Connected'
  BY <1>1, <1>2, <1>4, <1>5 DEF Connected, Committing
<1>7. InTime' /\ Coming' /\ Plan' /\ ChainsWhole'
  BY <1>1 DEF InTime, Past, Coming, Committing, Plan, ChainsWhole
<1>8. snap' # None => Whole(snap')
  BY <1>1, <1>2
<1> QED BY <1>3, <1>6, <1>7, <1>8 DEF PromptInv

(* A message that is in the log, its call returned, is the newest of it and of *)
(* the turn.                                                                   *)
LEMMA MessageAdded ==
  ASSUME PromptInv, KeptInv', Adding, NEW m, Ready(m), Added(m), UNCHANGED <<backend, clock>>,
         seq' = m.seq, seq' >= seq, m.seq > 0, m.at <= clock, m.seq \notin acked,
         \A r \in rows : r.seq <= m.seq /\ (r.seq = m.seq => r = m),
         m.kind # "user" => \A r \in rows : r.at <= m.at,
         rows' = rows \/ rows' = rows \cup {m},
         ~tx'[run.p].open,
         \A q \in Procs : tx'[q].pending = {} /\ (tx'[q].open => tx[q].open /\ tx'[q].since = tx[q].since)
  PROVE  PromptInv'
<1>1. /\ KeptInv /\ Log /\ Dated /\ Owned /\ Connected /\ Plan /\ (snap # None => Whole(snap))
      /\ seq \in Nat /\ clock \in Nat
  BY DEF PromptInv, KeptInv, ConversationType
<1>2. run # None /\ run.turn \in Seq(Stored) /\ Len(run.todo) \in Nat \ {0}
  BY <1>1, TodoIs DEF Plan
<1>3. m \in Stored /\ m.seq \in Nat
  BY DEF Ready, Stored
<1>4. m.kind = "tool" => \E o \in Nat : Owner(o, m)
  BY <1>1, <1>2, ReadyOwned
<1>5. acked' = acked \cup {m.seq}
  BY DEF Added
<1>6. m.seq \in 1..seq' /\ seq' \in Nat
  BY <1>3
<1>7. Log' /\ Dated' /\ Owned'
  BY <1>1, <1>3, <1>4, <1>5, <1>6, RowJoins
<1>8. /\ Plan' /\ (snap' # None => Whole(snap'))
      /\ run' # None => run'.step \in {"add", "assemble"} /\ run'.p = run.p
  BY <1>1, <1>2, PlanGoesOn
<1>9. Connected'
  BY <1>1 DEF Connected
<1>10. InTime' /\ Coming' /\ ChainsWhole'
  BY <1>8 DEF InTime, Past, Coming, Committing, ChainsWhole
<1>11. (snap # None => Whole(snap))'
  <2> SUFFICES ASSUME snap' # None PROVE Whole(snap)'
    OBVIOUS
  <2>1. PICK ms : ms = snap' /\ Whole(ms)
    BY <1>8
  <2>2. Whole(ms)'
    BY <2>1, WholeStays
  <2> QED BY <2>1, <2>2
<1> QED BY <1>7, <1>8, <1>9, <1>10, <1>11 DEF PromptInv

LEMMA AddLitePrompts ==
  ASSUME PromptInv, KeptInv', NEW p \in Procs, AddLite(p)
  PROVE  PromptInv'
<1>1. /\ UNCHANGED <<backend, clock, tx>> /\ backend = "sqlite" /\ Serving(p, "add")
      /\ rows' = rows \cup {Row(p)} /\ seq' = seq + 1 /\ Added(Row(p)) /\ run.p = p /\ run.step = "add"
  BY DEF AddLite, Serving
<1>2. PICK m : m = Row(p)
  OBVIOUS
<1>3. /\ KeptInv /\ Log /\ Connected /\ Plan /\ seq \in Nat /\ clock \in Nat
  BY DEF PromptInv, KeptInv, ConversationType
<1>4. /\ Ready(m) /\ Adding /\ m.seq = seq + 1 /\ m.at = clock /\ Added(m)
  BY <1>1, <1>2, <1>3, ReadyLite DEF Stamp
<1>5. m.seq \notin acked /\ \A r \in rows : r.seq <= m.seq /\ r.seq # m.seq /\ r.at <= m.at
  BY <1>3, <1>4 DEF Log
<1>6. \A q \in Procs : tx[q].pending = {} /\ ~tx[q].open
  BY <1>1, <1>3 DEF Connected, Committing
<1>7. seq' = m.seq /\ seq' >= seq /\ m.seq > 0 /\ m.at <= clock
  BY <1>1, <1>3, <1>4
<1> QED BY <1>1, <1>2, <1>4, <1>5, <1>6, <1>7, MessageAdded

LEMMA CommitPrompts ==
  ASSUME PromptInv, KeptInv', NEW p \in Procs, Commit(p)
  PROVE  PromptInv'
<1>1. PICK m : m = Head(run.todo)
  OBVIOUS
<1>2. /\ UNCHANGED <<backend, clock, seq>> /\ Committing /\ run.p = p /\ Added(m)
      /\ rows' = IF tx[p].failed THEN rows ELSE rows \cup tx[p].pending
      /\ tx' = [tx EXCEPT ![p] = Quiet]
  BY <1>1 DEF Commit, Serving, Committing
<1>3. /\ KeptInv /\ Log /\ Connected /\ Coming /\ Plan /\ seq \in Nat /\ clock \in Nat
      /\ tx \in [Procs -> Connections]
  BY DEF PromptInv, KeptInv, ConversationType
<1>4. Ready(m) /\ Adding
  BY <1>1, <1>2, <1>3, ReadyCommit
<1>5. /\ m \in Stored /\ m.seq = seq /\ seq > 0 /\ seq \notin acked /\ m.at <= clock
      /\ m.kind # "user" => \A r \in rows : r.at <= m.at
      /\ \A r \in rows : r.seq = seq => r = m
  BY <1>1, <1>2, <1>3 DEF Coming
<1>6. tx[p].pending = {} \/ tx[p].pending = {m}
  BY <1>1, <1>3 DEF Connected
<1>7. rows' = rows \/ rows' = rows \cup {m}
  BY <1>2, <1>6
<1>8. tx'[p] = Quiet /\ \A q \in Procs : q # p => tx'[q] = tx[q] /\ tx[q].pending = {}
  BY <1>2, <1>3 DEF Connected
<1>9. Quiet.open = FALSE /\ Quiet.pending = {}
  BY DEF Quiet
<1>10. ~tx'[run.p].open
  BY <1>2, <1>8, <1>9
<1>11. \A q \in Procs : tx'[q].pending = {} /\ (tx'[q].open => tx[q].open /\ tx'[q].since = tx[q].since)
  BY <1>8, <1>9
<1>12. seq' = m.seq /\ seq' >= seq /\ m.seq > 0 /\ m.seq \notin acked
  BY <1>2, <1>3, <1>5
<1>13. \A r \in rows : r.seq <= m.seq /\ (r.seq = m.seq => r = m)
  BY <1>3, <1>5 DEF Log
<1> QED BY <1>2, <1>4, <1>5, <1>7, <1>10, <1>11, <1>12, <1>13, MessageAdded

LEMMA AssemblePrompts ==
  ASSUME PromptInv, KeptInv', NEW p \in Procs, Assemble(p)
  PROVE  PromptInv'
<1>1. PICK turn : turn = run.turn
  OBVIOUS
<1>2. PICK prior : prior = Strip(Recent(p), turn)
  OBVIOUS
<1>3. /\ UNCHANGED <<backend, clock, rows, seq, snap, acked>> /\ run # None /\ run.p = p
      /\ run.step = "assemble" /\ tx' = [tx EXCEPT ![p] = Opened(p)]
      /\ prompt' = [prior |-> prior, kept |-> Trim(prior)] /\ run' = [run EXCEPT !.step = "decide"]
  BY <1>1, <1>2 DEF Assemble, Serving
<1>4. /\ KeptInv /\ Log /\ Dated /\ Owned /\ Connected /\ InTime /\ Plan /\ (snap # None => Whole(snap))
      /\ seq \in Nat /\ clock \in Nat /\ tx \in [Procs -> Connections] /\ Running
  BY <1>3 DEF PromptInv, KeptInv, ConversationType
<1>5. ~Adding /\ ~Committing
  BY <1>3 DEF Adding, Committing
<1>6. Whole(turn) /\ turn \in Seq(Stored)
  BY <1>1, <1>3, <1>4, <1>5 DEF Plan
<1>7. tx[p].pending = {}
  BY <1>4, <1>5 DEF Connected
<1>8. run'.p = p /\ run'.step = "decide" /\ run'.turn = turn
  BY <1>1, <1>3, <1>4 DEF Running
<1>9. PICK kept : kept = Trim(prior)
  OBVIOUS
<1>10. Fair(kept)
  BY <1>2, <1>4, <1>6, <1>7, <1>9, HistoryFair
<1>11. PICK ms : ms = kept \o turn
  OBVIOUS
<1>12. Fair(ms)
  BY <1>6, <1>10, <1>11, ConcatFair, WholeFair
<1>13. \A i \in DOMAIN ms : Answered(ms, i)'
  BY <1>3, <1>12 DEF Fair, Answered, Astray, Lost, Chained
<1>14. ChainsWhole'
  <2>1. prompt'.kept = kept
    BY <1>3, <1>9
  <2> QED BY <1>8, <1>11, <1>13, <2>1 DEF ChainsWhole
<1>15. Log' /\ Dated' /\ Owned'
  BY <1>3, <1>4, LogStays
<1>16. tx'[p] = Opened(p) /\ \A q \in Procs : q # p => tx'[q] = tx[q]
  BY <1>3, <1>4
<1>17. /\ tx'[p].pending = {}
       /\ tx'[p].open => /\ backend = "postgres"
                         /\ tx'[p].since = IF tx[p].open THEN tx[p].since ELSE clock
  <2>1. PICK o : o = Opened(p) /\ o = tx'[p]
    BY <1>16
  <2>2. o.pending = {} /\ (backend = "postgres" => o.since = Began(p))
    BY <1>4, <1>7, <2>1, OpenedIs
  <2>3. backend # "postgres" => o = tx[p] /\ ~tx[p].open
    BY <1>4, <2>1, OpenedIs DEF Connected
  <2> QED BY <2>1, <2>2, <2>3 DEF Began
<1>18. Connected'
  <2>1. tx'[p].open => backend = "postgres" /\ tx'[p].since <= clock
    BY <1>4, <1>17 DEF Connected
  <2>2. \A q \in Procs : tx[q].pending = {} /\ (tx[q].open => backend = "postgres" /\ tx[q].since <= clock)
    BY <1>4, <1>5 DEF Connected
  <2> QED BY <1>3, <1>16, <1>17, <2>1, <2>2 DEF Connected
<1>19. InTime'
  <2> SUFFICES ASSUME tx'[p].open, NEW r \in rows PROVE r.at <= tx'[p].since
    BY <1>3, <1>8 DEF InTime
  <2>1. Past /\ r.at <= clock
    BY <1>3, <1>4, <1>5 DEF Past, Log
  <2> QED BY <1>3, <1>4, <1>17, <2>1 DEF InTime
<1>20. Coming' /\ ~Committing' /\ ~Adding'
  BY <1>8 DEF Coming, Committing, Adding
<1>21. Plan'
  BY <1>6, <1>8, <1>20, WholeStays DEF Plan
<1>22. snap' # None => Whole(snap')
  BY <1>3, <1>4
<1> QED BY <1>14, <1>15, <1>18, <1>19, <1>20, <1>21, <1>22 DEF PromptInv

LEMMA InsertPrompts ==
  ASSUME PromptInv, KeptInv', NEW p \in Procs, Insert(p)
  PROVE  PromptInv'
<1>1. PICK m : m = Row(p)
  OBVIOUS
<1>2. PICK c : c = [Opened(p) EXCEPT !.pending = {m}]
  OBVIOUS
<1>3. PICK todo : todo = <<m>> \o Tail(run.todo)
  OBVIOUS
<1>4. /\ UNCHANGED <<backend, clock, rows, snap, prompt, acked>> /\ backend = "postgres"
      /\ Serving(p, "add") /\ run # None /\ run.p = p /\ run.step = "add"
      /\ tx' = [tx EXCEPT ![p] = c] /\ seq' = seq + 1
      /\ run' = [run EXCEPT !.step = "commit", !.todo = todo]
  BY <1>1, <1>2, <1>3 DEF Insert, Serving
<1>5. /\ KeptInv /\ Log /\ Dated /\ Owned /\ Connected /\ InTime /\ Plan /\ (snap # None => Whole(snap))
      /\ seq \in Nat /\ clock \in Nat /\ tx \in [Procs -> Connections] /\ Running
  BY <1>4 DEF PromptInv, KeptInv, ConversationType
<1>6. Ready(m) /\ Adding /\ m.seq = seq + 1 /\ m \in Stored /\ m.kind = Head(run.todo).kind /\ m.at = Began(p)
  BY <1>1, <1>4, <1>5, ReadyLite DEF Stamp
<1>7. /\ Len(todo) = Len(run.todo) /\ DOMAIN todo = DOMAIN run.todo /\ Head(todo) = m
      /\ \A i \in 2..Len(run.todo) : todo[i] = run.todo[i]
      /\ Len(run.todo) \in Nat \ {0} /\ DOMAIN run.todo = 1..Len(run.todo)
  <2>1. PICK S : S = Plain \cup Stored
    OBVIOUS
  <2>2. PICK s \in Seq(S) : s = run.todo /\ s # <<>> /\ Len(s) \in Nat \ {0}
    <3>1. run.todo \in Seq(S) /\ run.todo # <<>> /\ Len(run.todo) \in Nat \ {0}
      BY <1>5, <1>6, <2>1, TodoIs, Zenon
    <3>2. PICK s : s = run.todo
      OBVIOUS
    <3> QED BY <3>1, <3>2, Zenon
  <2>3. PICK t \in Seq(S) : t = Tail(s) /\ Len(t) = Len(s) - 1 /\ \A i \in 1..Len(t) : t[i] = s[i + 1]
    <3>1. Tail(s) \in Seq(S) /\ Len(Tail(s)) = Len(s) - 1
      BY <2>2, HeadTailProperties
    <3>2. \A i \in 1..Len(Tail(s)) : Tail(s)[i] = s[i + 1]
      BY <2>2, HeadTailProperties
    <3>3. PICK t : t = Tail(s)
      OBVIOUS
    <3> QED BY <3>1, <3>2, <3>3, Zenon
  <2>4. m \in S
    BY <1>6, <2>1
  <2>5. <<m>> \in Seq(S) /\ Len(<<m>>) = 1 /\ <<m>>[1] = m
    BY <2>4
  <2>6. PICK a \in Seq(S) : a = <<m>> /\ Len(a) = 1 /\ a[1] = m
    BY <2>5
  <2>7. a \o t \in Seq(S) /\ Len(a \o t) = Len(a) + Len(t)
    BY ConcatProperties
  <2>8. \A i \in 1..Len(a) + Len(t) : (a \o t)[i] = IF i <= Len(a) THEN a[i] ELSE t[i - Len(a)]
    BY ConcatProperties
  <2>9. todo = a \o t
    BY <1>3, <2>2, <2>3, <2>6
  <2>10. Len(todo) = Len(s)
    BY <2>2, <2>3, <2>6, <2>7, <2>9
  <2>11. todo[1] = m /\ \A i \in 2..Len(s) : todo[i] = s[i]
    BY <2>2, <2>3, <2>6, <2>8, <2>9
  <2>12. Head(todo) = todo[1]
    BY <2>2, <2>7, <2>9, <2>10, EmptySeq
  <2>13. DOMAIN todo = 1..Len(todo) /\ DOMAIN s = 1..Len(s)
    BY <2>7, <2>9, LenProperties
  <2> QED BY <2>2, <2>10, <2>11, <2>12, <2>13
<1>8. PICK turn : turn = run.turn
  OBVIOUS
<1>9. /\ run'.p = p /\ run'.step = "commit" /\ run'.todo = todo /\ run'.turn = turn
      /\ run'.next = run.next
  BY <1>4, <1>5, <1>8 DEF Running
<1>10. Log' /\ Dated' /\ Owned'
  BY <1>4, <1>5, LogStays
<1>11. PICK o : o = Opened(p)
  OBVIOUS
<1>12. o \in Connections /\ o.open = TRUE /\ o.since = Began(p)
  BY <1>4, <1>5, <1>11, OpenedIs
<1>13. c.open = TRUE /\ c.since = Began(p) /\ c.pending = {m}
  BY <1>2, <1>11, <1>12 DEF Connections
<1>14. tx'[p] = c /\ \A q \in Procs : q # p => tx'[q] = tx[q]
  BY <1>4, <1>5
<1>15. /\ Began(p) \in Nat /\ Began(p) <= clock
       /\ Past => \A r \in rows : r.at <= Began(p)
  <2>1. Began(p) \in Nat
    BY <1>5, ConnectionType DEF KeptInv
  <2>2. CASE tx[p].open
    BY <1>4, <1>5, <2>1, <2>2 DEF Began, Connected, InTime
  <2>3. CASE ~tx[p].open
    BY <1>5, <2>1, <2>3 DEF Began, Log
  <2> QED BY <2>1, <2>2, <2>3
<1>16. run' # None => Committing' /\ Adding'
  BY <1>9 DEF Committing, Adding
<1>17. run' # None => Connected'
  <2>1. \A q \in Procs : tx[q].pending = {} /\ (tx[q].open => tx[q].since <= clock)
    BY <1>4, <1>5 DEF Connected, Committing
  <2> QED BY <1>4, <1>7, <1>9, <1>13, <1>14, <1>15, <1>16, <2>1 DEF Connected
<1>18. Past' => Past
  BY <1>4, <1>6, <1>7, <1>9, <1>16 DEF Past, Adding
<1>19. InTime'
  BY <1>4, <1>9, <1>13, <1>14, <1>15, <1>18 DEF InTime, Past
<1>20. Coming'
  <2>1. seq' \notin acked /\ \A r \in rows : r.seq # seq'
    BY <1>4, <1>5 DEF Log
  <2>2. seq' > 0 /\ m.seq = seq' /\ m.at <= clock
    BY <1>4, <1>5, <1>6, <1>15
  <2>3. m.kind # "user" => \A r \in rows : r.at <= m.at
    <3> SUFFICES ASSUME m.kind # "user" PROVE Past
      BY <1>6, <1>15
    <3> QED BY <1>4, <1>6 DEF Past
  <2> QED BY <1>4, <1>6, <1>7, <1>9, <2>1, <2>2, <2>3 DEF Coming
<1>21. ChainsWhole'
  BY <1>9 DEF ChainsWhole
<1>22. (snap # None => Whole(snap))'
  BY <1>4, <1>5, WholeStays DEF Whole, OwnAnswers, Chained
<1>23. Plan'
  <2> SUFFICES ASSUME run' # None PROVE Plan'
    BY DEF Plan
  <2>1. turn \in Seq(Stored) /\ run'.step # "add" /\ m.seq = seq'
    BY <1>4, <1>5, <1>6, <1>8, <1>9 DEF Plan
  <2>2. CASE m.kind \in {"user", "say"} /\ Len(run.todo) = 1 /\ Whole(run.turn)
    BY <1>7, <1>8, <1>9, <1>16, <2>1, <2>2, WholeStays DEF Plan
  <2>3. CASE /\ m.kind = "call" /\ run.next = "assemble" /\ Whole(run.turn)
             /\ \A i \in 2..Len(run.todo) : run.todo[i].kind = "tool"
             /\ m.ids = {m.seq + j : j \in 1..Len(run.todo) - 1}
    <3>1. m.ids = {seq' + j : j \in 1..Len(todo) - 1} /\ \A i \in 2..Len(todo) : todo[i].kind = "tool"
      BY <1>7, <2>1, <2>3
    <3>2. Whole(turn)'
      BY <1>8, <2>3, WholeStays
    <3> QED BY <1>7, <1>9, <1>16, <2>1, <2>3, <3>1, <3>2 DEF Plan
  <2>4. CASE /\ m.kind = "tool" /\ run.next = "assemble" /\ m.ids = {m.seq}
             /\ \A i \in DOMAIN run.todo : run.todo[i].kind = "tool"
             /\ \E h \in DOMAIN run.turn : OpenChain(h) /\ m.seq = Reached(h) + 1
    <3>1. PICK h \in DOMAIN turn : OpenChain(h) /\ m.seq = Reached(h) + 1
      BY <1>8, <2>4
    <3>2. PICK len : len = Len(todo) /\ Lacks(turn, h, len)'
      <4>1. PICK len : len = Len(todo)
        OBVIOUS
      <4>2. Lacks(turn, h, len)
        BY <1>7, <1>8, <3>1, <4>1 DEF OpenChain
      <4> QED BY <4>1, <4>2, LacksStays
    <3>3. OpenChain(h)' /\ Reached(h)' = Reached(h)
      BY <1>4, <1>8, <1>9, <3>1, <3>2 DEF OpenChain, Reached
    <3>4. seq' = Reached(h)' + 1
      BY <2>1, <3>1, <3>3
    <3>5. \A i \in DOMAIN todo : todo[i].kind = "tool"
      <4> SUFFICES ASSUME NEW i \in 1..Len(run.todo) PROVE todo[i].kind = "tool"
        BY <1>7
      <4>1. CASE i \in 2..Len(run.todo)
        BY <1>7, <2>4, <4>1
      <4>2. CASE i = 1
        BY <1>7, <2>4, <4>2
      <4> QED BY <1>7, <4>1, <4>2
    <3>6. m.ids = {seq'}
      BY <2>1, <2>4
    <3> QED BY <1>7, <1>9, <1>16, <2>1, <2>4, <3>1, <3>3, <3>4, <3>5, <3>6 DEF Plan
  <2> QED BY <1>6, <2>2, <2>3, <2>4 DEF Ready
<1>24. run' # None
  <2>1. turn \in Seq(Stored) /\ run.p \in Procs /\ run.next \in {"assemble", "end", "suspend"} /\ run.turn = turn
    <3>1. turn \in Seq(Stored)
      BY <1>4, <1>5, <1>8 DEF Plan
    <3> QED BY <1>5, <1>8, <3>1 DEF Running
  <2>2. todo \in Seq(Plain \cup Stored)
    <3>1. Tail(run.todo) \in Seq(Plain \cup Stored)
      BY <1>5, <1>6, TodoIs, HeadTailProperties
    <3>2. <<m>> \in Seq(Plain \cup Stored)
      BY <1>6
    <3> QED BY <1>3, <3>1, <3>2, ConcatProperties
  <2>3. run' = [p |-> run.p, step |-> "commit", turn |-> turn, todo |-> todo, next |-> run.next]
    BY <1>4, <1>5, <2>1 DEF Running
  <2>4. run' \in Turns
    BY <2>1, <2>2, <2>3 DEF Turns
  <2> QED BY <2>4, NoneAssumption
<1> QED BY <1>10, <1>17, <1>19, <1>20, <1>21, <1>22, <1>23, <1>24 DEF PromptInv

LEMMA PromptsInit == Init => PromptInv
<1> SUFFICES ASSUME Init PROVE PromptInv
  OBVIOUS
<1>1. rows = {} /\ acked = {} /\ run = None /\ snap = None /\ tx = [q \in Procs |-> Quiet]
  BY DEF Init
<1>2. Log /\ Dated /\ Owned
  BY <1>1, FS_EmptySet DEF Log, Dated, Owned
<1>3. Connected
  BY <1>1 DEF Connected, Quiet
<1>4. InTime /\ Coming /\ Plan /\ ChainsWhole
  BY <1>1 DEF InTime, Past, Coming, Committing, Plan, ChainsWhole
<1> QED BY <1>1, <1>2, <1>3, <1>4, KeptInit DEF PromptInv

LEMMA PromptsStep == PromptInv /\ [Next]_vars => PromptInv'
<1> SUFFICES ASSUME PromptInv, [Next]_vars PROVE PromptInv'
  OBVIOUS
<1>1. KeptInv'
  BY KeptStep DEF PromptInv
<1>2. ASSUME NEW p \in Procs, Begin(p) \/ Resume(p) \/ Act(p) \/ Answer(p) \/ Ask(p) PROVE PromptInv'
  BY <1>1, <1>2, WritePrompts
<1>3. ASSUME NEW p \in Procs, Hint(p) \/ GiveUp(p) \/ Refused(p) PROVE PromptInv'
  BY <1>1, <1>3, EndPrompts
<1>4. ASSUME NEW p \in Procs,
             AddLite(p) \/ Insert(p) \/ Commit(p) \/ Assemble(p) \/ ClearSession(p) \/ Crash(p)
      PROVE  PromptInv'
  BY <1>1, <1>4, AddLitePrompts, InsertPrompts, CommitPrompts, AssemblePrompts, ClearPrompts, CrashPrompts
<1>5. CASE Tick \/ (\E p \in Procs : OtherRead(p) \/ OtherWrite(p) \/ Fault(p)) \/ UNCHANGED vars
  BY <1>1, <1>5, BesideStep
<1> QED BY <1>2, <1>3, <1>4, <1>5 DEF Next

(* Whatever turns, crashes, faults and other sessions do, a prompt the model   *)
(* decides on has every result of its calls, each behind a call that asked for *)
(* it; only a result whose own call was lost to a failing statement may follow *)
(* another call's (trim_conversation_history over get_recent, and the running  *)
(* turn that assemble_messages adds).                                          *)
THEOREM ChainsWholeCorrect == Spec => []ChainsWhole
<1>1. PromptInv => ChainsWhole
  BY DEF PromptInv
<1> QED BY PromptsInit, PromptsStep, <1>1, PTL DEF Spec

-------------------------------------------------------------------------------
(* What a list of messages costs.                                              *)
LEMMA TotalEmpty == Total(<<>>) = 0
<1>1. <<>> \in Seq(Stored) /\ Len(<<>>) = 0
  BY EmptySeq
<1> QED BY <1>1, TotalIs

LEMMA TotalType == ASSUME NEW ms \in Seq(Stored) PROVE Total(ms) \in Nat
<1>1. PICK f \in [0..Len(ms) -> Nat] : Total(ms) = f[Len(ms)]
  BY TotalIs
<1> QED BY <1>1, LenProperties

(* The budget of two groups is the sum of theirs.                              *)
LEMMA TotalConcat ==
  ASSUME NEW a \in Seq(Stored), NEW b \in Seq(Stored)
  PROVE  Total(a \o b) = Total(a) + Total(b)
<1>1. PICK c \in Seq(Stored) : c = a \o b /\ Len(c) = Len(a) + Len(b)
  BY ConcatProperties
<1>2. PICK k \in Nat, l \in Nat : k = Len(a) /\ l = Len(b) /\ Len(c) = k + l
  BY <1>1, LenProperties
<1>3. \A i \in 1..k + l : c[i] = IF i <= k THEN a[i] ELSE b[i - k]
  BY <1>1, <1>2, ConcatProperties
<1>4. PICK fa \in [0..k -> Nat] : fa[0] = 0 /\ Total(a) = fa[k] /\ \A i \in 1..k : fa[i] = fa[i - 1] + Tokens(a[i])
  BY <1>2, TotalIs
<1>5. PICK fb \in [0..l -> Nat] : fb[0] = 0 /\ Total(b) = fb[l] /\ \A i \in 1..l : fb[i] = fb[i - 1] + Tokens(b[i])
  BY <1>2, TotalIs
<1>6. PICK fc \in [0..k + l -> Nat] :
        fc[0] = 0 /\ Total(c) = fc[k + l] /\ \A i \in 1..k + l : fc[i] = fc[i - 1] + Tokens(c[i])
  <2>1. PICK f \in [0..Len(c) -> Nat] :
          f[0] = 0 /\ Total(c) = f[Len(c)] /\ \A i \in 1..Len(c) : f[i] = f[i - 1] + Tokens(c[i])
    BY TotalIs
  <2>2. Len(c) = k + l
    BY <1>2
  <2> QED BY <2>1, <2>2, Zenon
<1>7. \A i \in Nat : i <= k => fc[i] = fa[i]
  <2> DEFINE T == {i \in Nat : i <= k => fc[i] = fa[i]}
  <2>1. 0 \in T
    BY <1>4, <1>6
  <2>2. ASSUME NEW i \in Nat, i \in T PROVE i + 1 \in T
    <3> SUFFICES ASSUME i + 1 <= k PROVE fc[i + 1] = fa[i + 1]
      OBVIOUS
    <3>1. i + 1 \in 1..k /\ i + 1 \in 1..k + l /\ (i + 1) - 1 = i /\ fc[i] = fa[i] /\ c[i + 1] = a[i + 1]
      BY <1>3, <2>2
    <3> QED BY <1>4, <1>6, <3>1
  <2> HIDE DEF T
  <2>3. Nat \subseteq T
    BY <2>1, <2>2, Inductive
  <2> QED BY <2>3 DEF T
<1>8. \A i \in Nat : i <= l => fc[k + i] = fa[k] + fb[i]
  <2> DEFINE T == {i \in Nat : i <= l => fc[k + i] = fa[k] + fb[i]}
  <2>1. fa[k] \in Nat /\ \A i \in 0..l : fb[i] \in Nat
    BY <1>4, <1>5
  <2>2. 0 \in T
    BY <1>5, <1>7, <2>1
  <2>3. ASSUME NEW i \in Nat, i \in T PROVE i + 1 \in T
    <3> SUFFICES ASSUME i + 1 <= l PROVE fc[k + (i + 1)] = fa[k] + fb[i + 1]
      OBVIOUS
    <3>1. /\ i + 1 \in 1..l /\ k + (i + 1) \in 1..k + l /\ (k + (i + 1)) - 1 = k + i
          /\ ~(k + (i + 1) <= k) /\ (k + (i + 1)) - k = i + 1 /\ (i + 1) - 1 = i
      OBVIOUS
    <3>2. c[k + (i + 1)] = b[i + 1]
      BY <1>3, <3>1
    <3>3. fc[k + i] = fa[k] + fb[i] /\ fb[i] \in Nat
      BY <2>1, <2>3
    <3>4. fc[k + (i + 1)] = fc[k + i] + Tokens(b[i + 1]) /\ fb[i + 1] = fb[i] + Tokens(b[i + 1])
      BY <1>5, <1>6, <3>1, <3>2
    <3>5. Tokens(b[i + 1]) \in Nat
      BY <1>2, <3>1, ElementOfSeq, TokensType
    <3>6. \A x, y, t \in Nat : (x + y) + t = x + (y + t)
      OBVIOUS
    <3>7. (fa[k] + fb[i]) + Tokens(b[i + 1]) = fa[k] + (fb[i] + Tokens(b[i + 1]))
      <4>1. PICK x \in Nat, y \in Nat, t \in Nat : x = fa[k] /\ y = fb[i] /\ t = Tokens(b[i + 1])
        BY <2>1, <3>3, <3>5
      <4> QED BY <3>6, <4>1
    <3> QED BY <3>3, <3>4, <3>7
  <2> HIDE DEF T
  <2>4. Nat \subseteq T
    BY <2>2, <2>3, Inductive
  <2> QED BY <2>4 DEF T
<1>9. fc[k + l] = fa[k] + fb[l]
  BY <1>8
<1> QED BY <1>1, <1>4, <1>5, <1>6, <1>9

(* The ends of a history.                                                      *)
LEMMA EndsIs ==
  ASSUME NEW ms \in Seq(Stored)
  PROVE  /\ Ends(ms) \in [0..Len(ms) -> Seq(Stored)] /\ Ends(ms)[0] = <<>>
         /\ \A j \in 1..Len(ms) :
              LET h == Len(ms) - j + 1
              IN  Ends(ms)[j] = IF h \in Heads(ms) /\ Fits(Group(ms, h)) THEN Group(ms, h) \o Ends(ms)[j - 1]
                                                                          ELSE Ends(ms)[j - 1]
<1> DEFINE V == Seq(Stored)
<1> DEFINE Longer(j, e) ==
      IF Len(ms) - j + 1 \in Heads(ms) /\ Fits(Group(ms, Len(ms) - j + 1))
        THEN Group(ms, Len(ms) - j + 1) \o e ELSE e
<1>1. PICK len \in Nat : len = Len(ms) /\ DOMAIN ms = 1..len
  BY LenProperties
<1>2. <<>> \in V
  BY EmptySeq
<1>3. ASSUME NEW j \in 1..len, NEW e \in V PROVE Longer(j, e) \in V
  <2>1. len - j + 1 \in DOMAIN ms
    BY <1>1
  <2>2. Group(ms, Len(ms) - j + 1) \in V
    BY <1>1, <2>1, GroupIs
  <2> QED BY <2>2, ConcatProperties
<1> DEFINE step == [x \in (1..len) \X V |-> Longer(x[1], x[2])]
<1> HIDE DEF Longer, V
<1>4. PICK st \in Steps(V, len) : st = step
  <2>1. step \in Steps(V, len)
    BY <1>3 DEF Steps
  <2> QED BY <2>1
<1>5. PICK f : IsIterate(f, V, <<>>, len, st)
  BY <1>2, Iterates
<1>6. ASSUME NEW j \in 1..len PROVE f[j] = Longer(j, f[j - 1]) /\ f[j] \in V
  <2>1. j - 1 \in 0..len /\ j \in 0..len
    OBVIOUS
  <2>2. f[j] = st[<<j, f[j - 1]>>] /\ f[j - 1] \in V /\ f[j] \in V
    BY <1>5, <2>1 DEF IsIterate
  <2> QED BY <1>4, <2>2
<1>7. f = [j \in 0..len |-> IF j = 0 THEN <<>> ELSE Longer(j, f[j - 1])]
  BY <1>5, <1>6 DEF IsIterate
<1> DEFINE ends == CHOOSE g : g = [j \in 0..len |-> IF j = 0 THEN <<>> ELSE Longer(j, g[j - 1])]
<1>8. ends = [j \in 0..len |-> IF j = 0 THEN <<>> ELSE Longer(j, ends[j - 1])]
  BY <1>7
<1>9. Ends(ms) = ends
  BY <1>1 DEF Ends, Longer
<1> HIDE DEF ends
<1>10. ends[0] = <<>> /\ \A j \in 1..len : ends[j] = Longer(j, ends[j - 1])
  <2>1. 0 \in 0..len /\ \A j \in 1..len : j \in 0..len /\ j # 0
    OBVIOUS
  <2> QED BY <1>8, <2>1
<1>11. \A k \in Nat : k <= len => ends[k] \in V
  <2> DEFINE T == {k \in Nat : k <= len => ends[k] \in V}
  <2>1. 0 \in T
    BY <1>2, <1>10
  <2>2. ASSUME NEW k \in Nat, k \in T PROVE k + 1 \in T
    <3> SUFFICES ASSUME k + 1 <= len PROVE ends[k + 1] \in V
      OBVIOUS
    <3>1. k + 1 \in 1..len /\ (k + 1) - 1 = k /\ ends[k] \in V
      BY <2>2
    <3> QED BY <1>3, <1>10, <3>1
  <2> HIDE DEF T
  <2>3. Nat \subseteq T
    BY <2>1, <2>2, Inductive
  <2> QED BY <2>3 DEF T
<1>12. ends \in [0..len -> V]
  <2>1. \A j \in 0..len : ends[j] \in V
    BY <1>11
  <2> QED BY <1>8, <2>1
<1> QED BY <1>1, <1>9, <1>10, <1>12 DEF Longer, V

(* After the groups at the last j positions: what is kept is an end of the     *)
(* history, and the ends since are over the budget or no longer.               *)
Kept(ms, j, k) ==
  /\ Trimmed(ms)[j].kept = Ends(ms)[k]
  /\ Total(Ends(ms)[k]) <= Budget /\ Trimmed(ms)[j].left = Budget - Total(Ends(ms)[k])
  /\ \A i \in k..j : Ends(ms)[i] = Ends(ms)[k] \/ Total(Ends(ms)[i]) > Budget
  /\ IF Trimmed(ms)[j].full THEN Total(Ends(ms)[j]) > Budget ELSE Ends(ms)[j] = Ends(ms)[k]

(* What the loop keeps ends where Newest says: by induction over its turns.    *)
LEMMA TrimIsNewest ==
  ASSUME NEW ms \in Seq(Stored), Budget > 0
  PROVE  Newest(ms, Trim(ms))
<1> DEFINE T == {j \in Nat : j <= Len(ms) => \E k \in 0..j : Kept(ms, j, k)}
<1>1. Len(ms) \in Nat /\ Budget \in Int
  BY LenProperties, ConversationAssumption
<1>2. 0 \in T
  <2>1. Trimmed(ms)[0] = Nothing /\ Ends(ms)[0] = <<>> /\ Total(<<>>) = 0
    BY TrimmedIs, EndsIs, TotalEmpty
  <2>2. Kept(ms, 0, 0)
    BY <1>1, <2>1 DEF Kept, Nothing
  <2> QED BY <2>2
<1>3. ASSUME NEW j \in Nat, j \in T PROVE j + 1 \in T
  <2> SUFFICES ASSUME j + 1 <= Len(ms) PROVE \E k \in 0..j + 1 : Kept(ms, j + 1, k)
    OBVIOUS
  <2>1. PICK k \in 0..j : Kept(ms, j, k)
    BY <1>1, <1>3
  <2>2. PICK h : h = Len(ms) - (j + 1) + 1
    OBVIOUS
  <2>3. j + 1 \in 1..Len(ms) /\ (j + 1) - 1 = j /\ {j, k} \subseteq 0..Len(ms) /\ h \in DOMAIN ms
    BY <1>1, <2>2, LenProperties
  <2>4. PICK a \in Acc : a = Trimmed(ms)[j]
    BY <2>3, TrimmedIs
  <2>5. PICK b : b = Trimmed(ms)[j + 1]
    OBVIOUS
  <2>6. PICK e \in Seq(Stored) : e = Ends(ms)[k]
    BY <2>3, EndsIs
  <2>7. PICK d \in Seq(Stored) : d = Ends(ms)[j]
    BY <2>3, EndsIs
  <2>8. PICK c : c = Ends(ms)[j + 1]
    OBVIOUS
  <2>9. PICK g \in Seq(Stored) : g = Group(ms, h)
    BY <2>3, GroupIs
  <2>10. b = KeepComplete(ms, h, a)
    BY <2>2, <2>3, <2>4, <2>5, TrimmedIs
  <2>11. c = IF h \in Heads(ms) /\ Fits(g) THEN g \o d ELSE d
    BY <2>2, <2>3, <2>7, <2>8, <2>9, EndsIs
  <2>12. /\ a.kept = e /\ Total(e) <= Budget /\ a.left = Budget - Total(e)
         /\ \A i \in k..j : Ends(ms)[i] = e \/ Total(Ends(ms)[i]) > Budget
         /\ IF a.full THEN Total(d) > Budget ELSE d = e
    BY <2>1, <2>4, <2>6, <2>7 DEF Kept
  <2>13. Total(e) \in Nat /\ Total(d) \in Nat /\ Total(g) \in Nat /\ a.full \in BOOLEAN
    BY TotalType DEF Acc
  <2>14. Total(g \o d) = Total(g) + Total(d) /\ Total(g \o e) = Total(g) + Total(e)
    BY TotalConcat
  <2>15. ASSUME b.kept = e, b.left = a.left, c = e \/ Total(c) > Budget, IF b.full THEN Total(c) > Budget ELSE c = e
         PROVE  Kept(ms, j + 1, k)
    <3>1. \A i \in k..j + 1 : i \in k..j \/ i = j + 1
      OBVIOUS
    <3>2. \A i \in k..j + 1 : Ends(ms)[i] = e \/ Total(Ends(ms)[i]) > Budget
      BY <2>8, <2>12, <2>15, <3>1
    <3> QED BY <2>5, <2>6, <2>8, <2>12, <2>15, <3>2 DEF Kept
  <2>16. CASE ~(h \in Heads(ms) /\ Complete(g))
    <3>1. b = a /\ c = d
      BY <2>9, <2>10, <2>11, <2>16 DEF KeepComplete, Fits
    <3> QED BY <2>12, <2>15, <3>1
  <2>17. CASE h \in Heads(ms) /\ Complete(g)
    <3>1. b = Keep(g, a) /\ c = IF Total(g) <= Budget THEN g \o d ELSE d
      BY <2>9, <2>10, <2>11, <2>17 DEF KeepComplete, Fits
    <3>2. CASE a.full
      <4>1. b = a /\ Total(c) > Budget
        BY <1>1, <2>12, <2>13, <2>14, <3>1, <3>2, KeepIs
      <4> QED BY <2>12, <2>15, <3>2, <4>1
    <3>3. CASE ~a.full /\ Total(g) <= a.left
      <4>1. b.kept = g \o e /\ b.left = a.left - Total(g) /\ ~b.full
        BY <2>12, <3>1, <3>3, KeepIs
      <4>2. Total(g) <= Budget /\ d = e
        BY <1>1, <2>12, <2>13, <3>3
      <4>3. c = g \o e
        BY <3>1, <4>2
      <4>4. Total(c) <= Budget /\ b.left = Budget - Total(c)
        BY <1>1, <2>12, <2>13, <2>14, <3>3, <4>1, <4>3
      <4>5. Kept(ms, j + 1, j + 1)
        <5>1. \A i \in j + 1..j + 1 : i = j + 1
          OBVIOUS
        <5> QED BY <2>5, <2>8, <4>1, <4>3, <4>4, <5>1 DEF Kept
      <4> QED BY <4>5
    <3>4. CASE ~a.full /\ ~(Total(g) <= a.left)
      <4>1. b.kept = e /\ b.left = a.left /\ (b.full <=> Total(g) <= Budget)
        BY <2>12, <3>1, <3>4, KeepIs
      <4>2. d = e
        BY <2>12, <3>4
      <4>3. CASE Total(g) <= Budget
        <5>1. c = g \o e
          BY <3>1, <4>2, <4>3
        <5>2. Total(c) > Budget
          BY <1>1, <2>12, <2>13, <2>14, <3>4, <5>1
        <5> QED BY <2>15, <4>1, <4>3, <5>2
      <4>4. CASE ~(Total(g) <= Budget)
        BY <2>15, <3>1, <4>1, <4>2, <4>4
      <4> QED BY <4>3, <4>4
    <3> QED BY <3>2, <3>3, <3>4
  <2> QED BY <2>16, <2>17
<1> HIDE DEF T
<1>4. Nat \subseteq T
  BY <1>2, <1>3, Inductive
<1>5. PICK j \in 0..Len(ms) : Kept(ms, Len(ms), j)
  BY <1>1, <1>4 DEF T
<1>6. Trim(ms) = Trimmed(ms)[Len(ms)].kept
  BY <1>1 DEF Trim
<1> QED BY <1>5, <1>6 DEF Kept, Newest

(* The history of a prompt is what trimming makes of what was recalled.        *)
Histories == prompt = NoPrompt \/ (prompt.prior \in Seq(Stored) /\ prompt.kept = Trim(prompt.prior))

LEMMA HistoriesStep == PromptInv /\ Histories /\ [Next]_vars => Histories'
<1> SUFFICES ASSUME PromptInv, Histories, [Next]_vars PROVE Histories'
  OBVIOUS
<1>1. ASSUME NEW p \in Procs, Assemble(p) PROVE Histories'
  <2>1. PICK turn : turn = run.turn
    OBVIOUS
  <2>2. PICK prior : prior = Strip(Recent(p), turn)
    OBVIOUS
  <2>3. /\ prompt' = [prior |-> prior, kept |-> Trim(prior)] /\ run # None /\ run.step = "assemble"
    BY <1>1, <2>1, <2>2 DEF Assemble, Serving
  <2>4. Log /\ tx[p].pending = {} /\ turn \in Seq(Stored)
    BY <2>1, <2>3 DEF PromptInv, Connected, Committing, Plan
  <2>5. prior \in Seq(Stored)
    BY <2>2, <2>4, PriorIs
  <2>6. prompt'.prior = prior /\ prompt'.kept = Trim(prior)
    BY <2>3
  <2> QED BY <2>5, <2>6 DEF Histories
<1>2. CASE UNCHANGED prompt
  BY <1>2 DEF Histories, Trim, Trimmed
<1>3. CASE prompt' = NoPrompt
  BY <1>3 DEF Histories
<1> QED BY <1>1, <1>2, <1>3 DEF Next, vars, Tick, Begin, Resume, AddLite, Insert, Commit, Refused, Act, Answer,
     Ask, Hint, GiveUp, OtherRead, OtherWrite, Fault, ClearSession, Crash, Raise

(* The history of a prompt is the longest end of the conversation that the     *)
(* budget admits, complete groups only and without those that could never fit  *)
(* (trim_conversation_history).                                                *)
THEOREM TrimNewestCorrect == Spec => []TrimNewest
<1>1. Init => Histories
  BY DEF Init, Histories
<1>2. Histories => TrimNewest
  <2> SUFFICES ASSUME Histories PROVE TrimNewest
    OBVIOUS
  <2>1. Trim(<<>>) = <<>>
    <3>1. <<>> \in Seq(Stored) /\ Len(<<>>) = 0
      BY EmptySeq
    <3>2. Trimmed(<<>>)[0] = Nothing
      BY <3>1, TrimmedIs
    <3> QED BY <3>1, <3>2 DEF Trim, Nothing
  <2>2. prompt.prior \in Seq(Stored) /\ prompt.kept = Trim(prompt.prior)
    <3>1. NoPrompt.prior = <<>> /\ NoPrompt.kept = <<>>
      BY DEF NoPrompt
    <3>2. <<>> \in Seq(Stored)
      BY EmptySeq
    <3> QED BY <2>1, <3>1, <3>2 DEF Histories
  <2>3. PICK ms \in Seq(Stored) : ms = prompt.prior /\ prompt.kept = Trim(ms)
    BY <2>2
  <2> QED BY <2>3, TrimIsNewest, ConversationAssumption DEF TrimNewest, Trim
<1> QED BY <1>1, <1>2, PromptsInit, PromptsStep, HistoriesStep, PTL DEF Spec
================================================================================
