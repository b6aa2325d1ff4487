---------------------------- MODULE AgentRunProofs ----------------------------
(* Theorems of AgentRun for any number of requests, any playbook, any bound  *)
(* on rounds, rejects and parse errors, and any number of incidents.         *)
EXTENDS AgentRun, SequenceTheorems, TLAPS

-------------------------------------------------------------------------------
(* Types.                                                                    *)

(* A loop that goes on has spent neither its parse retries nor its rejects.  *)
Live(x) == x.parse < ParseLimit /\ \A c \in Codes : x.rejects[c] < FuseLimit
InRound == {"decide", "exec", "ask", "hold", "finish"}

(* What the types of the loop rest on: counters below their limits wherever  *)
(* a loop may go on, in a request, in the record and in a record read.       *)
Shape ==
  /\ \A r \in Reqs : pc[r] \in Driving => Live(loop[r])
  /\ \A r \in Reqs : pc[r] \in InRound => loop[r].rounds >= 1
  /\ \A r \in Reqs : pc[r] = "exec" => todo[r] # <<>>
  /\ rec.awaiting # None => Live(rec.awaiting.loop)
  /\ \A r \in Reqs : mine[r].awaiting # None => Live(mine[r].awaiting.loop)
  /\ \A r \in Reqs : pc[r] = "reply" => mine[r].awaiting # None

LEMMA GotoType ==
  ASSUME TypeInv, NEW r \in Reqs, NEW l \in Labels, Goto(r, l)
  PROVE  /\ pc' \in [Reqs -> Labels] /\ pc'[r] = l
         /\ \A s \in Reqs : s # r => pc'[s] = pc[s]
BY DEF Goto, TypeInv

LEMMA CountType ==
  ASSUME TypeInv, NEW k \in Kinds, Count(k)
  PROVE  n' \in [Kinds -> Nat]
BY DEF Count, TypeInv

LEMMA NewLoopType ==
  ASSUME NEW r \in Reqs, NEW q \in Questions \cup {None}
  PROVE  NewLoop(r, q) \in Loops /\ Live(NewLoop(r, q))
BY AgentAssumption DEF NewLoop, Loops, Live

LEMMA FreshType == FreshRecord \in Records /\ FreshRecord.awaiting = None
BY DEF FreshRecord, Records

(* The question of a request in its round is well formed.                    *)
LEMMA QuestionType ==
  ASSUME TypeInv, NEW r \in Reqs, loop[r].rounds >= 1
  PROVE  QuestionOf(r) \in Questions
<1>1. loop[r].rounds \in 1..MaxRounds /\ loop[r].run \in Reqs /\ kind[r] \in WaitKinds
  BY AgentAssumption DEF TypeInv, Loops
<1> QED BY <1>1 DEF QuestionOf, Questions

LEMMA CloseType ==
  ASSUME NEW x \in Records
  PROVE  /\ Close(x) \in Records /\ Close(x).awaiting = None
         /\ Close(x).status = "idle" /\ Close(x).active = None
         /\ Close(x).pending = x.pending
BY DEF Close, Records

LEMMA KeyType ==
  ASSUME NEW q \in Questions \cup {None}
  PROVE  KeyOf(q) \in Questions \cup {None}
BY DEF KeyOf

(* The loop that a reply goes on with.                                       *)
LEMMA ReplyLoop ==
  ASSUME NEW s \in Snapshots, Live(s.loop),
         NEW x, x = [s.loop EXCEPT !.key = IF s.q.kind = "await_confirm" THEN s.q ELSE @]
  PROVE  /\ x \in Loops /\ Live(x) /\ s.q \in Questions
         /\ x.run = s.loop.run /\ x.done = s.loop.done
         /\ x.key \in {s.loop.key, s.q}
BY DEF Snapshots, Loops, Live

LEMMA TypeInit == Init => TypeInv /\ Shape
<1> SUFFICES ASSUME Init PROVE TypeInv /\ Shape
  OBVIOUS
<1>1. \A r \in Reqs : loop[r] \in Loops
  BY NewLoopType DEF Init
<1>2. loop \in [Reqs -> Loops]
  BY <1>1 DEF Init
<1>3. pc \in [Reqs -> Labels] /\ \A r \in Reqs : pc[r] = "new"
  BY DEF Init, Labels
<1>4. rec \in Records /\ mine \in [Reqs -> Records]
  BY FreshType DEF Init
<1>5. TypeInv
  BY <1>2, <1>3, <1>4, AgentAssumption DEF Init, TypeInv, WaitKinds
<1>6. Shape
  BY <1>3, FreshType DEF Init, Shape, Driving, InRound
<1> QED BY <1>5, <1>6

(* What a step that only moves one request needs to show.                    *)
LEMMA MoveType ==
  ASSUME TypeInv, Shape, NEW r \in Reqs, NEW l \in Labels, Goto(r, l),
         UNCHANGED <<rec, mine, loop, todo>>,
         l \in Driving => Live(loop[r]),
         l \in InRound => loop[r].rounds >= 1,
         l # "exec", l # "reply"
  PROVE  Shape' /\ pc' \in [Reqs -> Labels]
BY GotoType DEF Shape

LEMMA Labelled ==
  /\ {"new", "lock", "open", "reply", "loop", "decide", "exec", "ask", "hold", "finish", "unlock", "release", "done"} = Labels
  /\ Driving = InRound \cup {"loop"}
  /\ \A l \in {"new", "lock", "open", "reply", "unlock", "release", "done"} : l \notin Driving /\ l \notin InRound /\ l # "exec"
  /\ "loop" \notin InRound
BY DEF Labels, Driving, InRound

(* The entries keep the types.                                               *)
LEMMA TypeEntry ==
  ASSUME TypeInv, Shape, NEW r \in Reqs
  PROVE  /\ Send(r) => TypeInv' /\ Shape'
         /\ Acquire(r) \/ GiveUp(r) \/ Unlock(r) \/ Release(r) => TypeInv' /\ Shape'
<1>1. ASSUME NEW p \in Profiles, SendRun(r, p) PROVE TypeInv' /\ Shape'
  <2>1. Shape' /\ pc' \in [Reqs -> Labels]
    BY <1>1, MoveType, Labelled DEF SendRun
  <2>2. req' \in [Reqs -> Begins \cup Resumes \cup {None}]
    BY <1>1, AgentAssumption DEF SendRun, TypeInv, Begins
  <2> QED BY <1>1, <2>1, <2>2 DEF SendRun, TypeInv
<1>2. ASSUME NEW run \in Reqs \cup {None}, NEW q \in Questions \cup {None}, SendResume(r, run, q)
      PROVE  TypeInv' /\ Shape'
  <2>1. Shape' /\ pc' \in [Reqs -> Labels]
    BY <1>2, MoveType, Labelled DEF SendResume
  <2>2. req' \in [Reqs -> Begins \cup Resumes \cup {None}]
    BY <1>2 DEF SendResume, TypeInv, Resumes
  <2> QED BY <1>2, <2>1, <2>2 DEF SendResume, TypeInv
<1>3. ASSUME Send(r) PROVE TypeInv' /\ Shape'
  <2>1. Shown \subseteq Questions /\ \A q \in Shown : q.run \in Reqs
    BY DEF Shown, TypeInv, Questions
  <2> QED BY <1>1, <1>2, <1>3, <2>1 DEF Send
<1>4. ASSUME Acquire(r) \/ GiveUp(r) \/ Release(r) PROVE TypeInv' /\ Shape'
  <2>1. Shape' /\ pc' \in [Reqs -> Labels]
    BY <1>4, MoveType, Labelled DEF Acquire, GiveUp, Release, local
  <2> QED BY <1>4, <2>1 DEF Acquire, GiveUp, Release, TypeInv, local, hist
<1>5. ASSUME Unlock(r) PROVE TypeInv' /\ Shape'
  <2>1. /\ mine' \in [Reqs -> Records] /\ loop' \in [Reqs -> Loops]
        /\ todo' \in [Reqs -> Seq(Tools)] /\ kind' \in [Reqs -> WaitKinds]
    BY <1>5, FreshType, NewLoopType DEF Unlock, Forget, TypeInv, WaitKinds
  <2>2. pc' \in [Reqs -> Labels] /\ pc'[r] \in {"release", "done"} /\ \A s \in Reqs : s # r => pc'[s] = pc[s]
    BY <1>5, GotoType, Labelled DEF Unlock
  <2>3. Shape'
    BY <1>5, <2>2, FreshType, Labelled DEF Unlock, Forget, TypeInv, Shape
  <2> QED BY <1>5, <2>1, <2>2, <2>3 DEF Unlock, TypeInv, hist
<1> QED BY <1>3, <1>4, <1>5

(* So does the way into the loop.                                            *)
LEMMA TypeOpen ==
  ASSUME TypeInv, Shape, NEW r \in Reqs, Refuse(r) \/ Open(r) \/ Reopen(r) \/ Reply(r)
  PROVE  TypeInv' /\ Shape'
<1>1. CASE Refuse(r)
  <2>1. Shape' /\ pc' \in [Reqs -> Labels]
    BY <1>1, MoveType, Labelled DEF Refuse, local
  <2> QED BY <1>1, <2>1 DEF Refuse, TypeInv, local, hist
<1>2. CASE Open(r)
  <2>1. Carried(r) \in Questions \cup {None}
    BY DEF Carried, TypeInv, Records
  <2>2. NewLoop(r, KeyOf(Carried(r))) \in Loops /\ Live(NewLoop(r, KeyOf(Carried(r))))
    BY <2>1, KeyType, NewLoopType
  <2>3. loop' \in [Reqs -> Loops] /\ took' \in [Reqs -> Questions \cup {None}]
    BY <1>2, <2>1, <2>2 DEF Open, TypeInv
  <2>4. rec' \in Records /\ rec'.awaiting = None
    BY <1>2 DEF Open, TypeInv, Records
  <2>5. pc' \in [Reqs -> Labels] /\ pc'[r] = "loop" /\ \A s \in Reqs : s # r => pc'[s] = pc[s]
    BY <1>2, GotoType, Labelled DEF Open
  <2>6. Shape'
    BY <1>2, <2>2, <2>4, <2>5, Labelled DEF Open, TypeInv, Shape
  <2> QED BY <1>2, <2>3, <2>4, <2>5, <2>6 DEF Open, TypeInv
<1>3. CASE Reopen(r)
  <2>1. CASE Resumable(r)
    <3>1. pc' \in [Reqs -> Labels] /\ pc'[r] = "reply" /\ \A s \in Reqs : s # r => pc'[s] = pc[s]
      BY <1>3, <2>1, GotoType, Labelled DEF Reopen
    <3>2. mine' \in [Reqs -> Records]
      BY <1>3, <2>1 DEF Reopen, TypeInv
    <3>3. "reply" \notin Driving /\ "reply" \notin InRound /\ "reply" # "exec"
      BY Labelled
    <3>4. /\ rec.awaiting # None /\ mine'[r] = rec /\ \A s \in Reqs : s # r => mine'[s] = mine[s]
          /\ UNCHANGED <<rec, loop, todo>>
      BY <1>3, <2>1 DEF Reopen, Resumable, TypeInv
    <3>5. Shape'
      BY <3>1, <3>3, <3>4 DEF Shape
    <3> QED BY <1>3, <3>1, <3>2, <3>5 DEF Reopen, TypeInv, hist
  <2>2. CASE ~Resumable(r)
    <3>1. Shape' /\ pc' \in [Reqs -> Labels]
      BY <1>3, <2>2, MoveType, Labelled DEF Reopen
    <3> QED BY <1>3, <2>2, <3>1 DEF Reopen, TypeInv, hist
  <2> QED BY <2>1, <2>2
<1>4. CASE Reply(r)
  <2> DEFINE snap == mine[r].awaiting
  <2>1. snap \in Snapshots /\ Live(snap.loop) /\ mine[r] \in Records
    BY <1>4 DEF Reply, Shape, TypeInv, Records
  <2>2. loop'[r] \in Loops /\ Live(loop'[r]) /\ snap.q \in Questions
    <3>1. loop'[r] = [snap.loop EXCEPT !.key = IF snap.q.kind = "await_confirm" THEN snap.q ELSE @]
      BY <1>4 DEF Reply, TypeInv
    <3> QED BY <2>1, <3>1, ReplyLoop
  <2>3. loop' \in [Reqs -> Loops] /\ took' \in [Reqs -> Questions \cup {None}]
        /\ \A s \in Reqs : s # r => loop'[s] = loop[s]
    BY <1>4, <2>2 DEF Reply, TypeInv
  <2>4. rec' \in Records /\ rec'.awaiting = None
    BY <1>4, <2>1 DEF Reply, Records
  <2>5. pc' \in [Reqs -> Labels] /\ pc'[r] = "loop" /\ \A s \in Reqs : s # r => pc'[s] = pc[s]
    BY <1>4, GotoType, Labelled DEF Reply
  <2>6. Shape'
    BY <1>4, <2>2, <2>3, <2>4, <2>5, Labelled DEF Reply, Shape
  <2> QED BY <1>4, <2>3, <2>4, <2>5, <2>6 DEF Reply, TypeInv
<1> QED BY <1>1, <1>2, <1>3, <1>4

(* The loop after each of its counters counts.                               *)
LEMMA CountRound ==
  ASSUME NEW x \in Loops, Live(x), x.rounds < MaxRounds, NEW y, y = [x EXCEPT !.rounds = @ + 1]
  PROVE  y \in Loops /\ Live(y) /\ y.rounds >= 1
<1>1. x.rounds \in 0..MaxRounds /\ MaxRounds \in Nat
  BY AgentAssumption DEF Loops
<1>2. x.rounds + 1 \in 0..MaxRounds /\ x.rounds + 1 >= 1
  BY <1>1
<1>3. /\ y.rounds = x.rounds + 1 /\ y.parse = x.parse /\ y.rejects = x.rejects
  BY DEF Loops
<1>4. y \in Loops
  BY <1>2 DEF Loops
<1> QED BY <1>2, <1>3, <1>4 DEF Live

LEMMA CountParse ==
  ASSUME NEW x \in Loops, Live(x), NEW y, y = [x EXCEPT !.parse = @ + 1]
  PROVE  y \in Loops /\ (x.parse + 1 < ParseLimit => Live(y))
<1>1. x.parse \in 0..ParseLimit /\ ParseLimit \in Nat /\ x.parse < ParseLimit
  BY AgentAssumption DEF Loops, Live
<1>2. x.parse + 1 \in 0..ParseLimit
  BY <1>1
<1>3. y.parse = x.parse + 1 /\ y.rejects = x.rejects
  BY DEF Loops
<1>4. y \in Loops
  BY <1>2 DEF Loops
<1> QED BY <1>3, <1>4 DEF Live

LEMMA CountReject ==
  ASSUME NEW x \in Loops, Live(x), NEW c \in Codes, NEW y, y = [x EXCEPT !.rejects[c] = @ + 1]
  PROVE  y \in Loops /\ (x.rejects[c] + 1 < FuseLimit => Live(y))
<1>1. /\ x.rejects \in [Codes -> 0..FuseLimit] /\ FuseLimit \in Nat
      /\ \A d \in Codes : x.rejects[d] < FuseLimit
  BY AgentAssumption DEF Loops, Live
<1>2. x.rejects[c] + 1 \in 0..FuseLimit
  BY <1>1
<1>3. y.rejects = [x.rejects EXCEPT ![c] = @ + 1] /\ y.parse = x.parse
  BY DEF Loops
<1>4. y.rejects \in [Codes -> 0..FuseLimit] /\ y.rejects[c] = x.rejects[c] + 1
      /\ \A d \in Codes : d # c => y.rejects[d] = x.rejects[d]
  BY <1>1, <1>2, <1>3
<1>5. y = [x EXCEPT !.rejects = y.rejects]
  BY <1>3 DEF Loops
<1>6. y \in Loops
  BY <1>4, <1>5 DEF Loops
<1>7. ASSUME x.rejects[c] + 1 < FuseLimit PROVE Live(y)
  BY <1>1, <1>3, <1>4, <1>7 DEF Live
<1> QED BY <1>6, <1>7

(* And the rounds of the loop: each counter is below its limit before it     *)
(* counts, and a loop that reaches a limit does not go on.                   *)
LEMMA TypeRound ==
  ASSUME TypeInv, Shape, NEW r \in Reqs,
         \/ Think(r) \/ Incomplete(r) \/ StreamError(r) \/ ParseError(r)
         \/ \E code \in Codes : pc[r] = "decide" /\ Reject(r, code)
  PROVE  TypeInv' /\ Shape'
<1>1. CASE Think(r)
  <2>1. loop[r] \in Loops /\ Live(loop[r]) /\ loop[r].rounds < MaxRounds
    BY <1>1, Labelled DEF Think, Shape, TypeInv
  <2>2. loop'[r] \in Loops /\ Live(loop'[r]) /\ loop'[r].rounds >= 1
    <3>1. loop'[r] = [loop[r] EXCEPT !.rounds = @ + 1]
      BY <1>1 DEF Think, TypeInv
    <3> QED BY <2>1, <3>1, CountRound
  <2>3. loop' \in [Reqs -> Loops] /\ \A s \in Reqs : s # r => loop'[s] = loop[s]
    BY <1>1, <2>2 DEF Think, TypeInv
  <2>4. thoughts' \in [Reqs -> 0..(MaxRounds + 1)]
    <3>1. loop[r].run \in Reqs /\ thoughts[loop[r].run] \in 0..(MaxRounds + 1) /\ MaxRounds \in Nat
      BY <2>1, AgentAssumption DEF Loops, TypeInv
    <3>2. (IF thoughts[loop[r].run] > MaxRounds THEN thoughts[loop[r].run] ELSE thoughts[loop[r].run] + 1)
            \in 0..(MaxRounds + 1)
      BY <3>1
    <3> QED BY <1>1, <3>1, <3>2 DEF Think, TypeInv
  <2>5. pc' \in [Reqs -> Labels] /\ pc'[r] = "decide" /\ \A s \in Reqs : s # r => pc'[s] = pc[s]
    BY <1>1, GotoType, Labelled DEF Think
  <2>6. Shape'
    BY <1>1, <2>2, <2>3, <2>5 DEF Think, Shape
  <2> QED BY <1>1, <2>3, <2>4, <2>5, <2>6 DEF Think, TypeInv
<1>2. CASE Incomplete(r) \/ StreamError(r)
  <2>1. Shape' /\ pc' \in [Reqs -> Labels]
    BY <1>2, MoveType, Labelled DEF Incomplete, StreamError, local
  <2> QED BY <1>2, <2>1 DEF Incomplete, StreamError, TypeInv, local, hist
<1>3. CASE ParseError(r)
  <2>1. loop[r] \in Loops /\ Live(loop[r])
    BY <1>3, Labelled DEF ParseError, Shape, TypeInv, InRound
  <2>2. loop'[r] \in Loops /\ (loop[r].parse + 1 < ParseLimit => Live(loop'[r]))
    <3>1. loop'[r] = [loop[r] EXCEPT !.parse = @ + 1]
      BY <1>3 DEF ParseError, TypeInv
    <3> QED BY <2>1, <3>1, CountParse
  <2>3. loop' \in [Reqs -> Loops] /\ \A s \in Reqs : s # r => loop'[s] = loop[s]
    BY <1>3, <2>2 DEF ParseError, TypeInv
  <2>4. CASE loop[r].parse + 1 >= ParseLimit
    <3>1. pc' \in [Reqs -> Labels] /\ pc'[r] = "unlock" /\ \A s \in Reqs : s # r => pc'[s] = pc[s]
      BY <1>3, <2>4, GotoType, Labelled DEF ParseError
    <3>2. Shape'
      BY <1>3, <2>3, <3>1, Labelled DEF ParseError, Shape
    <3> QED BY <1>3, <2>3, <3>1, <3>2 DEF ParseError, TypeInv, hist
  <2>5. CASE ~(loop[r].parse + 1 >= ParseLimit)
    <3>1. pc' \in [Reqs -> Labels] /\ pc'[r] = "loop" /\ \A s \in Reqs : s # r => pc'[s] = pc[s]
      BY <1>3, <2>5, GotoType, Labelled DEF ParseError
    <3>2. Live(loop'[r])
      BY <2>1, <2>2, <2>5, AgentAssumption DEF Loops
    <3>3. Shape'
      BY <1>3, <2>3, <3>1, <3>2, Labelled DEF ParseError, Shape
    <3> QED BY <1>3, <2>3, <3>1, <3>3 DEF ParseError, TypeInv, hist
  <2> QED BY <2>4, <2>5
<1>4. ASSUME NEW code \in Codes, pc[r] = "decide", Reject(r, code) PROVE TypeInv' /\ Shape'
  <2>1. loop[r] \in Loops /\ Live(loop[r])
    BY <1>4, Labelled DEF Shape, TypeInv, InRound
  <2>2. loop'[r] \in Loops /\ (loop[r].rejects[code] + 1 < FuseLimit => Live(loop'[r]))
    <3>1. loop'[r] = [loop[r] EXCEPT !.rejects[code] = @ + 1]
      BY <1>4 DEF Reject, TypeInv
    <3> QED BY <2>1, <3>1, CountReject
  <2>3. loop' \in [Reqs -> Loops] /\ \A s \in Reqs : s # r => loop'[s] = loop[s]
    BY <1>4, <2>2 DEF Reject, TypeInv
  <2>4. CASE loop[r].rejects[code] + 1 >= FuseLimit
    <3>1. pc' \in [Reqs -> Labels] /\ pc'[r] = "unlock" /\ \A s \in Reqs : s # r => pc'[s] = pc[s]
      BY <1>4, <2>4, GotoType, Labelled DEF Reject
    <3>2. Shape'
      BY <1>4, <2>3, <3>1, Labelled DEF Reject, Shape
    <3> QED BY <1>4, <2>3, <3>1, <3>2 DEF Reject, TypeInv, hist
  <2>5. CASE ~(loop[r].rejects[code] + 1 >= FuseLimit)
    <3>1. pc' \in [Reqs -> Labels] /\ pc'[r] = "loop" /\ \A s \in Reqs : s # r => pc'[s] = pc[s]
      BY <1>4, <2>5, GotoType, Labelled DEF Reject
    <3>2. Live(loop'[r])
      BY <2>1, <2>2, <2>5, AgentAssumption DEF Loops
    <3>3. Shape'
      BY <1>4, <2>3, <3>1, <3>2, Labelled DEF Reject, Shape
    <3> QED BY <1>4, <2>3, <3>1, <3>3 DEF Reject, TypeInv, hist
  <2> QED BY <2>4, <2>5
<1> QED BY <1>1, <1>2, <1>3, <1>4

(* And the actions that pass the gate.                                       *)
LEMMA TypeAction ==
  ASSUME TypeInv, Shape, NEW r \in Reqs,
         \/ \E b \in Batches : Act(r, b)
         \/ \E ok \in BOOLEAN : Exec(r, ok)
         \/ \E k \in WaitKinds : Ask(r, k)
         \/ AcceptFinish(r) \/ NoWait(r) \/ Show(r) \/ HoldTurn(r) \/ Suspend(r) \/ Finish(r)
  PROVE  TypeInv' /\ Shape'
<1>1. ASSUME NEW b \in Batches, Act(r, b) PROVE TypeInv' /\ Shape'
  <2>1. b \in Seq(Tools) /\ b # <<>>
    BY AgentAssumption
  <2>2. todo' \in [Reqs -> Seq(Tools)] /\ todo'[r] # <<>> /\ \A s \in Reqs : s # r => todo'[s] = todo[s]
    BY <1>1, <2>1 DEF Act, TypeInv
  <2>3. pc' \in [Reqs -> Labels] /\ pc'[r] = "exec" /\ \A s \in Reqs : s # r => pc'[s] = pc[s]
    BY <1>1, GotoType, Labelled DEF Act
  <2>4. "exec" \in InRound /\ "exec" \in Driving /\ "decide" \in InRound /\ "decide" \in Driving
    BY DEF InRound, Driving
  <2>5. Shape'
    <3>1. UNCHANGED <<rec, mine, loop>> /\ pc[r] = "decide"
      BY <1>1 DEF Act
    <3>2. \A s \in Reqs : /\ pc'[s] \in Driving => pc[s] \in Driving
                          /\ pc'[s] \in InRound => pc[s] \in InRound
      BY <2>3, <2>4, <3>1
    <3>3. \A s \in Reqs : pc'[s] = "exec" => todo'[s] # <<>>
      BY <2>2, <2>3 DEF Shape
    <3>4. \A s \in Reqs : pc'[s] = "reply" => pc[s] = "reply"
      BY <2>3
    <3> QED BY <3>1, <3>2, <3>3, <3>4 DEF Shape
  <2> QED BY <1>1, <2>2, <2>3, <2>5 DEF Act, TypeInv, hist
<1>2. ASSUME NEW ok \in BOOLEAN, Exec(r, ok) PROVE TypeInv' /\ Shape'
  <2>1. todo[r] # <<>> /\ todo[r] \in Seq(Tools) /\ loop[r] \in Loops /\ Live(loop[r]) /\ loop[r].rounds >= 1
    BY <1>2 DEF Exec, Shape, TypeInv, InRound, Driving
  <2>2. Head(todo[r]) \in Tools /\ Tail(todo[r]) \in Seq(Tools)
    BY <2>1, HeadTailProperties
  <2>3. /\ todo' \in [Reqs -> Seq(Tools)] /\ todo'[r] = Tail(todo[r])
        /\ \A s \in Reqs : s # r => todo'[s] = todo[s]
    BY <1>2, <2>2 DEF Exec, RunTool, TypeInv
  <2>4. loop[r].run \in Reqs /\ loop[r].key \in Questions \cup {None}
    BY <2>1 DEF Loops
  <2>5. ran' \subseteq Calls
    <3>1. [run |-> loop[r].run, by |-> r, tool |-> Head(todo[r]), ok |-> ok, key |-> loop[r].key,
           late |-> loop[r].run \in cancelled] \in Calls
      BY <2>2, <2>4 DEF Calls
    <3> QED BY <1>2, <3>1 DEF Exec, RunTool, TypeInv
  <2>6. loop'[r] \in Loops /\ Live(loop'[r]) /\ loop'[r].rounds >= 1
    <3> DEFINE d == IF ok THEN loop[r].done \cup StepsOf(Head(todo[r])) ELSE loop[r].done
               p == IF Tail(todo[r]) = <<>> THEN 0 ELSE loop[r].parse
    <3>1. d \subseteq Steps
      BY <2>1 DEF Loops, StepsOf
    <3>2. p = 0 \/ p = loop[r].parse
      OBVIOUS
    <3>3. loop'[r] = [loop[r] EXCEPT !.done = d, !.parse = p]
      BY <1>2 DEF Exec, TypeInv
    <3> HIDE DEF d, p
    <3>4. loop[r].parse \in 0..ParseLimit /\ ParseLimit \in Nat \ {0} /\ loop[r].parse < ParseLimit
      BY <2>1, AgentAssumption DEF Loops, Live
    <3>5. p \in 0..ParseLimit /\ p < ParseLimit
      BY <3>2, <3>4
    <3>6. /\ loop'[r].parse = p /\ loop'[r].rejects = loop[r].rejects
          /\ loop'[r].rounds = loop[r].rounds /\ loop'[r] \in Loops
      BY <2>1, <3>1, <3>3, <3>5 DEF Loops
    <3> QED BY <2>1, <3>5, <3>6 DEF Live
  <2>7. loop' \in [Reqs -> Loops] /\ \A s \in Reqs : s # r => loop'[s] = loop[s]
    BY <1>2, <2>6 DEF Exec, TypeInv
  <2>8. /\ pc' \in [Reqs -> Labels] /\ pc'[r] \in {"loop", "exec"} /\ \A s \in Reqs : s # r => pc'[s] = pc[s]
        /\ pc'[r] = "exec" => todo'[r] # <<>>
    BY <1>2, <2>3, GotoType, Labelled DEF Exec, RunTool
  <2>9. Shape'
    BY <1>2, <2>3, <2>6, <2>7, <2>8 DEF Exec, Shape
  <2> QED BY <1>2, <2>3, <2>5, <2>7, <2>8, <2>9 DEF Exec, TypeInv
<1>3. ASSUME NEW k \in WaitKinds, Ask(r, k) PROVE TypeInv' /\ Shape'
  <2>1. Shape' /\ pc' \in [Reqs -> Labels]
    BY <1>3, MoveType, Labelled DEF Ask, Shape, InRound, Driving
  <2> QED BY <1>3, <2>1 DEF Ask, TypeInv, hist
<1>4. ASSUME AcceptFinish(r) \/ Show(r) PROVE TypeInv' /\ Shape'
  <2>1. loop[r].rounds >= 1
    BY <1>4 DEF AcceptFinish, Show, Shape, InRound
  <2>2. Shape' /\ pc' \in [Reqs -> Labels]
    BY <1>4, <2>1, MoveType, Labelled DEF AcceptFinish, Show, Shape, InRound, Driving, local
  <2>3. asked' \subseteq Questions
    BY <1>4, <2>1, QuestionType DEF AcceptFinish, Show, TypeInv, hist
  <2> QED BY <1>4, <2>2, <2>3 DEF AcceptFinish, Show, TypeInv, local, hist
<1>5. ASSUME NoWait(r) \/ HoldTurn(r) \/ Suspend(r) \/ Finish(r) PROVE TypeInv' /\ Shape'
  <2>1. loop[r].rounds >= 1 /\ loop[r] \in Loops /\ Live(loop[r])
    BY <1>5 DEF NoWait, HoldTurn, Suspend, Finish, Shape, TypeInv, InRound, Driving
  <2>2. QuestionOf(r) \in Questions /\ loop[r].run \in Reqs
    BY <2>1, QuestionType DEF Loops
  <2>3. CASE Suspend(r)
    <3>1. [q |-> QuestionOf(r), loop |-> loop[r]] \in Snapshots
      BY <2>1, <2>2 DEF Snapshots
    <3>2. rec' \in Records /\ rec'.awaiting.loop = loop[r]
      BY <2>2, <2>3, <3>1 DEF Suspend, Records
    <3>3. pc' \in [Reqs -> Labels] /\ pc'[r] = "unlock" /\ \A s \in Reqs : s # r => pc'[s] = pc[s]
      BY <2>3, GotoType, Labelled DEF Suspend
    <3>4. Shape'
      BY <2>1, <2>3, <3>2, <3>3, Labelled DEF Suspend, Shape, local
    <3> QED BY <2>3, <3>2, <3>3, <3>4 DEF Suspend, TypeInv, local, hist
  <2>4. CASE NoWait(r) \/ HoldTurn(r) \/ Finish(r)
    <3>1. rec' \in Records /\ rec'.awaiting = None
      BY <2>2, <2>4, CloseType DEF NoWait, HoldTurn, Finish, TypeInv, Records
    <3>2. pc' \in [Reqs -> Labels] /\ pc'[r] = "unlock" /\ \A s \in Reqs : s # r => pc'[s] = pc[s]
      BY <2>4, GotoType, Labelled DEF NoWait, HoldTurn, Finish
    <3>3. Shape'
      BY <2>4, <3>1, <3>2, Labelled DEF NoWait, HoldTurn, Finish, Shape, local
    <3>4. finished' \subseteq Reqs
      BY <2>2, <2>4 DEF NoWait, HoldTurn, Finish, TypeInv, hist
    <3> QED BY <2>4, <3>1, <3>2, <3>3, <3>4 DEF NoWait, HoldTurn, Finish, TypeInv, local, hist
  <2> QED BY <1>5, <2>3, <2>4
<1> QED BY <1>1, <1>2, <1>3, <1>4, <1>5

(* And the incidents.                                                        *)
LEMMA TypeIncident ==
  ASSUME TypeInv, Shape, Incident
  PROVE  TypeInv' /\ Shape'
<1>1. CASE Lapse
  <2>1. n' \in [Kinds -> Nat]
    BY <1>1, CountType DEF Lapse, TypeInv, Kinds
  <2>2. Shape'
    BY <1>1 DEF Lapse, Shape, local
  <2> QED BY <1>1, <2>1, <2>2 DEF Lapse, TypeInv, local, hist
<1>2. CASE Cancel \/ Expire
  <2>1. n' \in [Kinds -> Nat]
    BY <1>2, CountType DEF Cancel, Expire, Kinds
  <2>2. rec' \in Records /\ rec'.awaiting = None
    BY <1>2, CloseType, FreshType DEF Cancel, Expire, TypeInv
  <2>3. Shape'
    BY <1>2, <2>2 DEF Cancel, Expire, Shape, local
  <2>4. cancelled' \subseteq Reqs
    <3>1. rec.awaiting # None => rec.awaiting.q.run \in Reqs
      BY DEF TypeInv, Records, Snapshots, Questions
    <3> QED BY <1>2, <3>1 DEF Cancel, Expire, TypeInv, hist
  <2> QED BY <1>2, <2>1, <2>2, <2>3, <2>4 DEF Cancel, Expire, TypeInv, local, hist
<1>3. ASSUME NEW r \in Reqs, Fail(r) PROVE TypeInv' /\ Shape'
  <2>1. n' \in [Kinds -> Nat]
    BY <1>3, CountType DEF Fail, Kinds
  <2>2. Shape' /\ pc' \in [Reqs -> Labels]
    BY <1>3, MoveType, Labelled DEF Fail, local
  <2> QED BY <1>3, <2>1, <2>2 DEF Fail, TypeInv, local, hist
<1>4. ASSUME NEW r \in Reqs, Crash(r) PROVE TypeInv' /\ Shape'
  <2>1. n' \in [Kinds -> Nat]
    BY <1>4, CountType DEF Crash, Kinds
  <2>2. /\ mine' \in [Reqs -> Records] /\ loop' \in [Reqs -> Loops]
        /\ todo' \in [Reqs -> Seq(Tools)] /\ kind' \in [Reqs -> WaitKinds]
    BY <1>4, FreshType, NewLoopType DEF Crash, Forget, TypeInv, WaitKinds
  <2>3. pc' \in [Reqs -> Labels] /\ pc'[r] = "done" /\ \A s \in Reqs : s # r => pc'[s] = pc[s]
    BY <1>4, GotoType, Labelled DEF Crash
  <2>4. Shape'
    BY <1>4, <2>3, FreshType, Labelled DEF Crash, Forget, TypeInv, Shape
  <2> QED BY <1>4, <2>1, <2>2, <2>3, <2>4 DEF Crash, TypeInv, hist
<1> QED BY <1>1, <1>2, <1>3, <1>4 DEF Incident

LEMMA TypeStep == TypeInv /\ Shape /\ [Next]_vars => TypeInv' /\ Shape'
<1> SUFFICES ASSUME TypeInv, Shape, [Next]_vars PROVE TypeInv' /\ Shape'
  OBVIOUS
<1>1. CASE Incident
  BY <1>1, TypeIncident
<1>2. ASSUME NEW r \in Reqs, Send(r) PROVE TypeInv' /\ Shape'
  BY <1>2, TypeEntry
<1>3. ASSUME NEW r \in Reqs, Serve(r) PROVE TypeInv' /\ Shape'
  <2>1. CASE Acquire(r) \/ GiveUp(r) \/ Unlock(r) \/ Release(r)
    BY <2>1, TypeEntry
  <2>2. CASE Refuse(r) \/ Open(r) \/ Reopen(r) \/ Reply(r)
    BY <2>2, TypeOpen
  <2>3. CASE Decide(r)
    <3>1. /\ "require_steps" \in Codes
          /\ \A b \in Batches : CodeOf(b[FirstOffence(r, b)]) \in Codes
      BY DEF CodeOf, Codes
    <3> QED BY <2>3, <3>1, TypeRound, TypeAction DEF Decide, RejectAct, RejectFinish
  <2>4. CASE Think(r) \/ Incomplete(r)
    BY <2>4, TypeRound
  <2>5. CASE \/ \E ok \in BOOLEAN : Exec(r, ok)
             \/ NoWait(r) \/ Show(r) \/ HoldTurn(r) \/ Suspend(r) \/ Finish(r)
    BY <2>5, TypeAction
  <2> QED BY <1>3, <2>1, <2>2, <2>3, <2>4, <2>5 DEF Serve
<1>4. CASE UNCHANGED vars
  BY <1>4 DEF vars, local, hist, TypeInv, Shape, Live
<1> QED BY <1>1, <1>2, <1>3, <1>4 DEF Next

(* TypeInv: no loop, snapshot or record ever exceeds its rounds, its parse   *)
(* retries or its rejects, for any limits.                                   *)
THEOREM TypeCorrect == Spec => []TypeInv
<1>1. Spec => [](TypeInv /\ Shape)
  BY TypeInit, TypeStep, PTL DEF Spec
<1> QED BY <1>1, PTL

-------------------------------------------------------------------------------
(* One run at a time.                                                        *)

(* While no TTL ran out under its holder, who is served holds the lock.      *)
Alone == n["lapse"] = 0 => \A r \in Reqs : pc[r] \in Serving => lock = r

(* A step that moves one request, served before or not after, and does not   *)
(* touch the lock.                                                           *)
LEMMA AloneMove ==
  ASSUME TypeInv, Alone, NEW r \in Reqs, NEW l \in Labels, Goto(r, l), UNCHANGED lock,
         n'["lapse"] = n["lapse"], pc[r] \in Serving \/ l \notin Serving
  PROVE  Alone'
BY GotoType DEF Alone

LEMMA Served ==
  /\ \A l \in {"open", "reply", "loop", "decide", "exec", "ask", "hold", "finish", "unlock", "release"} :
       l \in Serving
  /\ \A l \in {"new", "lock", "done"} : l \notin Serving
  /\ Driving \cup {"open", "reply"} \subseteq Serving
  /\ Serving \subseteq Labels
BY DEF Serving, Driving, Labels

LEMMA AloneServe ==
  ASSUME TypeInv, Alone, NEW r \in Reqs, Serve(r)
  PROVE  Alone'
<1>1. CASE Acquire(r)
  <2>1. pc'[r] = "open" /\ \A s \in Reqs : s # r => pc'[s] = pc[s]
    BY <1>1, Labelled, GotoType DEF Acquire
  <2>2. n["lapse"] = 0 => \A s \in Reqs : pc[s] \notin Serving
    BY <1>1, NoneAssumption DEF Acquire, Alone
  <2> QED BY <1>1, <2>1, <2>2 DEF Acquire, Alone
<1>2. CASE GiveUp(r)
  BY <1>2, Served, Labelled, AloneMove DEF GiveUp
<1>3. CASE Release(r)
  <2>1. pc'[r] = "done" /\ \A s \in Reqs : s # r => pc'[s] = pc[s]
    BY <1>3, Labelled, GotoType DEF Release
  <2>2. n["lapse"] = 0 => lock = r
    BY <1>3, Served DEF Release, Alone
  <2> QED BY <1>3, <2>1, <2>2, Served DEF Release, Alone
<1>4. CASE Unlock(r) \/ Refuse(r) \/ Open(r) \/ Reopen(r) \/ Reply(r)
  BY <1>4, Served, Labelled, AloneMove DEF Unlock, Refuse, Open, Reopen, Reply
<1>5. CASE Think(r) \/ Incomplete(r)
  BY <1>5, Served, Labelled, AloneMove DEF Think, Incomplete
<1>6. CASE Decide(r)
  BY <1>6, Served, Labelled, AloneMove
  DEF Decide, StreamError, ParseError, RejectFinish, RejectAct, Reject, AcceptFinish, Act, Ask
<1>7. ASSUME NEW ok \in BOOLEAN, Exec(r, ok) PROVE Alone'
  BY <1>7, Served, Labelled, AloneMove DEF Exec, RunTool
<1>8. CASE NoWait(r) \/ Show(r) \/ HoldTurn(r) \/ Suspend(r) \/ Finish(r)
  BY <1>8, Served, Labelled, AloneMove DEF NoWait, Show, HoldTurn, Suspend, Finish
<1> QED BY <1>1, <1>2, <1>3, <1>4, <1>5, <1>6, <1>7, <1>8 DEF Serve

LEMMA AloneStep == TypeInv /\ Alone /\ [Next]_vars => Alone'
<1> SUFFICES ASSUME TypeInv, Alone, [Next]_vars PROVE Alone'
  OBVIOUS
<1>1. CASE Lapse
  <2>1. CASE pc[lock] = "done"
    BY <1>1, <2>1, Served DEF Lapse, Alone
  <2>2. CASE pc[lock] # "done"
    <3>1. n["lapse"] \in Nat /\ n'["lapse"] = n["lapse"] + 1
      BY <1>1, <2>2 DEF Lapse, Count, TypeInv, Kinds
    <3> QED BY <3>1 DEF Alone
  <2> QED BY <2>1, <2>2
<1>2. CASE Cancel \/ Expire
  <2>1. n'["lapse"] = n["lapse"]
    BY <1>2 DEF Cancel, Expire, Count, TypeInv, Kinds
  <2> QED BY <1>2, <2>1 DEF Cancel, Expire, Alone, local
<1>3. ASSUME NEW r \in Reqs, Fail(r) \/ Crash(r) PROVE Alone'
  <2>1. n'["lapse"] = n["lapse"]
    BY <1>3 DEF Fail, Crash, Count, TypeInv, Kinds
  <2> QED BY <1>3, <2>1, Served, Labelled, AloneMove DEF Fail, Crash
<1>4. ASSUME NEW r \in Reqs, Send(r) PROVE Alone'
  BY <1>4, Served, Labelled, AloneMove DEF Send, SendRun, SendResume
<1>5. ASSUME NEW r \in Reqs, Serve(r) PROVE Alone'
  BY <1>5, AloneServe
<1>6. CASE UNCHANGED vars
  BY <1>6 DEF vars, Alone
<1> QED BY <1>1, <1>2, <1>3, <1>4, <1>5, <1>6 DEF Next, Incident

(* OneRunUnlessLapsed: for any number of requests, crashes, cancels and      *)
(* broken streams, two of them are never served at once unless the TTL of    *)
(* the lock ran out under its holder.                                        *)
THEOREM OneRunCorrect == Spec => []OneRunUnlessLapsed
<1>1. Init => Alone
  BY Served DEF Init, Alone
<1>2. Alone => OneRunUnlessLapsed
  BY DEF Alone, OneRunUnlessLapsed, Serving1
<1> QED BY <1>1, <1>2, AloneStep, TypeCorrect, PTL DEF Spec

-------------------------------------------------------------------------------
(* The record, the playbook and the required steps.                          *)

(* A confirmation held somewhere was shown to the user, and a step that      *)
(* counts as done has a successful call of the run behind it.                *)
ShownKey(k, A) == k # None => k \in A /\ k.kind = "await_confirm"
Backed(run, s, C) == \E c \in C : c.run = run /\ c.ok /\ c.tool \in StepTools[s]
LoopOK(x, A, C) == ShownKey(x.key, A) /\ \A s \in x.done : Backed(x.run, s, C)
RecordOK(x, A, C) ==
  /\ Coherent(x)
  /\ x.pending # None => x.pending \in A
  /\ x.awaiting # None => x.awaiting.q \in A /\ LoopOK(x.awaiting.loop, A, C)
CallOK(c, A) ==
  /\ c.tool \notin Forbid
  /\ c.tool \in Confirm => c.key \in A /\ c.key.kind = "await_confirm"

(* A request at its label: the question it holds was shown, the calls it is  *)
(* about to make passed the gate, its finish has every step.                 *)
AtLabel(r) ==
  /\ pc[r] = "hold" => QuestionOf(r) \in asked
  /\ pc[r] = "exec" => \A i \in DOMAIN todo[r] : ~Offends(r, todo[r][i])
  /\ pc[r] = "finish" => loop[r].done = Steps

Sound ==
  /\ RecordOK(rec, asked, ran)
  /\ \A r \in Reqs : LoopOK(loop[r], asked, ran) /\ RecordOK(mine[r], asked, ran) /\ AtLabel(r)
  /\ \A c \in ran : CallOK(c, asked)
  /\ \A run \in finished, s \in Steps : Backed(run, s, ran)

(* What is true of the questions shown and the calls made stays true.        *)
LEMMA Grow ==
  ASSUME NEW A, NEW B, A \subseteq B, NEW C, NEW D, C \subseteq D
  PROVE  /\ \A x : LoopOK(x, A, C) => LoopOK(x, B, D)
         /\ \A x : RecordOK(x, A, C) => RecordOK(x, B, D)
         /\ \A c : CallOK(c, A) => CallOK(c, B)
         /\ \A run, s : Backed(run, s, C) => Backed(run, s, D)
<1>1. \A run, s : Backed(run, s, C) => Backed(run, s, D)
  BY DEF Backed
<1>2. \A x : LoopOK(x, A, C) => LoopOK(x, B, D)
  BY <1>1 DEF LoopOK, ShownKey
<1>3. \A x : RecordOK(x, A, C) => RecordOK(x, B, D)
  BY <1>2 DEF RecordOK
<1>4. \A c : CallOK(c, A) => CallOK(c, B)
  BY DEF CallOK
<1> QED BY <1>1, <1>2, <1>3, <1>4

(* A new loop, a fresh record and a closed record are sound.                 *)
LEMMA SoundParts ==
  /\ \A A, C : RecordOK(FreshRecord, A, C)
  /\ \A A, C : \A r \in Reqs : LoopOK(NewLoop(r, None), A, C)
  /\ \A A, C : \A x \in Records : RecordOK(x, A, C) => RecordOK(Close(x), A, C)
<1>1. \A A, C : RecordOK(FreshRecord, A, C)
  BY DEF FreshRecord, RecordOK, Coherent
<1>2. \A A, C : \A r \in Reqs : LoopOK(NewLoop(r, None), A, C)
  BY DEF NewLoop, LoopOK, ShownKey
<1>3. ASSUME NEW A, NEW C, NEW x \in Records, RecordOK(x, A, C)
      PROVE  RecordOK(Close(x), A, C)
  BY <1>3, CloseType DEF RecordOK, Coherent
<1> QED BY <1>1, <1>2, <1>3

(* A step of one request: what it has to show.                               *)
Others(r) ==
  \A s \in Reqs : s # r => /\ pc'[s] = pc[s] /\ loop'[s] = loop[s] /\ todo'[s] = todo[s]
                           /\ kind'[s] = kind[s] /\ mine'[s] = mine[s]

LEMMA SoundMove ==
  ASSUME Sound, NEW r \in Reqs, Others(r), asked \subseteq asked', ran \subseteq ran',
         RecordOK(rec', asked', ran'), LoopOK(loop'[r], asked', ran'),
         RecordOK(mine'[r], asked', ran'), AtLabel(r)',
         \A c \in ran' \ ran : CallOK(c, asked'),
         \A run \in finished' \ finished, s \in Steps : Backed(run, s, ran')
  PROVE  Sound'
<1>1. \A s \in Reqs : LoopOK(loop'[s], asked', ran') /\ RecordOK(mine'[s], asked', ran')
  BY Grow DEF Sound, Others
<1>2. ASSUME NEW s \in Reqs PROVE AtLabel(s)'
  BY DEF Sound, Others, AtLabel, QuestionOf, Offends, Confirmed
<1>3. \A c \in ran' : CallOK(c, asked')
  BY Grow DEF Sound
<1>4. \A run \in finished', s \in Steps : Backed(run, s, ran')
  BY Grow DEF Sound
<1> QED BY <1>1, <1>2, <1>3, <1>4 DEF Sound

(* A step that only moves the request, or shows its question.                *)
LEMMA SoundGoto ==
  ASSUME TypeInv, Sound, NEW r \in Reqs, NEW l \in Labels, Goto(r, l),
         UNCHANGED <<rec, mine, loop, todo, kind, ran, finished>>, asked \subseteq asked',
         l = "hold" => QuestionOf(r) \in asked', l # "exec",
         l = "finish" => loop[r].done = Steps
  PROVE  Sound'
<1>1. pc'[r] = l /\ \A s \in Reqs : s # r => pc'[s] = pc[s]
  BY GotoType
<1>2. Others(r)
  BY <1>1 DEF Others
<1>3. /\ RecordOK(rec', asked', ran') /\ LoopOK(loop'[r], asked', ran')
      /\ RecordOK(mine'[r], asked', ran')
  BY Grow DEF Sound
<1>4. AtLabel(r)'
  BY <1>1 DEF AtLabel, QuestionOf
<1> QED BY <1>2, <1>3, <1>4, SoundMove

(* A step beside the requests.                                               *)
LEMMA SoundBeside ==
  ASSUME Sound, UNCHANGED <<pc, mine, loop, todo, kind, asked, ran, finished>>,
         RecordOK(rec', asked, ran)
  PROVE  Sound'
<1>1. ASSUME NEW r \in Reqs PROVE AtLabel(r)'
  BY DEF Sound, AtLabel, QuestionOf, Offends, Confirmed
<1> QED BY <1>1 DEF Sound

LEMMA SoundEntry ==
  ASSUME TypeInv, Sound, NEW r \in Reqs, Send(r) \/ Acquire(r) \/ GiveUp(r) \/ Unlock(r) \/ Release(r)
  PROVE  Sound'
<1>1. CASE Send(r) \/ Acquire(r) \/ GiveUp(r) \/ Release(r)
  BY <1>1, SoundGoto, Labelled DEF Send, SendRun, SendResume, Acquire, GiveUp, Release, local, hist
<1>2. CASE Unlock(r)
  <2>1. pc'[r] \in {"release", "done"} /\ \A s \in Reqs : s # r => pc'[s] = pc[s]
    BY <1>2, GotoType, Labelled DEF Unlock
  <2>2. Others(r) /\ mine'[r] = FreshRecord /\ loop'[r] = NewLoop(r, None)
    BY <1>2, <2>1 DEF Unlock, Forget, Others, TypeInv
  <2>3. AtLabel(r)'
    BY <2>1 DEF AtLabel
  <2>4. RecordOK(rec', asked', ran')
    BY <1>2 DEF Unlock, Sound, hist
  <2> QED BY <1>2, <2>2, <2>3, <2>4, SoundParts, SoundMove DEF Unlock, hist
<1> QED BY <1>1, <1>2

LEMMA SoundOpen ==
  ASSUME TypeInv, Shape, Sound, NEW r \in Reqs, Refuse(r) \/ Open(r) \/ Reopen(r) \/ Reply(r)
  PROVE  Sound'
<1>1. CASE Refuse(r)
  BY <1>1, SoundGoto, Labelled DEF Refuse, local, hist
<1>2. CASE Open(r)
  <2>1. pc'[r] = "loop" /\ \A s \in Reqs : s # r => pc'[s] = pc[s]
    BY <1>2, GotoType, Labelled DEF Open
  <2>2. Others(r) /\ mine'[r] = mine[r] /\ loop'[r] = NewLoop(r, KeyOf(Carried(r)))
    BY <1>2, <2>1 DEF Open, Others, TypeInv
  <2>3. LoopOK(loop'[r], asked', ran')
    <3>1. Carried(r) # None => Carried(r) \in asked
      BY DEF Carried, Sound, RecordOK
    <3> QED BY <1>2, <2>2, <3>1 DEF Open, LoopOK, NewLoop, ShownKey, KeyOf
  <2>4. RecordOK(rec', asked', ran')
    <3>1. /\ rec'.status = "running" /\ rec'.active # None
          /\ rec'.awaiting = None /\ rec'.pending = rec.pending
      BY <1>2, NoneAssumption DEF Open, TypeInv, Records
    <3> QED BY <1>2, <3>1 DEF Open, RecordOK, Coherent, Sound
  <2>5. AtLabel(r)'
    BY <2>1 DEF AtLabel
  <2>6. RecordOK(mine'[r], asked', ran')
    BY <1>2 DEF Open, Sound
  <2> QED BY <1>2, <2>2, <2>3, <2>4, <2>5, <2>6, SoundMove DEF Open
<1>3. CASE Reopen(r)
  <2>1. pc'[r] \in {"reply", "unlock"} /\ \A s \in Reqs : s # r => pc'[s] = pc[s]
    BY <1>3, GotoType, Labelled DEF Reopen
  <2>2. Others(r) /\ mine'[r] \in {rec, mine[r]}
    BY <1>3, <2>1 DEF Reopen, Others, TypeInv
  <2>3. RecordOK(rec', asked', ran') /\ RecordOK(mine'[r], asked', ran') /\ LoopOK(loop'[r], asked', ran')
    BY <1>3, <2>2 DEF Reopen, Sound, hist
  <2>4. AtLabel(r)'
    BY <2>1 DEF AtLabel
  <2> QED BY <1>3, <2>2, <2>3, <2>4, SoundMove DEF Reopen, hist
<1>4. CASE Reply(r)
  <2> DEFINE snap == mine[r].awaiting
  <2>1. snap \in Snapshots /\ snap.loop \in Loops /\ mine[r] \in Records /\ mine[r].awaiting # None
    BY <1>4 DEF Reply, Shape, TypeInv, Records, Snapshots
  <2>2. RecordOK(mine[r], asked, ran) /\ snap.q \in asked /\ LoopOK(snap.loop, asked, ran)
    BY <2>1 DEF Sound, RecordOK
  <2>3. pc'[r] = "loop" /\ \A s \in Reqs : s # r => pc'[s] = pc[s]
    BY <1>4, GotoType, Labelled DEF Reply
  <2>4. Others(r) /\ loop'[r] = [snap.loop EXCEPT !.key = IF snap.q.kind = "await_confirm" THEN snap.q ELSE @]
    BY <1>4, <2>3 DEF Reply, Others, TypeInv
  <2>5. LoopOK(loop'[r], asked', ran')
    <3>1. /\ loop'[r].run = snap.loop.run /\ loop'[r].done = snap.loop.done
          /\ loop'[r].key = IF snap.q.kind = "await_confirm" THEN snap.q ELSE snap.loop.key
      BY <2>1, <2>4 DEF Loops
    <3> QED BY <1>4, <2>2, <3>1 DEF Reply, LoopOK, ShownKey
  <2>6. RecordOK(rec', asked', ran')
    <3>1. /\ rec'.status = "running" /\ rec'.active = mine[r].active
          /\ rec'.awaiting = None /\ rec'.pending = mine[r].pending
      BY <1>4, <2>1 DEF Reply, Records
    <3>2. mine[r].active # None
      BY <2>1, <2>2 DEF RecordOK, Coherent
    <3> QED BY <1>4, <2>2, <3>1, <3>2 DEF Reply, RecordOK, Coherent
  <2>7. AtLabel(r)'
    BY <2>3 DEF AtLabel
  <2>8. RecordOK(mine'[r], asked', ran')
    BY <1>4 DEF Reply, Sound
  <2> QED BY <1>4, <2>4, <2>5, <2>6, <2>7, <2>8, SoundMove DEF Reply
<1> QED BY <1>1, <1>2, <1>3, <1>4

LEMMA SoundRound ==
  ASSUME TypeInv, Sound, NEW r \in Reqs,
         \/ Think(r) \/ Incomplete(r) \/ StreamError(r) \/ ParseError(r)
         \/ \E code \in Codes : pc[r] = "decide" /\ Reject(r, code)
  PROVE  Sound'
<1>1. CASE Incomplete(r) \/ StreamError(r)
  BY <1>1, SoundGoto, Labelled DEF Incomplete, StreamError, local, hist
<1>2. CASE Think(r) \/ ParseError(r) \/ \E code \in Codes : pc[r] = "decide" /\ Reject(r, code)
  <2>1. pc'[r] \in {"decide", "unlock", "loop"} /\ \A s \in Reqs : s # r => pc'[s] = pc[s]
    BY <1>2, GotoType, Labelled DEF Think, ParseError, Reject
  <2>2. /\ Others(r) /\ UNCHANGED <<rec, mine, asked, ran, finished>>
        /\ loop'[r].run = loop[r].run /\ loop'[r].key = loop[r].key /\ loop'[r].done = loop[r].done
    BY <1>2, <2>1 DEF Think, ParseError, Reject, Others, TypeInv, Loops, hist
  <2>3. /\ RecordOK(rec', asked', ran') /\ RecordOK(mine'[r], asked', ran')
        /\ LoopOK(loop'[r], asked', ran')
    BY <2>2 DEF Sound, LoopOK
  <2>4. AtLabel(r)'
    BY <2>1 DEF AtLabel
  <2> QED BY <2>2, <2>3, <2>4, SoundMove
<1> QED BY <1>1, <1>2

LEMMA SoundExec ==
  ASSUME TypeInv, Shape, Sound, NEW r \in Reqs, NEW ok \in BOOLEAN, Exec(r, ok)
  PROVE  Sound'
<1> DEFINE t == Head(todo[r])
           call == [run |-> loop[r].run, by |-> r, tool |-> t, ok |-> ok,
                    key |-> loop[r].key, late |-> loop[r].run \in cancelled]
<1>1. /\ todo[r] \in Seq(Tools) /\ todo[r] # <<>> /\ loop[r] \in Loops
      /\ \A i \in DOMAIN todo[r] : ~Offends(r, todo[r][i])
  BY DEF Exec, Shape, TypeInv, Sound, AtLabel
<1>2. t \in Tools /\ Tail(todo[r]) \in Seq(Tools) /\ ~Offends(r, t)
      /\ \A i \in DOMAIN Tail(todo[r]) : Tail(todo[r])[i] = todo[r][i + 1] /\ i + 1 \in DOMAIN todo[r]
  BY <1>1, HeadTailProperties
<1>3. pc'[r] \in {"loop", "exec"} /\ \A s \in Reqs : s # r => pc'[s] = pc[s]
  BY GotoType, Labelled DEF Exec, RunTool
<1>4. /\ Others(r) /\ UNCHANGED <<rec, mine, asked, finished>>
      /\ todo'[r] = Tail(todo[r]) /\ ran' = ran \cup {call} /\ ran \subseteq ran'
  BY <1>3 DEF Exec, RunTool, Others, TypeInv
<1>c. call.run = loop[r].run /\ call.ok = ok /\ call.tool = t /\ call.key = loop[r].key
  OBVIOUS
<1> HIDE DEF call, t
<1>5. /\ loop'[r].run = loop[r].run /\ loop'[r].key = loop[r].key
      /\ loop'[r].done = IF ok THEN loop[r].done \cup StepsOf(t) ELSE loop[r].done
  BY DEF Exec, TypeInv, Loops, t
<1>6. LoopOK(loop[r], asked, ran')
  BY <1>4, Grow DEF Sound
<1>7. LoopOK(loop'[r], asked', ran')
  <2>1. ASSUME ok, NEW s \in StepsOf(t) PROVE Backed(loop[r].run, s, ran')
    BY <1>4, <1>c, <2>1 DEF Backed, StepsOf
  <2> QED BY <1>4, <1>5, <1>6, <2>1 DEF LoopOK
<1>8. RecordOK(rec', asked', ran') /\ RecordOK(mine'[r], asked', ran')
  BY <1>4, Grow DEF Sound
<1>9. AtLabel(r)'
  BY <1>1, <1>2, <1>3, <1>4, <1>5 DEF AtLabel, Offends, Confirmed
<1>10. CallOK(call, asked')
  BY <1>2, <1>4, <1>c, <1>6 DEF CallOK, Offends, Confirmed, LoopOK, ShownKey
<1> QED BY <1>4, <1>7, <1>8, <1>9, <1>10, SoundMove

LEMMA SoundAction ==
  ASSUME TypeInv, Shape, Sound, NEW r \in Reqs,
         \/ \E b \in Batches : Act(r, b)
         \/ \E k \in WaitKinds : Ask(r, k)
         \/ AcceptFinish(r) \/ NoWait(r) \/ Show(r) \/ HoldTurn(r) \/ Suspend(r) \/ Finish(r)
  PROVE  Sound'
<1>1. ASSUME NEW b \in Batches, Act(r, b) PROVE Sound'
  <2>1. pc'[r] = "exec" /\ \A s \in Reqs : s # r => pc'[s] = pc[s]
    BY <1>1, GotoType, Labelled DEF Act
  <2>2. Others(r) /\ todo'[r] = b
    BY <1>1, <2>1 DEF Act, Others, TypeInv
  <2>3. AtLabel(r)'
    BY <1>1, <2>1, <2>2 DEF Act, AtLabel, Allowed, Offends, Confirmed
  <2> QED BY <1>1, <2>2, <2>3, SoundMove DEF Act, Sound, hist
<1>2. ASSUME NEW k \in WaitKinds, Ask(r, k) PROVE Sound'
  <2>1. pc'[r] = "ask" /\ \A s \in Reqs : s # r => pc'[s] = pc[s]
    BY <1>2, GotoType, Labelled DEF Ask
  <2>2. Others(r) /\ AtLabel(r)'
    BY <1>2, <2>1 DEF Ask, Others, TypeInv, AtLabel
  <2> QED BY <1>2, <2>2, SoundMove DEF Ask, Sound, hist
<1>3. CASE AcceptFinish(r) \/ Show(r)
  BY <1>3, SoundGoto, Labelled DEF AcceptFinish, Show, local, hist
<1>4. CASE NoWait(r) \/ HoldTurn(r) \/ Suspend(r) \/ Finish(r)
  <2>1. pc'[r] = "unlock" /\ \A s \in Reqs : s # r => pc'[s] = pc[s]
    BY <1>4, GotoType, Labelled DEF NoWait, HoldTurn, Suspend, Finish
  <2>2. Others(r) /\ AtLabel(r)' /\ UNCHANGED <<loop, mine, asked, ran>>
    BY <1>4, <2>1 DEF NoWait, HoldTurn, Suspend, Finish, Others, AtLabel, local, hist
  <2>3. LoopOK(loop'[r], asked', ran') /\ RecordOK(mine'[r], asked', ran')
    BY <2>2 DEF Sound
  <2>4. RecordOK(Close(rec), asked, ran)
    BY SoundParts DEF Sound, TypeInv
  <2>5. CASE NoWait(r)
    BY <2>2, <2>3, <2>4, <2>5, SoundMove DEF NoWait, hist
  <2>6. CASE HoldTurn(r)
    <3>1. QuestionOf(r) \in asked
      BY <2>6 DEF HoldTurn, Sound, AtLabel
    <3>2. /\ rec'.status = "idle" /\ rec'.active = None /\ rec'.awaiting = None
          /\ rec'.pending = QuestionOf(r)
      BY <2>6, CloseType DEF HoldTurn, TypeInv, Records
    <3>3. RecordOK(rec', asked', ran')
      BY <2>2, <3>1, <3>2 DEF RecordOK, Coherent
    <3> QED BY <2>2, <2>3, <2>6, <3>3, SoundMove DEF HoldTurn, hist
  <2>7. CASE Suspend(r)
    <3>1. QuestionOf(r) \in asked /\ QuestionOf(r).run = loop[r].run
      BY <2>7 DEF Suspend, Sound, AtLabel, QuestionOf
    <3>2. loop[r].run # None
      BY NoneAssumption DEF TypeInv, Loops
    <3>3. rec'.awaiting # None
      <4>1. loop[r].rounds >= 1 /\ loop[r] \in Loops
        BY <2>7 DEF Suspend, Shape, TypeInv, InRound
      <4>2. [q |-> QuestionOf(r), loop |-> loop[r]] \in Snapshots
        BY <4>1, QuestionType DEF Snapshots
      <4> QED BY <2>7, <4>2, NoneAssumption DEF Suspend
    <3>4. /\ rec'.status = "awaiting_user" /\ rec'.active = loop[r].run /\ rec'.pending = None
          /\ rec'.awaiting.q = QuestionOf(r) /\ rec'.awaiting.loop = loop[r]
      BY <2>7 DEF Suspend
    <3>5. RecordOK(rec', asked', ran')
      BY <2>2, <2>3, <3>1, <3>2, <3>3, <3>4 DEF RecordOK, Coherent
    <3> QED BY <2>2, <2>3, <2>7, <3>5, SoundMove DEF Suspend, hist
  <2>8. CASE Finish(r)
    <3>1. rec' = [Close(rec) EXCEPT !.pending = None] /\ finished' = finished \cup {loop[r].run}
      BY <2>8 DEF Finish
    <3>2. RecordOK(rec', asked', ran')
      BY <2>2, <2>4, <3>1 DEF RecordOK, Coherent, Close
    <3>3. \A s \in Steps : Backed(loop[r].run, s, ran')
      BY <2>2, <2>3, <2>8 DEF Finish, Sound, AtLabel, LoopOK
    <3> QED BY <2>2, <2>3, <3>1, <3>2, <3>3, SoundMove
  <2> QED BY <1>4, <2>5, <2>6, <2>7, <2>8
<1> QED BY <1>1, <1>2, <1>3, <1>4

LEMMA SoundIncident ==
  ASSUME TypeInv, Sound, Incident
  PROVE  Sound'
<1>1. CASE Lapse
  <2>1. RecordOK(rec', asked, ran)
    BY <1>1 DEF Lapse, Sound
  <2> QED BY <1>1, <2>1, SoundBeside DEF Lapse, local, hist
<1>2. CASE Cancel \/ Expire
  <2>1. RecordOK(rec', asked, ran)
    BY <1>2, SoundParts DEF Cancel, Expire, Sound, TypeInv
  <2> QED BY <1>2, <2>1, SoundBeside DEF Cancel, Expire, local, hist
<1>3. ASSUME NEW r \in Reqs, Fail(r) PROVE Sound'
  BY <1>3, SoundGoto, Labelled DEF Fail, local, hist
<1>4. ASSUME NEW r \in Reqs, Crash(r) PROVE Sound'
  <2>1. pc'[r] = "done" /\ \A s \in Reqs : s # r => pc'[s] = pc[s]
    BY <1>4, GotoType, Labelled DEF Crash
  <2>2. Others(r) /\ mine'[r] = FreshRecord /\ loop'[r] = NewLoop(r, None) /\ AtLabel(r)'
    BY <1>4, <2>1 DEF Crash, Forget, Others, TypeInv, AtLabel
  <2>3. RecordOK(rec', asked', ran')
    BY <1>4 DEF Crash, Sound, hist
  <2> QED BY <1>4, <2>2, <2>3, SoundParts, SoundMove DEF Crash, hist
<1> QED BY <1>1, <1>2, <1>3, <1>4 DEF Incident

LEMMA SoundStep == TypeInv /\ Shape /\ Sound /\ [Next]_vars => Sound'
<1> SUFFICES ASSUME TypeInv, Shape, Sound, [Next]_vars PROVE Sound'
  OBVIOUS
<1>1. CASE Incident
  BY <1>1, SoundIncident
<1>2. ASSUME NEW r \in Reqs, Send(r) PROVE Sound'
  BY <1>2, SoundEntry
<1>3. ASSUME NEW r \in Reqs, Serve(r) PROVE Sound'
  <2>1. CASE Acquire(r) \/ GiveUp(r) \/ Unlock(r) \/ Release(r)
    BY <2>1, SoundEntry
  <2>2. CASE Refuse(r) \/ Open(r) \/ Reopen(r) \/ Reply(r)
    BY <2>2, SoundOpen
  <2>3. CASE Decide(r)
    <3>1. /\ "require_steps" \in Codes
          /\ \A b \in Batches : CodeOf(b[FirstOffence(r, b)]) \in Codes
      BY DEF CodeOf, Codes
    <3> QED BY <2>3, <3>1, SoundRound, SoundAction DEF Decide, RejectAct, RejectFinish
  <2>4. CASE Think(r) \/ Incomplete(r)
    BY <2>4, SoundRound
  <2>5. CASE \E ok \in BOOLEAN : Exec(r, ok)
    BY <2>5, SoundExec
  <2>6. CASE NoWait(r) \/ Show(r) \/ HoldTurn(r) \/ Suspend(r) \/ Finish(r)
    BY <2>6, SoundAction
  <2> QED BY <1>3, <2>1, <2>2, <2>3, <2>4, <2>5, <2>6 DEF Serve
<1>4. CASE UNCHANGED vars
  <2>1. RecordOK(rec', asked, ran)
    BY <1>4 DEF vars, Sound
  <2> QED BY <1>4, <2>1, SoundBeside DEF vars, local, hist
<1> QED BY <1>1, <1>2, <1>3, <1>4 DEF Next

LEMMA SoundAlways == Spec => []Sound
<1>1. Init => Sound
  <2> SUFFICES ASSUME Init PROVE Sound
    OBVIOUS
  <2>1. \A r \in Reqs : loop[r] = NewLoop(r, None) /\ mine[r] = FreshRecord /\ pc[r] = "new"
    BY DEF Init
  <2> QED BY <2>1, SoundParts DEF Init, Sound, AtLabel
<1> QED BY <1>1, TypeInit, TypeStep, SoundStep, PTL DEF Spec

(* RecordCoherent: whatever crashes, cancels and stale reads interleave, the *)
(* session record awaits its user iff it holds the snapshot of its run.      *)
THEOREM RecordCorrect == Spec => []RecordCoherent
<1>1. Sound => RecordCoherent
  BY DEF Sound, RecordOK, RecordCoherent
<1> QED BY <1>1, SoundAlways, PTL

(* PolicyKept: for any playbook, no forbidden tool is ever called, and a     *)
(* tool that needs confirming only on the answer to a question shown.        *)
THEOREM PolicyCorrect == Spec => []PolicyKept
<1>1. Sound => PolicyKept
  BY DEF Sound, CallOK, PolicyKept
<1> QED BY <1>1, SoundAlways, PTL

(* StepsBeforeFinish: for any set of required steps, a run that finishes has *)
(* a successful call behind each, whichever requests made them.              *)
THEOREM StepsCorrect == Spec => []StepsBeforeFinish
<1>1. Sound => StepsBeforeFinish
  BY DEF Sound, Backed, StepsBeforeFinish
<1> QED BY <1>1, SoundAlways, PTL

-------------------------------------------------------------------------------
(* Questions and answers.                                                    *)

(* Where a request is, as its steps can no longer undo it: it has begun its  *)
(* run, and it is past its question.                                         *)
Begun(p, r) == p[r] \notin {"new", "lock", "open", "reply"}
Over == {"unlock", "release", "done"}
Past(p, q) == p[q.by] \in Over

(* What a record asks was asked by a request that is through.                *)
OnRecord(x, p) ==
  /\ x.awaiting # None => Past(p, x.awaiting.q) /\ Begun(p, x.awaiting.q.run)
  /\ x.pending # None => Past(p, x.pending)

(* A request asks once, in its last round, takes one question up, and its    *)
(* name stands for no run before it begins one.                              *)
AskInv ==
  /\ \A q \in asked : /\ pc[q.by] \in Over \cup {"hold"}
                      /\ pc[q.by] = "hold" => q = QuestionOf(q.by)
  /\ \A r \in Reqs : ~Begun(pc, r) => took[r] = None /\ thoughts[r] = 0 /\ r \notin cancelled
  /\ \A r \in Reqs : pc[r] \in Driving => Begun(pc, loop[r].run)
  /\ OnRecord(rec, pc)
  /\ \A r \in Reqs : OnRecord(mine[r], pc)
  /\ \A r \in Reqs : took[r] # None => Past(pc, took[r])

(* A request moves on, whatever else its step does.                          *)
Moves(r, l) ==
  /\ pc' = [pc EXCEPT ![r] = l]
  /\ Begun(pc, r) => l \notin {"new", "lock", "open", "reply"}
  /\ pc[r] \in Over => l \in Over
  /\ pc[r] = "hold" => l \in Over

LEMMA Onward ==
  ASSUME TypeInv, NEW r \in Reqs, NEW l, Moves(r, l)
  PROVE  /\ pc'[r] = l /\ \A s \in Reqs : s # r => pc'[s] = pc[s]
         /\ \A s \in Reqs : Begun(pc, s) => Begun(pc', s)
         /\ \A s \in Reqs : pc[s] \in Over => pc'[s] \in Over
         /\ \A q \in Questions : Past(pc, q) => Past(pc', q)
         /\ \A x \in Records : OnRecord(x, pc) => OnRecord(x, pc')
<1>1. pc'[r] = l /\ \A s \in Reqs : s # r => pc'[s] = pc[s]
  BY DEF Moves, TypeInv
<1>2. \A s \in Reqs : Begun(pc, s) => Begun(pc', s)
  BY <1>1 DEF Moves, Begun
<1>3. \A s \in Reqs : pc[s] \in Over => pc'[s] \in Over
  BY <1>1 DEF Moves
<1>4. \A q \in Questions : Past(pc, q) => Past(pc', q)
  BY <1>3 DEF Past, Questions
<1>5. ASSUME NEW x \in Records, OnRecord(x, pc) PROVE OnRecord(x, pc')
  <2>1. x.awaiting # None => x.awaiting.q \in Questions /\ x.awaiting.q.run \in Reqs
    BY DEF Records, Snapshots, Questions
  <2>2. x.pending # None => x.pending \in Questions
    BY DEF Records
  <2> QED BY <1>2, <1>4, <1>5, <2>1, <2>2 DEF OnRecord
<1> QED BY <1>1, <1>2, <1>3, <1>4, <1>5

(* What a step of one request owes AskInv.                                   *)
LEMMA AskMove ==
  ASSUME TypeInv, TypeInv', AskInv, NEW r \in Reqs, NEW l, Moves(r, l),
         \A s \in Reqs : s # r => /\ loop'[s] = loop[s] /\ kind'[s] = kind[s]
                                  /\ mine'[s] = mine[s] /\ took'[s] = took[s],
         \/ asked' = asked /\ l # "hold"
         \/ asked' = asked \cup {QuestionOf(r)} /\ pc[r] = "ask" /\ l = "hold" /\ UNCHANGED <<loop, kind>>,
         l \in Driving => Begun(pc', loop'[r].run),
         rec' = rec \/ OnRecord(rec', pc'), mine'[r] = mine[r] \/ OnRecord(mine'[r], pc'),
         took'[r] = took[r] \/ (took'[r] # None => Past(pc, took'[r])),
         ~Begun(pc', r) => took'[r] = None,
         \A s \in Reqs : thoughts'[s] = thoughts[s] \/ Begun(pc, s),
         cancelled' = cancelled
  PROVE  AskInv'
<1>1. /\ pc'[r] = l /\ \A s \in Reqs : s # r => pc'[s] = pc[s]
      /\ \A s \in Reqs : Begun(pc, s) => Begun(pc', s)
      /\ \A s \in Reqs : pc[s] \in Over => pc'[s] \in Over
      /\ \A q \in Questions : Past(pc, q) => Past(pc', q)
      /\ \A x \in Records : OnRecord(x, pc) => OnRecord(x, pc')
  BY Onward
<1>2. ASSUME NEW q \in asked'
      PROVE  /\ pc'[q.by] \in Over \cup {"hold"}
             /\ pc'[q.by] = "hold" => q = QuestionOf(q.by)'
  <2>1. q \in Questions /\ q.by \in Reqs
    BY DEF TypeInv, Questions
  <2>2. CASE q \in asked /\ q.by # r
    BY <1>1, <2>1, <2>2 DEF AskInv, QuestionOf
  <2>3. CASE q \in asked /\ q.by = r
    <3>1. pc[r] \in Over \cup {"hold"}
      BY <2>3 DEF AskInv
    <3>2. l \in Over
      BY <3>1 DEF Moves
    <3> QED BY <1>1, <2>3, <3>2 DEF Over
  <2>4. CASE q \notin asked
    BY <1>1, <2>4 DEF QuestionOf
  <2> QED BY <2>2, <2>3, <2>4
<1>3. ASSUME NEW s \in Reqs, ~Begun(pc', s)
      PROVE  took'[s] = None /\ thoughts'[s] = 0 /\ s \notin cancelled'
  BY <1>1, <1>3 DEF AskInv
<1>4. ASSUME NEW s \in Reqs, pc'[s] \in Driving PROVE Begun(pc', loop'[s].run)
  <2>1. loop[s].run \in Reqs
    BY DEF TypeInv, Loops
  <2> QED BY <1>1, <1>4, <2>1 DEF AskInv
<1>5. OnRecord(rec', pc')
  BY <1>1 DEF AskInv, TypeInv
<1>6. ASSUME NEW s \in Reqs PROVE OnRecord(mine'[s], pc')
  BY <1>1 DEF AskInv, TypeInv
<1>7. ASSUME NEW s \in Reqs, took'[s] # None PROVE Past(pc', took'[s])
  <2>1. took'[s] \in Questions
    BY <1>7 DEF TypeInv
  <2> QED BY <1>1, <1>7, <2>1 DEF AskInv
<1> QED BY <1>2, <1>3, <1>4, <1>5, <1>6, <1>7 DEF AskInv

(* A label a step of the code moves to.                                      *)
LEMMA Along ==
  /\ \A r \in Reqs : \A l \in Labels :
       /\ pc[r] \in Driving /\ pc[r] # "hold" /\ l \in Driving \cup Over /\ Goto(r, l) => Moves(r, l)
       /\ l \in Over /\ Goto(r, l) => Moves(r, l)
       /\ pc[r] \in {"open", "reply"} /\ l \in Driving \cup Over \cup {"reply"} /\ Goto(r, l) => Moves(r, l)
       /\ pc[r] = "new" /\ l = "lock" /\ Goto(r, l) => Moves(r, l)
       /\ pc[r] = "lock" /\ l = "open" /\ Goto(r, l) => Moves(r, l)
  /\ Over \subseteq Labels /\ Driving \subseteq Labels /\ Over \cap Driving = {}
BY DEF Goto, Moves, Begun, Over, Driving, Labels

LEMMA AskEntry ==
  ASSUME TypeInv, TypeInv', AskInv, NEW r \in Reqs,
         Send(r) \/ Acquire(r) \/ GiveUp(r) \/ Unlock(r) \/ Release(r)
  PROVE  AskInv'
<1>1. CASE Send(r)
  <2>1. /\ pc[r] = "new" /\ Goto(r, "lock")
        /\ UNCHANGED <<rec, mine, loop, kind, asked, took, thoughts, cancelled>>
    BY <1>1 DEF Send, SendRun, SendResume
  <2>2. Moves(r, "lock") /\ "lock" \notin Driving
    BY <2>1, Along, Labelled
  <2>3. ~Begun(pc, r)
    BY <2>1 DEF Begun
  <2> QED BY <2>1, <2>2, <2>3, AskMove DEF AskInv
<1>2. CASE Acquire(r)
  <2>1. /\ pc[r] = "lock" /\ Goto(r, "open")
        /\ UNCHANGED <<rec, mine, loop, kind, asked, took, thoughts, cancelled>>
    BY <1>2 DEF Acquire, local, hist
  <2>2. Moves(r, "open") /\ "open" \notin Driving
    BY <2>1, Along, Labelled
  <2>3. ~Begun(pc, r)
    BY <2>1 DEF Begun
  <2> QED BY <2>1, <2>2, <2>3, AskMove DEF AskInv
<1>3. CASE GiveUp(r) \/ Release(r)
  <2>1. /\ Goto(r, "done")
        /\ UNCHANGED <<rec, mine, loop, kind, asked, took, thoughts, cancelled>>
    BY <1>3 DEF GiveUp, Release, local, hist
  <2>2. "done" \in Over /\ "done" \notin Driving /\ "done" \in Labels
    BY Labelled DEF Over
  <2>3. Moves(r, "done") /\ Begun(pc', r)
    BY <2>1, <2>2, Along DEF Begun, Goto, TypeInv
  <2> QED BY <2>1, <2>2, <2>3, AskMove DEF AskInv
<1>4. CASE Unlock(r)
  <2>1. PICK l \in {"release", "done"} : Goto(r, l)
    BY <1>4 DEF Unlock
  <2>2. l \in Over /\ l \notin Driving /\ l \in Labels
    BY Labelled DEF Over
  <2>3. Moves(r, l) /\ Begun(pc', r)
    BY <2>1, <2>2, Along DEF Begun, Goto, TypeInv
  <2>4. /\ UNCHANGED <<rec, asked, took, thoughts, cancelled>>
        /\ mine'[r] = FreshRecord
        /\ \A s \in Reqs : s # r => loop'[s] = loop[s] /\ kind'[s] = kind[s] /\ mine'[s] = mine[s]
    BY <1>4 DEF Unlock, Forget, hist, TypeInv
  <2>5. OnRecord(FreshRecord, pc')
    BY DEF OnRecord, FreshRecord
  <2> QED BY <2>2, <2>3, <2>4, <2>5, AskMove
<1> QED BY <1>1, <1>2, <1>3, <1>4

LEMMA AskOpen ==
  ASSUME TypeInv, TypeInv', Shape, Sound, AskInv, NEW r \in Reqs, Refuse(r) \/ Open(r) \/ Reopen(r) \/ Reply(r)
  PROVE  AskInv'
<1>0. "loop" \in Driving /\ {"loop", "reply", "unlock"} \subseteq Labels /\ "unlock" \in Over
      /\ "unlock" \notin Driving /\ "reply" \notin Driving
  BY Labelled DEF Over
<1>1. CASE Refuse(r)
  <2>1. /\ Goto(r, "unlock")
        /\ UNCHANGED <<rec, mine, loop, kind, asked, took, thoughts, cancelled>>
    BY <1>1 DEF Refuse, local, hist
  <2>2. Moves(r, "unlock") /\ Begun(pc', r)
    BY <1>0, <2>1, Along DEF Begun, Goto, TypeInv
  <2> QED BY <1>0, <2>1, <2>2, AskMove DEF AskInv
<1>2. CASE Open(r)
  <2>1. /\ pc[r] = "open" /\ Goto(r, "loop") /\ UNCHANGED <<mine, kind, asked, thoughts, cancelled>>
        /\ rec' = [rec EXCEPT !.status = "running", !.active = r, !.awaiting = None]
        /\ loop'[r] = NewLoop(r, KeyOf(Carried(r))) /\ took'[r] = Carried(r)
        /\ \A s \in Reqs : s # r => loop'[s] = loop[s] /\ took'[s] = took[s]
    BY <1>2 DEF Open, TypeInv
  <2>2. Moves(r, "loop")
    BY <1>0, <2>1, Along
  <2>3. Begun(pc', r) /\ loop'[r].run = r
    BY <2>1 DEF Begun, Goto, NewLoop, TypeInv
  <2>4. rec'.awaiting = None /\ rec'.pending = rec.pending
    BY <2>1 DEF TypeInv, Records
  <2>5. rec \in Records
    BY DEF TypeInv
  <2>6. OnRecord(rec, pc')
    BY <2>2, <2>5, Onward DEF AskInv
  <2>7. OnRecord(rec', pc')
    BY <2>4, <2>6 DEF OnRecord
  <2>8. Carried(r) # None => Past(pc, Carried(r))
    BY DEF AskInv, OnRecord, Carried
  <2>9. asked' = asked /\ mine'[r] = mine[r]
    BY <2>1
  <2> QED BY <2>1, <2>2, <2>3, <2>7, <2>8, <2>9, AskMove
<1>3. CASE Reopen(r)
  <2>1. /\ pc[r] = "open" /\ UNCHANGED <<rec, loop, kind, asked, took, thoughts, cancelled>>
        /\ mine' \in [Reqs -> Records] /\ mine'[r] \in {rec, mine[r]}
        /\ \A s \in Reqs : s # r => mine'[s] = mine[s]
    BY <1>3 DEF Reopen, hist, TypeInv
  <2>2. PICK l \in {"reply", "unlock"} : Goto(r, l)
    BY <1>3 DEF Reopen
  <2>3. Moves(r, l) /\ l \notin Driving /\ l # "hold"
    BY <1>0, <2>1, <2>2, Along
  <2>4. rec \in Records /\ ~Begun(pc, r)
    BY <2>1 DEF TypeInv, Begun
  <2>5. OnRecord(rec, pc')
    BY <2>3, <2>4, Onward DEF AskInv
  <2>6. took[r] = None
    BY <2>4 DEF AskInv
  <2> QED BY <2>1, <2>3, <2>5, <2>6, AskMove
<1>4. CASE Reply(r)
  <2> DEFINE snap == mine[r].awaiting
  <2>1. /\ pc[r] = "reply" /\ Goto(r, "loop") /\ UNCHANGED <<mine, kind, asked, thoughts, cancelled>>
        /\ rec' = [mine[r] EXCEPT !.status = "running", !.awaiting = None] /\ took'[r] = snap.q
        /\ loop'[r] = [snap.loop EXCEPT !.key = IF snap.q.kind = "await_confirm" THEN snap.q ELSE @]
        /\ \A s \in Reqs : s # r => loop'[s] = loop[s] /\ took'[s] = took[s]
    BY <1>4 DEF Reply, TypeInv
  <2>2. Moves(r, "loop")
    BY <1>0, <2>1, Along
  <2>3. mine[r] \in Records /\ snap # None /\ snap.loop \in Loops
    BY <2>1 DEF Shape, TypeInv, Records, Snapshots
  <2>4. loop'[r].run = snap.loop.run
    BY <2>1, <2>3 DEF Loops
  <2>5. OnRecord(mine[r], pc') /\ OnRecord(mine[r], pc)
    BY <2>2, <2>3, Onward DEF AskInv
  <2>6. Coherent(mine[r])
    BY DEF Sound, RecordOK
  <2>7. Begun(pc', loop'[r].run) /\ (took'[r] # None => Past(pc, took'[r]))
    BY <2>1, <2>3, <2>4, <2>5, <2>6 DEF OnRecord, Coherent
  <2>8. rec'.awaiting = None /\ rec'.pending = mine[r].pending
    BY <2>1, <2>3 DEF Records
  <2>9. OnRecord(rec', pc') /\ Begun(pc', r)
    BY <2>1, <2>2, <2>5, <2>8, Onward DEF OnRecord, Begun
  <2>10. asked' = asked /\ mine'[r] = mine[r]
    BY <2>1
  <2> QED BY <2>1, <2>2, <2>7, <2>9, <2>10, AskMove
<1> QED BY <1>1, <1>2, <1>3, <1>4

(* Most of the loop leaves the record alone and takes up no question.        *)
LEMMA AskWithin ==
  ASSUME TypeInv, TypeInv', AskInv, NEW r \in Reqs, pc[r] \in Driving, pc[r] # "hold",
         NEW l \in Driving \cup {"unlock"}, Goto(r, l),
         l # "hold", loop'[r].run = loop[r].run, UNCHANGED <<rec, mine, asked, took, cancelled>>,
         \A s \in Reqs : s # r => loop'[s] = loop[s] /\ kind'[s] = kind[s],
         \A s \in Reqs : thoughts'[s] = thoughts[s] \/ s = loop[r].run
  PROVE  AskInv'
<1>1. Moves(r, l) /\ l \in Labels
  BY Along DEF Over
<1>2. Begun(pc, loop[r].run) /\ loop[r].run \in Reqs
  BY DEF AskInv, TypeInv, Loops
<1>3. Begun(pc', loop'[r].run)
  BY <1>1, <1>2, Onward
<1>4. Begun(pc', r)
  BY <1>1, Onward DEF Begun, Driving
<1>5. /\ asked' = asked /\ rec' = rec /\ mine'[r] = mine[r] /\ took'[r] = took[r]
      /\ \A s \in Reqs : s # r => mine'[s] = mine[s] /\ took'[s] = took[s]
      /\ \A s \in Reqs : thoughts'[s] = thoughts[s] \/ Begun(pc, s)
  BY <1>2
<1> QED BY <1>1, <1>3, <1>4, <1>5, AskMove

(* A call changes neither the run nor the rounds.                            *)
LEMMA ExecLoop ==
  ASSUME TypeInv, NEW r \in Reqs, NEW ok \in BOOLEAN, Exec(r, ok)
  PROVE  /\ loop'[r].run = loop[r].run /\ loop'[r].rounds = loop[r].rounds
         /\ \A s \in Reqs : s # r => loop'[s] = loop[s]
<1> DEFINE d == IF ok THEN loop[r].done \cup StepsOf(Head(todo[r])) ELSE loop[r].done
           p == IF Tail(todo[r]) = <<>> THEN 0 ELSE loop[r].parse
<1>1. loop \in [Reqs -> Loops]
  BY DEF TypeInv
<1>2. loop' = [loop EXCEPT ![r] = [loop[r] EXCEPT !.done = d, !.parse = p]]
  BY <1>1 DEF Exec
<1> HIDE DEF d, p
<1>3. loop'[r] = [loop[r] EXCEPT !.done = d, !.parse = p] /\ loop[r] \in Loops
  BY <1>1, <1>2
<1>4. \A s \in Reqs : s # r => loop'[s] = loop[s]
  BY <1>1, <1>2
<1> QED BY <1>3, <1>4 DEF Loops

LEMMA AskLoop ==
  ASSUME TypeInv, TypeInv', AskInv, NEW r \in Reqs,
         \/ Think(r) \/ Incomplete(r) \/ Decide(r) \/ NoWait(r) \/ Show(r) \/ HoldTurn(r)
         \/ Suspend(r) \/ Finish(r) \/ \E ok \in BOOLEAN : Exec(r, ok)
  PROVE  AskInv'
<1>0. /\ {"loop", "decide", "exec", "ask", "hold", "finish"} = Driving
      /\ "unlock" \in Over /\ "unlock" \notin Driving /\ Labels = Labels \cup Driving \cup Over
  BY Labelled DEF Driving, Over, Labels
<1>1. CASE Think(r) \/ Incomplete(r)
  <2>1. PICK l \in {"decide", "unlock"} : Goto(r, l)
    BY <1>1 DEF Think, Incomplete
  <2>2. /\ pc[r] = "loop" /\ UNCHANGED <<rec, mine, asked, took, cancelled, kind>>
        /\ loop'[r].run = loop[r].run /\ \A s \in Reqs : s # r => loop'[s] = loop[s]
        /\ \A s \in Reqs : thoughts'[s] = thoughts[s] \/ s = loop[r].run
    BY <1>1 DEF Think, Incomplete, local, hist, TypeInv, Loops
  <2> QED BY <1>0, <2>1, <2>2, AskWithin
<1>2. CASE Decide(r)
  <2>1. PICK l \in {"unlock", "loop", "finish", "exec", "ask"} : Goto(r, l)
    BY <1>2 DEF Decide, StreamError, ParseError, RejectFinish, RejectAct, Reject, AcceptFinish, Act, Ask
  <2>2. /\ pc[r] = "decide" /\ UNCHANGED <<rec, mine, asked, took, thoughts, cancelled>>
        /\ loop'[r].run = loop[r].run
        /\ \A s \in Reqs : s # r => loop'[s] = loop[s] /\ kind'[s] = kind[s]
    <3>1. CASE ParseError(r) \/ \E c \in Codes : pc[r] = "decide" /\ Reject(r, c)
      BY <3>1 DEF ParseError, Reject, hist, TypeInv, Loops
    <3>2. CASE StreamError(r) \/ AcceptFinish(r)
      BY <3>2 DEF StreamError, AcceptFinish, local, hist
    <3>3. CASE (\E b \in Batches : Act(r, b)) \/ (\E k \in WaitKinds : Ask(r, k))
      BY <3>3 DEF Act, Ask, hist, TypeInv
    <3>4. /\ "require_steps" \in Codes
          /\ \A b \in Batches : CodeOf(b[FirstOffence(r, b)]) \in Codes
      BY DEF CodeOf, Codes
    <3> QED BY <1>2, <3>1, <3>2, <3>3, <3>4 DEF Decide, RejectAct, RejectFinish
  <2> QED BY <1>0, <2>1, <2>2, AskWithin
<1>3. ASSUME NEW ok \in BOOLEAN, Exec(r, ok) PROVE AskInv'
  <2>1. PICK l \in {"loop", "exec"} : Goto(r, l)
    BY <1>3 DEF Exec, RunTool
  <2>2. loop'[r].run = loop[r].run /\ \A s \in Reqs : s # r => loop'[s] = loop[s]
    BY <1>3, ExecLoop
  <2>3. pc[r] = "exec" /\ UNCHANGED <<rec, mine, kind, asked, took, thoughts, cancelled>>
    BY <1>3 DEF Exec
  <2> QED BY <1>0, <2>1, <2>2, <2>3, AskWithin
<1>4. CASE Show(r)
  <2>1. /\ pc[r] = "ask" /\ Goto(r, "hold") /\ asked' = asked \cup {QuestionOf(r)}
        /\ UNCHANGED <<rec, mine, loop, kind, took, thoughts, cancelled>>
    BY <1>4 DEF Show, local
  <2>2. Moves(r, "hold")
    BY <1>0, <2>1, Along
  <2>3. Begun(pc, loop[r].run) /\ loop[r].run \in Reqs
    BY <1>0, <2>1 DEF AskInv, TypeInv, Loops
  <2>4. Begun(pc', loop'[r].run) /\ Begun(pc', r)
    BY <2>1, <2>2, <2>3, Onward DEF Begun
  <2> QED BY <2>1, <2>2, <2>4, AskMove
<1>5. CASE NoWait(r) \/ HoldTurn(r) \/ Suspend(r) \/ Finish(r)
  <2>1. /\ pc[r] \in {"ask", "hold", "finish"} /\ Goto(r, "unlock")
        /\ UNCHANGED <<mine, loop, kind, asked, took, thoughts, cancelled>>
    BY <1>5 DEF NoWait, HoldTurn, Suspend, Finish, local, hist
  <2>2. Moves(r, "unlock") /\ rec \in Records
    BY <1>0, <2>1, Along DEF TypeInv
  <2>3. OnRecord(rec, pc') /\ Begun(pc', r) /\ pc'[r] = "unlock"
    BY <2>1, <2>2, Onward DEF AskInv, Begun
  <2>4. QuestionOf(r).by = r /\ QuestionOf(r).run = loop[r].run
    BY DEF QuestionOf
  <2>5. Begun(pc, loop[r].run) /\ loop[r].run \in Reqs
    BY <1>0, <2>1 DEF AskInv, TypeInv, Loops
  <2>6. Past(pc', QuestionOf(r)) /\ Begun(pc', QuestionOf(r).run)
    BY <1>0, <2>2, <2>3, <2>4, <2>5, Onward DEF Past
  <2>7. /\ Close(rec).awaiting = None /\ Close(rec).pending = rec.pending /\ Close(rec) \in Records
    BY <2>2, CloseType
  <2>8. OnRecord(rec', pc')
    <3>1. CASE NoWait(r)
      BY <3>1, <2>3, <2>7 DEF NoWait, OnRecord
    <3>2. CASE HoldTurn(r)
      <4>1. rec'.awaiting = None /\ rec'.pending = QuestionOf(r)
        BY <3>2, <2>7 DEF HoldTurn, Records
      <4> QED BY <4>1, <2>6 DEF OnRecord
    <3>3. CASE Suspend(r)
      <4>1. rec'.pending = None /\ rec'.awaiting.q = QuestionOf(r)
        BY <3>3 DEF Suspend
      <4> QED BY <4>1, <2>6 DEF OnRecord
    <3>4. CASE Finish(r)
      <4>1. rec'.awaiting = None /\ rec'.pending = None
        BY <3>4, <2>7 DEF Finish, Records
      <4> QED BY <4>1 DEF OnRecord
    <3> QED BY <1>5, <3>1, <3>2, <3>3, <3>4
  <2> QED BY <1>0, <2>1, <2>2, <2>3, <2>8, AskMove
<1> QED BY <1>1, <1>2, <1>3, <1>4, <1>5

LEMMA AskIncident ==
  ASSUME TypeInv, TypeInv', AskInv, Incident
  PROVE  AskInv'
<1>1. CASE Lapse \/ Cancel \/ Expire
  <2>1. /\ UNCHANGED <<pc, mine, loop, kind, asked, took, thoughts>>
    BY <1>1 DEF Lapse, Cancel, Expire, local, hist
  <2>2. rec \in Records
    BY DEF TypeInv
  <2>3. OnRecord(rec', pc)
    BY <1>1, <2>2, CloseType DEF Lapse, Cancel, Expire, AskInv, OnRecord, FreshRecord
  <2>4. \A r \in cancelled' : r \in cancelled \/ (rec.awaiting # None /\ r = rec.awaiting.q.run)
    BY <1>1 DEF Lapse, Cancel, Expire, hist
  <2>5. \A r \in Reqs : ~Begun(pc, r) => r \notin cancelled'
    BY <2>4 DEF AskInv, OnRecord
  <2> QED BY <2>1, <2>3, <2>5 DEF AskInv, QuestionOf
<1>2. ASSUME NEW r \in Reqs, Fail(r) \/ Crash(r) PROVE AskInv'
  <2>1. PICK l \in {"unlock", "done"} : Goto(r, l)
    BY <1>2 DEF Fail, Crash
  <2>2. l \in Over /\ l \notin Driving /\ l \in Labels /\ l # "hold"
    BY Labelled DEF Over
  <2>3. Moves(r, l) /\ Begun(pc', r)
    BY <2>1, <2>2, Along DEF Begun, Goto, TypeInv
  <2>4. /\ UNCHANGED <<rec, asked, took, thoughts, cancelled>>
        /\ mine'[r] \in {mine[r], FreshRecord}
        /\ \A s \in Reqs : s # r => loop'[s] = loop[s] /\ kind'[s] = kind[s] /\ mine'[s] = mine[s]
    BY <1>2 DEF Fail, Crash, Forget, local, hist, TypeInv
  <2>5. OnRecord(FreshRecord, pc')
    BY DEF OnRecord, FreshRecord
  <2> QED BY <2>2, <2>3, <2>4, <2>5, AskMove
<1> QED BY <1>1, <1>2 DEF Incident

LEMMA AskStep == TypeInv /\ TypeInv' /\ Shape /\ Sound /\ AskInv /\ [Next]_vars => AskInv'
<1> SUFFICES ASSUME TypeInv, TypeInv', Shape, Sound, AskInv, [Next]_vars PROVE AskInv'
  OBVIOUS
<1>1. CASE Incident
  BY <1>1, AskIncident
<1>2. ASSUME NEW r \in Reqs, Send(r) \/ Serve(r) PROVE AskInv'
  BY <1>2, AskEntry, AskOpen, AskLoop DEF Serve
<1>3. CASE UNCHANGED vars
  BY <1>3 DEF vars, local, hist, AskInv, QuestionOf, Resumed
<1> QED BY <1>1, <1>2, <1>3 DEF Next

LEMMA ShapeAlways == Spec => []Shape
BY TypeInit, TypeStep, PTL DEF Spec

LEMMA AloneAlways == Spec => []Alone
<1>1. Init => Alone
  BY Served DEF Init, Alone
<1> QED BY <1>1, AloneStep, TypeCorrect, PTL DEF Spec

LEMMA AskInit == Init => AskInv
<1> SUFFICES ASSUME Init PROVE AskInv
  OBVIOUS
<1>1. \A r \in Reqs : pc[r] = "new" /\ took[r] = None /\ thoughts[r] = 0 /\ mine[r] = FreshRecord
  BY DEF Init
<1>2. OnRecord(FreshRecord, pc) /\ "new" \notin Driving
  BY Labelled DEF OnRecord, FreshRecord
<1> QED BY <1>1, <1>2 DEF Init, AskInv

LEMMA AskAlways == Spec => []AskInv
<1>1. Spec => []TypeInv
  BY TypeCorrect
<1> QED BY <1>1, ShapeAlways, SoundAlways, AskInit, AskStep, PTL DEF Spec

(* A snapshot that may still be resumed: no resume has taken its question,   *)
(* its rounds count the decisions of its run, which is not cancelled.        *)
Offer(a) ==
  a # None => /\ \A r \in Reqs : Resumed(r) => took[r] # a.q
              /\ thoughts[a.loop.run] <= a.loop.rounds
              /\ a.loop.run \notin cancelled

(* While no TTL ran out: whoever drives the loop has the only copy of it,    *)
(* and no snapshot lies in the record.                                       *)
Drives(r) ==
  /\ rec.awaiting = None
  /\ thoughts[loop[r].run] <= loop[r].rounds /\ loop[r].run \notin cancelled
LiveParts ==
  /\ \A r \in Reqs : pc[r] \in Driving => Drives(r)
  /\ Offer(rec.awaiting)
  /\ \A r \in Reqs : pc[r] = "reply" => Offer(mine[r].awaiting)
  /\ \A r, s \in Reqs : r # s /\ Resumed(r) /\ Resumed(s) => took[r] # took[s]
  /\ \A r \in Reqs : thoughts[r] <= MaxRounds
  /\ \A c \in ran : ~c.late
LiveInv == n["lapse"] = 0 => LiveParts

LEMMA OneServed ==
  ASSUME Alone, n["lapse"] = 0, NEW r \in Reqs, pc[r] \in Serving
  PROVE  \A s \in Reqs : pc[s] \in Serving => s = r
BY DEF Alone

(* A step by which a request leaves the loop, or does not enter it.          *)
LEMMA LiveAside ==
  ASSUME LiveParts, NEW r \in Reqs, NEW l, l \notin Driving, l # "reply",
         pc'[r] = l, \A s \in Reqs : s # r => pc'[s] = pc[s] /\ loop'[s] = loop[s] /\ mine'[s] = mine[s],
         rec'.awaiting = rec.awaiting \/ rec'.awaiting = None,
         UNCHANGED <<took, thoughts, ran, cancelled>>, \A s \in Reqs : Resumed(s)' => Resumed(s)
  PROVE  LiveParts'
<1>1. \A a : Offer(a) => Offer(a)'
  BY DEF Offer
<1>2. ASSUME NEW s \in Reqs, pc'[s] \in Driving PROVE Drives(s)'
  BY <1>2 DEF LiveParts, Drives
<1>3. Offer(None)' /\ \A a, b : a = b /\ Offer(a) => Offer(b)'
  BY <1>1 DEF Offer
<1>4. PICK a : a = rec.awaiting
  OBVIOUS
<1>5. Offer(rec.awaiting)'
  BY DEF LiveParts, Offer
<1>6. ASSUME NEW s \in Reqs, pc'[s] = "reply" PROVE Offer(mine[s].awaiting)'
  BY <1>6 DEF LiveParts, Offer
<1> QED BY <1>2, <1>5, <1>6 DEF LiveParts

(* A step within the loop that decides nothing.                              *)
LEMMA LiveWithin ==
  ASSUME LiveParts, NEW r \in Reqs, pc[r] \in Driving, NEW l, l # "reply",
         pc'[r] = l, \A s \in Reqs : s # r => pc'[s] = pc[s] /\ loop'[s] = loop[s],
         loop'[r].run = loop[r].run, loop'[r].rounds = loop[r].rounds,
         UNCHANGED <<rec, mine, req, took, thoughts, cancelled>>,
         \A c \in ran' : c \in ran \/ ~c.late
  PROVE  LiveParts'
<1>1. ASSUME NEW s \in Reqs, pc'[s] \in Driving PROVE Drives(s)'
  BY <1>1 DEF LiveParts, Drives
<1>2. Offer(rec.awaiting)'
  BY DEF LiveParts, Offer, Resumed
<1>3. ASSUME NEW s \in Reqs, pc'[s] = "reply" PROVE Offer(mine[s].awaiting)'
  BY <1>3 DEF LiveParts, Offer, Resumed
<1> QED BY <1>1, <1>2, <1>3 DEF LiveParts, Resumed

(* No step takes an incident back.                                           *)
LEMMA Counted ==
  ASSUME TypeInv, NEW k \in Kinds, Count(k)
  PROVE  \A j \in Kinds : n'[j] \in Nat /\ n[j] \in Nat /\ n'[j] >= n[j]
<1>1. n \in [Kinds -> Nat] /\ n' = [n EXCEPT ![k] = @ + 1]
  BY DEF Count, TypeInv
<1> QED BY <1>1

LEMMA IncidentsStay ==
  ASSUME TypeInv, [Next]_vars
  PROVE  \A j \in Kinds : n'[j] = 0 => n[j] = 0
<1>1. CASE Lapse \/ Cancel \/ Expire
  <2>1. n' = n \/ \E k \in Kinds : Count(k)
    BY <1>1 DEF Lapse, Cancel, Expire, Kinds
  <2> QED BY <2>1, Counted
<1>2. ASSUME NEW r \in Reqs, Fail(r) \/ Crash(r) PROVE \A j \in Kinds : n'[j] = 0 => n[j] = 0
  <2>1. \E k \in Kinds : Count(k)
    BY <1>2 DEF Fail, Crash, Kinds
  <2> QED BY <2>1, Counted
<1>3. ASSUME NEW r \in Reqs, Send(r) \/ Serve(r) PROVE n' = n
  <2>1. CASE Send(r) \/ Acquire(r) \/ GiveUp(r) \/ Unlock(r) \/ Release(r)
    BY <2>1 DEF Send, SendRun, SendResume, Acquire, GiveUp, Unlock, Release
  <2>2. CASE Refuse(r) \/ Open(r) \/ Reopen(r) \/ Reply(r) \/ Think(r) \/ Incomplete(r)
    BY <2>2 DEF Refuse, Open, Reopen, Reply, Think, Incomplete
  <2>3. CASE Decide(r)
    BY <2>3 DEF Decide, StreamError, ParseError, RejectFinish, AcceptFinish, RejectAct, Reject, Act, Ask
  <2>4. CASE \/ \E ok \in BOOLEAN : Exec(r, ok)
             \/ NoWait(r) \/ Show(r) \/ HoldTurn(r) \/ Suspend(r) \/ Finish(r)
    BY <2>4 DEF Exec, NoWait, Show, HoldTurn, Suspend, Finish
  <2> QED BY <1>3, <2>1, <2>2, <2>3, <2>4 DEF Serve
<1>4. CASE UNCHANGED vars
  BY <1>4 DEF vars
<1> QED BY <1>1, <1>2, <1>3, <1>4 DEF Next, Incident

LEMMA LiveEntry ==
  ASSUME TypeInv, AskInv, LiveParts, NEW r \in Reqs,
         Send(r) \/ Acquire(r) \/ GiveUp(r) \/ Unlock(r) \/ Release(r) \/ Refuse(r)
  PROVE  LiveParts'
<1>1. CASE Send(r)
  <2>1. /\ pc[r] = "new" /\ Goto(r, "lock")
        /\ \A s \in Reqs : s # r => req'[s] = req[s]
        /\ UNCHANGED <<rec, mine, loop, took, ran, thoughts, cancelled>>
    BY <1>1 DEF Send, SendRun, SendResume, TypeInv
  <2>2. took[r] = None
    BY <2>1 DEF AskInv, Begun
  <2>3. \A s \in Reqs : Resumed(s)' => Resumed(s)
    BY <2>1, <2>2 DEF Resumed
  <2> QED BY <2>1, <2>3, GotoType, Labelled, LiveAside
<1>2. CASE Acquire(r) \/ GiveUp(r) \/ Release(r) \/ Refuse(r)
  <2>1. PICK l \in {"open", "done", "unlock"} : Goto(r, l)
    BY <1>2 DEF Acquire, GiveUp, Release, Refuse
  <2>2. UNCHANGED <<rec, mine, req, loop, took, ran, thoughts, cancelled>>
    BY <1>2 DEF Acquire, GiveUp, Release, Refuse, local, hist
  <2>3. \A s \in Reqs : Resumed(s)' => Resumed(s)
    BY <2>2 DEF Resumed
  <2> QED BY <2>1, <2>2, <2>3, GotoType, Labelled, LiveAside
<1>3. CASE Unlock(r)
  <2>1. PICK l \in {"release", "done"} : Goto(r, l)
    BY <1>3 DEF Unlock
  <2>2. /\ UNCHANGED <<rec, req, took, ran, thoughts, cancelled>>
        /\ \A s \in Reqs : s # r => loop'[s] = loop[s] /\ mine'[s] = mine[s]
    BY <1>3 DEF Unlock, Forget, hist, TypeInv
  <2>3. \A s \in Reqs : Resumed(s)' => Resumed(s)
    BY <2>2 DEF Resumed
  <2> QED BY <2>1, <2>2, <2>3, GotoType, Labelled, LiveAside
<1> QED BY <1>1, <1>2, <1>3

(* The way into the loop: nobody else is served.                             *)
LEMMA LiveOpen ==
  ASSUME TypeInv, Shape, Sound, Alone, n["lapse"] = 0, AskInv, LiveParts, NEW r \in Reqs,
         Open(r) \/ Reopen(r) \/ Reply(r)
  PROVE  LiveParts'
<1>0. pc[r] \in {"open", "reply"} /\ \A s \in Reqs : s # r => pc[s] \notin Driving /\ pc[s] # "reply"
  <2>1. pc[r] \in {"open", "reply"}
    BY DEF Open, Reopen, Reply
  <2>2. \A s \in Reqs : pc[s] \in Serving => s = r
    BY <2>1, Served, OneServed
  <2> QED BY <2>1, <2>2, Served
<1>1. CASE Open(r)
  <2>1. /\ pc[r] = "open" /\ req[r].op = "run" /\ Goto(r, "loop") /\ UNCHANGED <<req, mine, thoughts, ran, cancelled>>
        /\ rec' = [rec EXCEPT !.status = "running", !.active = r, !.awaiting = None]
        /\ loop'[r] = NewLoop(r, KeyOf(Carried(r)))
        /\ \A s \in Reqs : s # r => took'[s] = took[s]
    BY <1>1 DEF Open, TypeInv
  <2>2. rec'.awaiting = None /\ loop'[r].run = r /\ loop'[r].rounds = 0
    BY <2>1 DEF TypeInv, Records, NewLoop
  <2>3. thoughts[r] = 0 /\ r \notin cancelled
    BY <2>1 DEF AskInv, Begun
  <2>4. Drives(r)'
    BY <2>1, <2>2, <2>3 DEF Drives
  <2>5. \A s \in Reqs : Resumed(s)' => s # r /\ Resumed(s)
    BY <2>1 DEF Resumed
  <2>6. /\ pc'[r] = "loop" /\ \A s \in Reqs : s # r => pc'[s] = pc[s]
    BY <2>1, Labelled, GotoType
  <2>7. Offer(rec.awaiting)'
    BY <2>2 DEF Offer
  <2> QED BY <1>0, <2>1, <2>4, <2>5, <2>6, <2>7 DEF LiveParts
<1>2. CASE Reopen(r)
  <2>1. /\ UNCHANGED <<rec, req, loop, took, ran, thoughts, cancelled>>
        /\ \A s \in Reqs : s # r => mine'[s] = mine[s]
    BY <1>2 DEF Reopen, hist, TypeInv
  <2>2. \A s \in Reqs : Resumed(s)' => Resumed(s)
    BY <2>1 DEF Resumed
  <2>3. CASE Goto(r, "unlock")
    BY <2>1, <2>2, <2>3, GotoType, Labelled, LiveAside
  <2>4. CASE Goto(r, "reply") /\ mine' = [mine EXCEPT ![r] = rec]
    <3>1. pc'[r] = "reply" /\ mine'[r] = rec /\ \A s \in Reqs : s # r => pc'[s] = pc[s]
      BY <2>4, GotoType, Labelled DEF TypeInv
    <3>2. Offer(rec.awaiting)'
      BY <2>1, <2>2 DEF LiveParts, Offer
    <3>3. Offer(mine[r].awaiting)'
      BY <2>1, <2>2, <3>1 DEF LiveParts, Offer
    <3>4. "reply" \notin Driving
      BY Labelled
    <3> QED BY <1>0, <2>1, <2>2, <3>1, <3>2, <3>3, <3>4 DEF LiveParts
  <2> QED BY <1>2, <2>3, <2>4 DEF Reopen
<1>3. CASE Reply(r)
  <2> DEFINE snap == mine[r].awaiting
  <2>1. /\ pc[r] = "reply" /\ Goto(r, "loop") /\ UNCHANGED <<req, mine, thoughts, ran, cancelled>>
        /\ rec' = [mine[r] EXCEPT !.status = "running", !.awaiting = None] /\ took'[r] = snap.q
        /\ loop'[r] = [snap.loop EXCEPT !.key = IF snap.q.kind = "await_confirm" THEN snap.q ELSE @]
        /\ \A s \in Reqs : s # r => loop'[s] = loop[s] /\ took'[s] = took[s]
    BY <1>3 DEF Reply, TypeInv
  <2>2. mine[r] \in Records /\ snap # None /\ snap.loop \in Loops
    BY <2>1 DEF Shape, TypeInv, Records, Snapshots
  <2>3. /\ rec'.awaiting = None /\ loop'[r].run = snap.loop.run /\ loop'[r].rounds = snap.loop.rounds
    BY <2>1, <2>2 DEF Records, Loops
  <2>4. /\ \A s \in Reqs : Resumed(s) => took[s] # snap.q
        /\ thoughts[snap.loop.run] <= snap.loop.rounds /\ snap.loop.run \notin cancelled
    BY <2>1, <2>2 DEF LiveParts, Offer
  <2>5. Drives(r)'
    BY <2>1, <2>3, <2>4 DEF Drives
  <2>6. \A s \in Reqs : s # r => (Resumed(s)' => Resumed(s))
    BY <2>1 DEF Resumed
  <2>7. /\ pc'[r] = "loop" /\ \A s \in Reqs : s # r => pc'[s] = pc[s]
    BY <2>1, Labelled, GotoType
  <2>8. Offer(rec.awaiting)'
    BY <2>3 DEF Offer
  <2>9. ASSUME NEW s \in Reqs, NEW t \in Reqs, s # t, Resumed(s)', Resumed(t)' PROVE took'[s] # took'[t]
    BY <2>1, <2>4, <2>6, <2>9 DEF LiveParts
  <2> QED BY <1>0, <2>1, <2>5, <2>7, <2>8, <2>9 DEF LiveParts
<1> QED BY <1>1, <1>2, <1>3

LEMMA LiveLoop ==
  ASSUME TypeInv, Alone, n["lapse"] = 0, AskInv, LiveParts, NEW r \in Reqs,
         \/ Think(r) \/ Incomplete(r) \/ Decide(r) \/ NoWait(r) \/ Show(r) \/ HoldTurn(r)
         \/ Suspend(r) \/ Finish(r) \/ \E ok \in BOOLEAN : Exec(r, ok)
  PROVE  LiveParts'
<1>0. /\ {"loop", "decide", "exec", "ask", "hold", "finish"} = Driving
      /\ "unlock" \notin Driving /\ Driving \subseteq Labels /\ "unlock" \in Labels /\ "reply" \notin Driving
  BY Labelled DEF Driving, Labels
<1>d. pc[r] \in Driving
  BY <1>0 DEF Think, Incomplete, Decide, StreamError, ParseError, RejectFinish, RejectAct, Reject, AcceptFinish,
              Act, Ask, NoWait, Show, HoldTurn, Suspend, Finish, Exec
<1>1. Drives(r) /\ \A s \in Reqs : s # r => pc[s] \notin Driving /\ pc[s] # "reply"
  <2>1. \A s \in Reqs : pc[s] \in Serving => s = r
    BY <1>d, Served, OneServed
  <2> QED BY <1>d, <2>1, Served DEF LiveParts
<1>2. CASE Think(r)
  <2>1. /\ Goto(r, "decide") /\ UNCHANGED <<rec, mine, req, took, ran, cancelled>> /\ loop[r].rounds < MaxRounds
        /\ loop'[r].run = loop[r].run /\ loop'[r].rounds = loop[r].rounds + 1
        /\ \A s \in Reqs : s # r => loop'[s] = loop[s]
    BY <1>2 DEF Think, TypeInv, Loops
  <2>2. /\ loop[r].run \in Reqs /\ loop[r].rounds \in Nat /\ MaxRounds \in Nat
        /\ \A s \in Reqs : thoughts[s] \in Nat
    BY AgentAssumption DEF TypeInv, Loops
  <2>3. /\ thoughts'[loop[r].run] <= thoughts[loop[r].run] + 1 /\ thoughts' \in [Reqs -> Int]
        /\ \A s \in Reqs : s # loop[r].run => thoughts'[s] = thoughts[s]
    BY <1>2, <2>2 DEF Think, TypeInv
  <2>4. thoughts'[loop[r].run] <= loop'[r].rounds /\ \A s \in Reqs : thoughts'[s] <= MaxRounds
    BY <1>1, <2>1, <2>2, <2>3 DEF LiveParts, Drives
  <2>5. Drives(r)' /\ Offer(rec.awaiting)'
    BY <1>1, <2>1, <2>4 DEF Drives, Offer
  <2>6. pc'[r] = "decide" /\ \A s \in Reqs : s # r => pc'[s] = pc[s]
    BY <2>1, Labelled, GotoType
  <2> QED BY <1>1, <2>1, <2>4, <2>5, <2>6 DEF LiveParts, Resumed
<1>3. CASE Incomplete(r)
  BY <1>3, <1>d, Labelled, GotoType, LiveWithin DEF Incomplete, local, hist
<1>4. CASE Decide(r)
  <2>1. ASSUME StreamError(r) \/ AcceptFinish(r) \/ (\E b \in Batches : Act(r, b)) \/ (\E k \in WaitKinds : Ask(r, k))
        PROVE  LiveParts'
    <3>1. PICK l \in {"unlock", "finish", "exec", "ask"} : Goto(r, l)
      BY <2>1 DEF StreamError, AcceptFinish, Act, Ask
    <3>2. UNCHANGED <<rec, mine, req, loop, took, ran, thoughts, cancelled>>
      BY <2>1 DEF StreamError, AcceptFinish, Act, Ask, local, hist
    <3> QED BY <1>d, <3>1, <3>2, Labelled, GotoType, LiveWithin
  <2>2. ASSUME ParseError(r) \/ \E c \in Codes : pc[r] = "decide" /\ Reject(r, c) PROVE LiveParts'
    <3>1. PICK l \in {"unlock", "loop"} : Goto(r, l)
      BY <2>2 DEF ParseError, Reject
    <3>2. /\ UNCHANGED <<rec, mine, req, took, ran, thoughts, cancelled>>
          /\ loop'[r].run = loop[r].run /\ loop'[r].rounds = loop[r].rounds
          /\ \A s \in Reqs : s # r => loop'[s] = loop[s]
      BY <2>2 DEF ParseError, Reject, hist, TypeInv, Loops
    <3> QED BY <1>d, <3>1, <3>2, Labelled, GotoType, LiveWithin
  <2>3. /\ "require_steps" \in Codes
        /\ \A b \in Batches : CodeOf(b[FirstOffence(r, b)]) \in Codes
    BY DEF CodeOf, Codes
  <2> QED BY <1>4, <2>1, <2>2, <2>3 DEF Decide, RejectAct, RejectFinish
<1>5. ASSUME NEW ok \in BOOLEAN, Exec(r, ok) PROVE LiveParts'
  <2>1. PICK l \in {"loop", "exec"} : Goto(r, l)
    BY <1>5 DEF Exec, RunTool
  <2>2. /\ loop'[r].run = loop[r].run /\ loop'[r].rounds = loop[r].rounds
        /\ \A s \in Reqs : s # r => loop'[s] = loop[s]
    BY <1>5, ExecLoop
  <2>4. UNCHANGED <<rec, mine, req, took, thoughts, cancelled>>
    BY <1>5 DEF Exec
  <2>5. \A c \in ran' : c \in ran \/ ~c.late
    <3> DEFINE call == [run |-> loop[r].run, by |-> r, tool |-> Head(todo[r]), ok |-> ok,
                        key |-> loop[r].key, late |-> loop[r].run \in cancelled]
    <3>1. ran' = ran \cup {call}
      BY <1>5 DEF Exec, RunTool
    <3>2. ~call.late
      BY <1>1 DEF Drives
    <3> HIDE DEF call
    <3> QED BY <3>1, <3>2
  <2> QED BY <1>d, <2>1, <2>2, <2>4, <2>5, Labelled, GotoType, LiveWithin
<1>6. CASE Show(r)
  BY <1>6, <1>d, Labelled, GotoType, LiveWithin DEF Show, local
<1>7. CASE NoWait(r) \/ HoldTurn(r) \/ Finish(r)
  <2>1. Goto(r, "unlock") /\ UNCHANGED <<mine, req, loop, took, ran, thoughts, cancelled>>
    BY <1>7 DEF NoWait, HoldTurn, Finish, local, hist
  <2>2. Close(rec).awaiting = None /\ Close(rec) \in Records
    BY CloseType DEF TypeInv
  <2>3. rec'.awaiting = None
    BY <1>7, <2>2 DEF NoWait, HoldTurn, Finish, Records
  <2>4. \A s \in Reqs : Resumed(s)' => Resumed(s)
    BY <2>1 DEF Resumed
  <2> QED BY <2>1, <2>3, <2>4, Labelled, GotoType, LiveAside
<1>8. CASE Suspend(r)
  <2>1. /\ pc[r] = "hold" /\ Goto(r, "unlock") /\ UNCHANGED <<mine, req, loop, took, ran, thoughts, cancelled>>
        /\ rec'.awaiting.q = QuestionOf(r) /\ rec'.awaiting.loop = loop[r]
    BY <1>8 DEF Suspend, local, hist
  <2>2. ASSUME NEW s \in Reqs, took[s] # None PROVE took[s] # QuestionOf(r)
    <3>1. pc[took[s].by] \in Over
      BY <2>2 DEF AskInv, Past
    <3>2. QuestionOf(r).by = r /\ "hold" \notin Over
      BY DEF QuestionOf, Over
    <3> QED BY <2>1, <3>1, <3>2
  <2>3. Offer(rec.awaiting)'
    BY <1>1, <2>1, <2>2 DEF Offer, Resumed, Drives
  <2>4. pc'[r] = "unlock" /\ \A s \in Reqs : s # r => pc'[s] = pc[s]
    BY <2>1, Labelled, GotoType
  <2> QED BY <1>0, <1>1, <2>1, <2>3, <2>4 DEF LiveParts, Resumed
<1> QED BY <1>2, <1>3, <1>4, <1>5, <1>6, <1>7, <1>8

LEMMA LiveIncident ==
  ASSUME TypeInv, Sound, n["lapse"] = 0, LiveParts, Incident
  PROVE  LiveParts'
<1>1. CASE Lapse \/ Expire
  <2>1. UNCHANGED <<pc, mine, req, loop, took, ran, thoughts, cancelled>>
    BY <1>1 DEF Lapse, Expire, local, hist
  <2>2. rec'.awaiting = rec.awaiting \/ rec'.awaiting = None
    BY <1>1, FreshType DEF Lapse, Expire
  <2>3. Offer(rec.awaiting)'
    BY <2>1, <2>2 DEF LiveParts, Offer, Resumed
  <2>4. \A r \in Reqs : Offer(mine[r].awaiting) => Offer(mine[r].awaiting)'
    BY <2>1 DEF Offer, Resumed
  <2>5. \A r \in Reqs : Drives(r) => Drives(r)'
    BY <2>1, <2>2 DEF Drives
  <2> QED BY <2>1, <2>3, <2>4, <2>5 DEF LiveParts, Resumed
<1>2. CASE Cancel
  <2>1. UNCHANGED <<pc, mine, req, loop, took, ran, thoughts>> /\ rec.awaiting # None /\ rec' = Close(rec)
    BY <1>2 DEF Cancel, local
  <2>2. rec'.awaiting = None
    BY <2>1, CloseType DEF TypeInv
  <2>3. Offer(rec.awaiting)'
    BY <2>2 DEF Offer
  <2>4. \A r \in Reqs : pc[r] \notin Driving
    BY <2>1 DEF LiveParts, Drives
  <2>5. (\E r \in Reqs : pc[r] = "reply") => cancelled' = cancelled
    BY <1>2 DEF Cancel
  <2>6. ASSUME NEW r \in Reqs, pc[r] = "reply" PROVE Offer(mine[r].awaiting)'
    BY <2>1, <2>5, <2>6 DEF LiveParts, Offer, Resumed
  <2> QED BY <2>1, <2>3, <2>4, <2>6 DEF LiveParts, Resumed
<1>3. ASSUME NEW r \in Reqs, Fail(r) \/ Crash(r) PROVE LiveParts'
  <2>1. PICK l \in {"unlock", "done"} : Goto(r, l)
    BY <1>3 DEF Fail, Crash
  <2>2. /\ UNCHANGED <<rec, req, took, ran, thoughts, cancelled>>
        /\ \A s \in Reqs : s # r => loop'[s] = loop[s] /\ mine'[s] = mine[s]
    BY <1>3 DEF Fail, Crash, Forget, local, hist, TypeInv
  <2>3. \A s \in Reqs : Resumed(s)' => Resumed(s)
    BY <2>2 DEF Resumed
  <2> QED BY <2>1, <2>2, <2>3, GotoType, Labelled, LiveAside
<1> QED BY <1>1, <1>2, <1>3 DEF Incident

LEMMA LiveStep ==
  ASSUME TypeInv, Shape, Sound, Alone, AskInv, LiveInv, [Next]_vars
  PROVE  LiveInv'
<1> SUFFICES ASSUME n'["lapse"] = 0 PROVE LiveParts'
  BY DEF LiveInv
<1>1. n["lapse"] = 0 /\ LiveParts
  BY IncidentsStay DEF LiveInv, Kinds
<1>2. CASE Incident
  BY <1>1, <1>2, LiveIncident
<1>3. ASSUME NEW r \in Reqs, Send(r) \/ Serve(r) PROVE LiveParts'
  BY <1>1, <1>3, LiveEntry, LiveOpen, LiveLoop DEF Serve
<1>4. CASE UNCHANGED vars
  BY <1>1, <1>4 DEF vars, local, hist, LiveParts, Offer, Drives, Resumed
<1> QED BY <1>2, <1>3, <1>4 DEF Next

LEMMA LiveInit == Init => LiveInv
<1> SUFFICES ASSUME Init PROVE LiveParts
  BY DEF LiveInv
<1>1. /\ \A r \in Reqs : pc[r] = "new" /\ took[r] = None /\ thoughts[r] = 0
      /\ ran = {} /\ rec = FreshRecord
  BY DEF Init
<1>2. "new" \notin Driving /\ rec.awaiting = None /\ MaxRounds \in Nat
  BY <1>1, Labelled, FreshType, AgentAssumption
<1> QED BY <1>1, <1>2 DEF LiveParts, Offer, Resumed

(* AnsweredOnce: while no TTL of the lock ran out, whatever fails, crashes,  *)
(* is cancelled or expires, no two resumes answer one question and no run    *)
(* makes more than MaxRounds decisions over its suspensions (resume_stream). *)
THEOREM AnsweredOnceCorrect == Spec => []AnsweredOnce
<1>1. Spec => []LiveInv
  BY TypeCorrect, ShapeAlways, SoundAlways, AloneAlways, AskAlways, LiveInit, LiveStep, PTL DEF Spec
<1>2. LiveInv => AnsweredOnce
  BY DEF LiveInv, LiveParts, AnsweredOnce
<1> QED BY <1>1, <1>2, PTL

(* CancelledRunEnds: while no TTL ran out, a run cancelled while no resume   *)
(* was between its read and its write makes no call any more                 *)
(* (cancel_awaiting), whatever else interleaves.                             *)
THEOREM CancelledRunCorrect == Spec => []CancelledRunEnds
<1>1. Spec => []LiveInv
  BY TypeCorrect, ShapeAlways, SoundAlways, AloneAlways, AskAlways, LiveInit, LiveStep, PTL DEF Spec
<1>2. LiveInv => CancelledRunEnds
  BY DEF LiveInv, LiveParts, CancelledRunEnds
<1> QED BY <1>1, <1>2, PTL

-------------------------------------------------------------------------------
(* Questions are kept.                                                       *)

Unharmed == \A k \in Kinds : n[k] = 0

(* Without an incident the record a resume has read is still the record.     *)
Fresh == \A r \in Reqs : pc[r] = "reply" => mine[r] = rec
KeptParts == Fresh /\ \A q \in Shown : Storing(q) \/ Held(q) \/ Answering(q)
KeptInv == Unharmed => KeptParts

(* A step that leaves the record and the questions alone.                    *)
LEMMA KeptAside ==
  ASSUME TypeInv, AskInv, KeptParts, NEW r \in Reqs, NEW l, pc[r] \notin {"hold", "reply"}, l # "reply",
         pc'[r] = l, \A s \in Reqs : s # r => pc'[s] = pc[s] /\ mine'[s] = mine[s],
         rec' = rec, asked' = asked, \A s \in Reqs : took[s] # None => took'[s] = took[s],
         \A s \in Reqs : req'[s] = req[s] \/ pc[s] = "new"
  PROVE  KeptParts'
<1>1. Fresh'
  BY DEF KeptParts, Fresh
<1>2. ASSUME NEW q \in Shown' PROVE (Storing(q) \/ Held(q) \/ Answering(q))'
  <2>1. q \in asked /\ q \in Questions /\ q.by \in Reqs
    BY DEF Shown, TypeInv, Questions
  <2>2. pc[q.by] # "new"
    BY <2>1 DEF AskInv, Over
  <2>3. q \in Shown
    BY <1>2, <2>1, <2>2 DEF Shown
  <2>4. CASE Storing(q)
    BY <2>1, <2>4 DEF Storing
  <2>5. CASE Held(q)
    BY <2>5 DEF Held
  <2>6. CASE Answering(q)
    <3>1. PICK s \in Reqs : took[s] = q \/ (pc[s] = "reply" /\ mine[s].awaiting.q = q)
      BY <2>6 DEF Answering
    <3>2. took'[s] = q \/ (pc'[s] = "reply" /\ mine'[s].awaiting.q = q)
      BY <2>1, <3>1, NoneAssumption
    <3> QED BY <3>2 DEF Answering
  <2> QED BY <2>3, <2>4, <2>5, <2>6 DEF KeptParts
<1> QED BY <1>1, <1>2 DEF KeptParts

LEMMA KeptEntry ==
  ASSUME TypeInv, AskInv, KeptParts, NEW r \in Reqs,
         Send(r) \/ Acquire(r) \/ GiveUp(r) \/ Unlock(r) \/ Release(r) \/ Refuse(r)
  PROVE  KeptParts'
<1>1. CASE Send(r)
  <2>1. /\ pc[r] = "new" /\ Goto(r, "lock") /\ \A s \in Reqs : s # r => req'[s] = req[s]
        /\ UNCHANGED <<rec, mine, asked, took>>
    BY <1>1 DEF Send, SendRun, SendResume, TypeInv
  <2> QED BY <2>1, GotoType, Labelled, KeptAside
<1>2. CASE Acquire(r) \/ GiveUp(r) \/ Release(r) \/ Refuse(r)
  <2>1. PICK l \in {"open", "done", "unlock"} : Goto(r, l)
    BY <1>2 DEF Acquire, GiveUp, Release, Refuse
  <2>2. pc[r] \in {"lock", "release", "open"} /\ UNCHANGED <<rec, mine, req, asked, took>>
    BY <1>2 DEF Acquire, GiveUp, Release, Refuse, local, hist
  <2> QED BY <2>1, <2>2, GotoType, Labelled, KeptAside
<1>3. CASE Unlock(r)
  <2>1. PICK l \in {"release", "done"} : Goto(r, l)
    BY <1>3 DEF Unlock
  <2>2. /\ pc[r] = "unlock" /\ UNCHANGED <<rec, req, asked, took>>
        /\ \A s \in Reqs : s # r => mine'[s] = mine[s]
    BY <1>3 DEF Unlock, Forget, hist, TypeInv
  <2> QED BY <2>1, <2>2, GotoType, Labelled, KeptAside
<1> QED BY <1>1, <1>2, <1>3

LEMMA KeptOpen ==
  ASSUME TypeInv, Sound, Alone, n["lapse"] = 0, AskInv, KeptParts, NEW r \in Reqs,
         Open(r) \/ Reopen(r) \/ Reply(r)
  PROVE  KeptParts'
<1>0. pc[r] \in {"open", "reply"} /\ \A s \in Reqs : s # r => pc[s] # "hold" /\ pc[s] # "reply"
  <2>1. pc[r] \in {"open", "reply"}
    BY DEF Open, Reopen, Reply
  <2>2. \A s \in Reqs : pc[s] \in Serving => s = r
    BY <2>1, Served, OneServed
  <2> QED BY <2>1, <2>2, Served
<1>1. took[r] = None /\ \A q \in Questions : ~Storing(q)
  BY <1>0 DEF AskInv, Begun, Storing, Questions
<1>2. \A q \in Shown : q \in Questions /\ q # None /\ q.by \in Reqs
  BY NoneAssumption DEF Shown, TypeInv, Questions
<1>3. CASE Open(r)
  <2>1. /\ pc[r] = "open" /\ Goto(r, "loop") /\ rec.status # "awaiting_user" /\ UNCHANGED <<req, mine, asked>>
        /\ \A s \in Reqs : s # r => took'[s] = took[s]
    BY <1>3 DEF Open, TypeInv
  <2>2. pc'[r] = "loop" /\ \A s \in Reqs : s # r => pc'[s] = pc[s]
    BY <2>1, GotoType, Labelled
  <2>3. rec.awaiting = None
    BY <2>1 DEF Sound, RecordOK, Coherent
  <2>4. Fresh'
    BY <1>0, <2>2 DEF Fresh
  <2>5. ASSUME NEW q \in Shown PROVE Answering(q)'
    <3>1. Answering(q)
      BY <1>1, <1>2, <2>3 DEF KeptParts, Held
    <3>2. PICK s \in Reqs : took[s] = q
      BY <1>0, <2>1, <3>1 DEF Answering
    <3> QED BY <1>1, <1>2, <2>1, <3>2 DEF Answering
  <2>6. Shown' = Shown
    BY <2>1 DEF Shown
  <2> QED BY <2>4, <2>5, <2>6 DEF KeptParts
<1>4. CASE Reopen(r)
  <2>1. pc[r] = "open" /\ UNCHANGED <<rec, req, asked, took>> /\ \A s \in Reqs : s # r => mine'[s] = mine[s]
    BY <1>4 DEF Reopen, hist, TypeInv
  <2>2. CASE Goto(r, "unlock")
    BY <2>1, <2>2, GotoType, Labelled, KeptAside
  <2>3. CASE Goto(r, "reply") /\ mine' = [mine EXCEPT ![r] = rec]
    <3>1. pc'[r] = "reply" /\ mine'[r] = rec /\ \A s \in Reqs : s # r => pc'[s] = pc[s]
      BY <2>3, GotoType, Labelled DEF TypeInv
    <3>2. Fresh'
      BY <1>0, <2>1, <3>1 DEF Fresh
    <3>3. ASSUME NEW q \in Shown PROVE (Held(q) \/ Answering(q))'
      <4>1. Held(q) \/ Answering(q)
        BY <1>1, <1>2 DEF KeptParts
      <4>2. CASE Held(q)
        BY <2>1, <4>2 DEF Held
      <4>3. CASE Answering(q)
        <5>1. PICK s \in Reqs : took[s] = q
          BY <1>0, <2>1, <4>3 DEF Answering
        <5> QED BY <2>1, <5>1 DEF Answering
      <4> QED BY <4>1, <4>2, <4>3
    <3>4. Shown' = Shown
      BY <2>1 DEF Shown
    <3> QED BY <3>2, <3>3, <3>4 DEF KeptParts
  <2> QED BY <1>4, <2>2, <2>3 DEF Reopen
<1>5. CASE Reply(r)
  <2>1. /\ pc[r] = "reply" /\ Goto(r, "loop") /\ UNCHANGED <<req, mine, asked>>
        /\ took'[r] = mine[r].awaiting.q /\ \A s \in Reqs : s # r => took'[s] = took[s]
    BY <1>5 DEF Reply, TypeInv
  <2>2. pc'[r] = "loop" /\ \A s \in Reqs : s # r => pc'[s] = pc[s]
    BY <2>1, GotoType, Labelled
  <2>3. Fresh'
    BY <1>0, <2>2 DEF Fresh
  <2>4. mine[r] = rec
    BY <2>1 DEF KeptParts, Fresh
  <2>5. ASSUME NEW q \in Shown PROVE Answering(q)'
    <3>1. Held(q) \/ Answering(q)
      BY <1>1, <1>2 DEF KeptParts
    <3>2. CASE Held(q)
      BY <2>1, <2>4, <3>2 DEF Held, Answering
    <3>3. CASE Answering(q)
      <4>1. PICK s \in Reqs : took[s] = q \/ (s = r /\ mine[r].awaiting.q = q)
        BY <1>0, <3>3 DEF Answering
      <4>2. took'[s] = q
        BY <1>1, <1>2, <2>1, <4>1
      <4> QED BY <4>2 DEF Answering
    <3> QED BY <3>1, <3>2, <3>3
  <2>6. Shown' = Shown
    BY <2>1 DEF Shown
  <2> QED BY <2>3, <2>5, <2>6 DEF KeptParts
<1> QED BY <1>3, <1>4, <1>5

(* Within the loop no question is held: what is shown is stored or answered. *)
LEMMA KeptLoop ==
  ASSUME TypeInv, Shape, Alone, n["lapse"] = 0, AskInv, LiveParts, KeptParts, NEW r \in Reqs,
         \/ Think(r) \/ Incomplete(r) \/ Decide(r) \/ NoWait(r) \/ Show(r) \/ HoldTurn(r)
         \/ Suspend(r) \/ Finish(r) \/ \E ok \in BOOLEAN : Exec(r, ok)
  PROVE  KeptParts'
<1>0. /\ {"loop", "decide", "exec", "ask", "hold", "finish"} = Driving /\ "reply" \notin Driving
      /\ Driving \cup {"unlock"} \subseteq Labels
  BY Labelled DEF Driving, Labels
<1>d. pc[r] \in Driving /\ UNCHANGED <<req, mine, took>>
  <2>1. CASE Decide(r)
    BY <1>0, <2>1 DEF Decide, StreamError, ParseError, RejectFinish, RejectAct, Reject, AcceptFinish, Act, Ask,
                      local, hist
  <2>2. CASE \/ Think(r) \/ Incomplete(r) \/ NoWait(r) \/ Show(r) \/ HoldTurn(r)
             \/ Suspend(r) \/ Finish(r) \/ \E ok \in BOOLEAN : Exec(r, ok)
    BY <1>0, <2>2 DEF Think, Incomplete, NoWait, Show, HoldTurn, Suspend, Finish, Exec, local, hist
  <2> QED BY <2>1, <2>2
<1>1. PICK l \in Driving \cup {"unlock"} : Goto(r, l)
  <2>1. CASE Decide(r)
    BY <1>0, <2>1 DEF Decide, StreamError, ParseError, RejectFinish, RejectAct, Reject, AcceptFinish, Act, Ask
  <2>2. CASE \/ Think(r) \/ Incomplete(r) \/ NoWait(r) \/ Show(r) \/ HoldTurn(r)
             \/ Suspend(r) \/ Finish(r) \/ \E ok \in BOOLEAN : Exec(r, ok)
    BY <1>0, <2>2 DEF Think, Incomplete, NoWait, Show, HoldTurn, Suspend, Finish, Exec, RunTool
  <2> QED BY <2>1, <2>2
<1>2. pc'[r] = l /\ l # "reply" /\ \A s \in Reqs : s # r => pc'[s] = pc[s]
  BY <1>0, <1>1, GotoType
<1>3. \A s \in Reqs : s # r => pc[s] # "hold" /\ pc[s] # "reply"
  <2>1. \A s \in Reqs : pc[s] \in Serving => s = r
    BY <1>d, Served, OneServed
  <2> QED BY <2>1, Served
<1>4. Fresh'
  BY <1>2, <1>3 DEF Fresh
<1>5. \A q \in Questions : ~Held(q)
  BY <1>d DEF LiveParts, Drives, Held
<1>6. \A q \in Shown : q \in Questions /\ q.by \in Reqs
  BY DEF Shown, TypeInv, Questions
<1>7. ASSUME NEW q \in Shown, Answering(q) PROVE Answering(q)'
  <2>1. PICK s \in Reqs : took[s] = q
    BY <1>0, <1>d, <1>3, <1>7 DEF Answering
  <2> QED BY <1>d, <2>1 DEF Answering
<1>8. CASE HoldTurn(r)
  <2>1. asked' = asked /\ req[r].profile = "turn_based"
    BY <1>8 DEF HoldTurn, hist
  <2>2. ASSUME NEW q \in Shown' PROVE Answering(q)'
    <3>1. q \in Shown /\ q.by # r
      BY <1>d, <2>1, <2>2 DEF Shown
    <3> QED BY <1>3, <1>5, <1>6, <1>7, <3>1 DEF KeptParts, Storing
  <2> QED BY <1>4, <2>2 DEF KeptParts
<1>9. CASE Suspend(r)
  <2>1. pc[r] = "hold" /\ asked' = asked /\ rec'.awaiting = [q |-> QuestionOf(r), loop |-> loop[r]]
    BY <1>9 DEF Suspend, hist
  <2>2. rec'.awaiting # None
    <3>1. loop[r].rounds >= 1 /\ loop[r] \in Loops
      BY <2>1 DEF Shape, TypeInv, InRound
    <3>2. [q |-> QuestionOf(r), loop |-> loop[r]] \in Snapshots
      BY <3>1, QuestionType DEF Snapshots
    <3> QED BY <2>1, <3>2, NoneAssumption
  <2>3. ASSUME NEW q \in Shown PROVE (Held(q) \/ Answering(q))'
    <3>1. CASE Answering(q)
      BY <1>7, <3>1
    <3>2. CASE Storing(q)
      <4>1. q.by = r /\ q \in asked
        BY <1>3, <1>6, <3>2 DEF Storing, Shown
      <4>2. q = QuestionOf(r)
        BY <2>1, <4>1 DEF AskInv
      <4> QED BY <2>1, <2>2, <4>2 DEF Held
    <3> QED BY <1>5, <1>6, <3>1, <3>2 DEF KeptParts
  <2>4. Shown' = Shown
    BY <1>d, <2>1 DEF Shown
  <2> QED BY <1>4, <2>3, <2>4 DEF KeptParts
<1>10. CASE Show(r)
  <2>1. l = "hold" /\ asked' = asked \cup {QuestionOf(r)}
    BY <1>10, <1>2, GotoType, <1>0 DEF Show
  <2>2. pc'[r] = "hold" /\ QuestionOf(r).by = r
    BY <1>2, <2>1 DEF QuestionOf
  <2>3. ASSUME NEW q \in Shown' PROVE (Storing(q) \/ Answering(q))'
    <3>1. CASE q.by = r
      BY <2>2, <3>1 DEF Storing
    <3>2. CASE q.by # r
      <4>1. q \in Shown
        BY <1>d, <2>1, <2>2, <2>3, <3>2 DEF Shown
      <4> QED BY <1>3, <1>5, <1>6, <1>7, <3>2, <4>1 DEF KeptParts, Storing
    <3> QED BY <3>1, <3>2
  <2> QED BY <1>4, <2>3 DEF KeptParts
<1>11. CASE Think(r) \/ Incomplete(r) \/ Decide(r) \/ NoWait(r) \/ Finish(r) \/ \E ok \in BOOLEAN : Exec(r, ok)
  <2>1. pc[r] # "hold" /\ asked' = asked
    <3>1. CASE Decide(r)
      BY <3>1 DEF Decide, StreamError, ParseError, RejectFinish, RejectAct, Reject, AcceptFinish, Act, Ask, hist
    <3>2. CASE Think(r) \/ Incomplete(r) \/ NoWait(r) \/ Finish(r) \/ \E ok \in BOOLEAN : Exec(r, ok)
      BY <3>2 DEF Think, Incomplete, NoWait, Finish, Exec, hist
    <3> QED BY <1>11, <3>1, <3>2
  <2>2. ASSUME NEW q \in Shown PROVE Answering(q)'
    BY <1>3, <1>5, <1>6, <1>7, <2>1 DEF KeptParts, Storing
  <2>3. Shown' = Shown
    BY <1>d, <2>1 DEF Shown
  <2> QED BY <1>4, <2>2, <2>3 DEF KeptParts
<1> QED BY <1>8, <1>9, <1>10, <1>11

LEMMA KeptStep ==
  ASSUME TypeInv, Shape, Sound, Alone, AskInv, LiveInv, KeptInv, [Next]_vars
  PROVE  KeptInv'
<1> SUFFICES ASSUME Unharmed' PROVE KeptParts'
  BY DEF KeptInv
<1>1. Unharmed /\ KeptParts
  BY IncidentsStay DEF KeptInv, Unharmed
<1>2. n["lapse"] = 0 /\ LiveParts
  BY <1>1 DEF Unharmed, LiveInv, Kinds
<1>3. ASSUME NEW k \in Kinds, Count(k) PROVE FALSE
  <2>1. n[k] \in Nat /\ n'[k] = n[k] + 1
    BY <1>3 DEF Count, TypeInv
  <2> QED BY <1>3, <1>1, <2>1 DEF Unharmed
<1>4. CASE Incident
  <2>1. Lapse /\ n' = n
    BY <1>3, <1>4 DEF Incident, Lapse, Cancel, Expire, Fail, Crash, Kinds
  <2>2. UNCHANGED <<rec, pc, mine, req, asked, took>>
    BY <2>1 DEF Lapse, local, hist
  <2> QED BY <1>1, <2>2 DEF KeptParts, Fresh, Shown, Storing, Held, Answering
<1>5. ASSUME NEW r \in Reqs, Send(r) \/ Serve(r) PROVE KeptParts'
  BY <1>1, <1>2, <1>5, KeptEntry, KeptOpen, KeptLoop DEF Serve
<1>6. CASE UNCHANGED vars
  BY <1>1, <1>6 DEF vars, local, hist, KeptParts, Fresh, Shown, Storing, Held, Answering
<1> QED BY <1>4, <1>5, <1>6 DEF Next

(* QuestionKept: without an incident, a question shown in an interactive run *)
(* is about to be stored, in the record, or taken up by a resume             *)
(* (_handle_wait, resume_stream), however many requests interleave.          *)
THEOREM QuestionKeptCorrect == Spec => []QuestionKept
<1>1. Init => KeptInv
  <2> SUFFICES ASSUME Init PROVE KeptParts
    BY DEF KeptInv
  <2> QED BY DEF Init, KeptParts, Fresh, Shown
<1>2. Spec => []LiveInv
  BY TypeCorrect, ShapeAlways, SoundAlways, AloneAlways, AskAlways, LiveInit, LiveStep, PTL DEF Spec
<1>3. Spec => []KeptInv
  BY TypeCorrect, ShapeAlways, SoundAlways, AloneAlways, AskAlways, <1>1, <1>2, KeptStep, PTL DEF Spec
<1>4. KeptInv => QuestionKept
  BY DEF KeptInv, Unharmed, KeptParts, QuestionKept
<1> QED BY <1>3, <1>4, PTL
===============================================================================
