---------------------------- MODULE PartsProofs ----------------------------
(* Parts that share no state: the reading of a stream of the model, the    *)
(* WeCom adapter, a delegation, the knowledge base, the history view, the  *)
(* token of a caller and the life of the process, each for every value of  *)
(* its constants.                                                          *)
(***************************************************************************)
EXTENDS ModelTurn, WeCom, A2A, Knowledge, ChatHistory, CallerToken, Service,
        FiniteSetTheorems, SequenceTheorems, TLAPS

-----------------------------------------------------------------------------
(* ModelTurn.                                                              *)

\* What has been read of each call: its name and its first pieces, in order.
Got(i) == [k \in 1 .. sent[i] |-> <<i, k>>]

Buffered ==
  /\ message.calls \in Seq(Call)
  /\ \E k \in 0 .. Len(message.calls) : DOMAIN buffers = 1 .. k
  /\ DOMAIN sent = DOMAIN message.calls
  /\ \A i \in DOMAIN sent : sent[i] \in 0 .. message.calls[i].pieces /\ (i \notin DOMAIN buffers => sent[i] = 0)
  /\ \A i \in DOMAIN buffers : buffers[i] = [name |-> message.calls[i].name, got |-> Got(i)]

StopIsWhole == finish = "stop" => Whole

MTInv == Buffered /\ StopIsWhole /\ TurnAsMeant

LEMMA EmptyFunction == ASSUME NEW f, f = [x \in DOMAIN f |-> f[x]], DOMAIN f = {} PROVE f = <<>>
<1>1. <<>> = [x \in DOMAIN <<>> |-> <<>>[x]] /\ DOMAIN <<>> = {}
  OBVIOUS
<1> QED BY <1>1

LEMMA Extended ==
  ASSUME NEW r, NEW n, NEW g, NEW e, r = [name |-> n, got |-> g]
  PROVE  [r EXCEPT !.got = Append(@, e)] = [name |-> n, got |-> Append(g, e)]
<1> DEFINE s == [r EXCEPT !.got = Append(@, e)]
<1>1. s = [name |-> n, got |-> Append(r.got, e)] /\ r.got = g
  OBVIOUS
<1> QED BY <1>1

LEMMA MTStarts == MTInit => MTInv
<1> SUFFICES ASSUME MTInit PROVE MTInv
  OBVIOUS
<1>1. PICK n \in 0 .. Calls : message.calls \in [1 .. n -> Call]
  BY DEF MTInit
<1>2. n \in Nat
  BY <1>1, ModelTurnAssumption
<1>3. message.calls \in Seq(Call) /\ Len(message.calls) = n /\ DOMAIN message.calls = 1 .. n
  BY <1>1, <1>2, SeqDef, LenProperties
<1>4. DOMAIN buffers = 1 .. 0 /\ DOMAIN buffers = {}
  BY DEF MTInit
<1>5. 0 \in 0 .. Len(message.calls)
  BY <1>2, <1>3
<1>6. \A i \in 1 .. n : 0 \in 0 .. message.calls[i].pieces
  BY <1>1, ModelTurnAssumption DEF Call
<1>7. DOMAIN sent = DOMAIN message.calls /\ \A i \in DOMAIN sent : sent[i] = 0
  BY DEF MTInit
<1>8. Buffered
  BY <1>3, <1>4, <1>5, <1>6, <1>7 DEF Buffered
<1>9. StopIsWhole /\ TurnAsMeant
  BY DEF MTInit, StopIsWhole, TurnAsMeant, NoTurn
<1> QED BY <1>8, <1>9 DEF MTInv

LEMMA DeltaStep ==
  ASSUME MTInv, Delta
  PROVE  MTInv'
<1>1. Buffered'
  BY DEF MTInv, Buffered, Delta, Got
<1>2. StopIsWhole' /\ TurnAsMeant'
  BY DEF Delta, Reading, StopIsWhole, TurnAsMeant, NoTurn
<1> QED BY <1>1, <1>2 DEF MTInv

LEMMA OpenCallStep ==
  ASSUME MTInv, NEW i \in 1 .. Calls, OpenCall(i)
  PROVE  MTInv'
<1> DEFINE b == [NoBuffer EXCEPT !.name = message.calls[i].name]
<1>1. /\ buffers' = [j \in DOMAIN buffers \cup {i} |-> IF j = i THEN b ELSE buffers[j]]
      /\ i \in DOMAIN message.calls /\ DOMAIN buffers = 1 .. (i - 1)
      /\ UNCHANGED <<message, sent, text, finish, turn>> /\ turn = NoTurn /\ finish = "none"
  BY DEF OpenCall, Put, Reading
<1>2. i \notin DOMAIN buffers /\ i \in Int
  BY <1>1
<1>3. sent[i] = 0
  BY <1>1, <1>2 DEF MTInv, Buffered
<1>4. b = [name |-> message.calls[i].name, got |-> Got(i)]
  <2>1. Got(i) = <<>>
    <3> DEFINE g == Got(i)
    <3>1. g = [x \in DOMAIN g |-> g[x]] /\ DOMAIN g = {}
      BY <1>3 DEF Got
    <3> QED BY <3>1, EmptyFunction
  <2>2. NoBuffer = [name |-> "", got |-> <<>>]
    BY DEF NoBuffer
  <2>3. PICK r : r = NoBuffer
    OBVIOUS
  <2>4. PICK m : m = message.calls[i].name
    OBVIOUS
  <2>5. r = [name |-> "", got |-> <<>>]
    BY <2>2, <2>3
  <2>6. PICK s : s = [r EXCEPT !.name = m]
    OBVIOUS
  <2>7. s = [name |-> m, got |-> <<>>]
    BY <2>5, <2>6
  <2> QED BY <2>1, <2>3, <2>4, <2>6, <2>7
<1> HIDE DEF b
<1>5. DOMAIN buffers' = 1 .. i
  BY <1>1, <1>2
<1>6. i \in 0 .. Len(message.calls)
  <2>1. Len(message.calls) \in Nat /\ DOMAIN message.calls = 1 .. Len(message.calls)
    BY LenProperties DEF MTInv, Buffered
  <2> QED BY <1>1, <2>1
<1>7. \A j \in DOMAIN buffers' : buffers'[j] = [name |-> message.calls[j].name, got |-> Got(j)]
  BY <1>1, <1>4 DEF MTInv, Buffered
<1>8. Buffered'
  BY <1>1, <1>5, <1>6, <1>7 DEF MTInv, Buffered, Got
<1>9. StopIsWhole' /\ TurnAsMeant'
  BY <1>1 DEF StopIsWhole, TurnAsMeant, NoTurn
<1> QED BY <1>8, <1>9 DEF MTInv

LEMMA GrowStep ==
  ASSUME MTInv, NEW i, Grow(i)
  PROVE  MTInv'
<1> DEFINE n == sent[i] + 1
           b == [name |-> message.calls[i].name, got |-> [k \in 1 .. n |-> <<i, k>>]]
<1>1. /\ i \in DOMAIN buffers /\ sent[i] < message.calls[i].pieces
      /\ sent' = [sent EXCEPT ![i] = n] /\ turn = NoTurn /\ finish = "none"
      /\ UNCHANGED <<message, text, finish, turn>>
  BY DEF Grow, SendPiece, Reading
<1>2. PICK k \in 0 .. Len(message.calls) : DOMAIN buffers = 1 .. k
  BY DEF MTInv, Buffered
<1>3. Len(message.calls) \in Nat /\ DOMAIN message.calls = 1 .. Len(message.calls)
  BY LenProperties DEF MTInv, Buffered
<1>4. i \in DOMAIN sent /\ i \in DOMAIN message.calls
  BY <1>1, <1>2, <1>3 DEF MTInv, Buffered
<1>5. message.calls[i].pieces \in Nat /\ sent[i] \in Nat
  <2>1. message.calls[i] \in Call
    BY <1>4 DEF MTInv, Buffered
  <2>2. message.calls[i].pieces \in Nat
    BY <2>1, ModelTurnAssumption DEF Call
  <2> QED BY <1>4, <2>2 DEF MTInv, Buffered
<1>6. buffers' = [j \in DOMAIN buffers |-> IF j = i THEN b ELSE buffers[j]]
  <2>1. buffers[i] = [name |-> message.calls[i].name, got |-> Got(i)]
    BY <1>1 DEF MTInv, Buffered
  <2>2. Append(Got(i), Piece(i)) = [k2 \in 1 .. n |-> <<i, k2>>]
    <3>1. Got(i) \in Seq({<<i, k2>> : k2 \in Nat}) /\ Len(Got(i)) = sent[i]
      BY <1>5 DEF Got
    <3> DEFINE m == sent[i]
               e == <<i, m + 1>>
    <3>2. e \in {<<i, k2>> : k2 \in Nat} /\ m \in Nat
      BY <1>5
    <3> HIDE DEF e
    <3>3. /\ Append(Got(i), e) \in Seq({<<i, k2>> : k2 \in Nat}) /\ Len(Append(Got(i), e)) = m + 1
          /\ \A k2 \in 1 .. m : Append(Got(i), e)[k2] = Got(i)[k2]
          /\ Append(Got(i), e)[m + 1] = e
      BY <3>1, <3>2, AppendProperties
    <3> DEFINE g == Append(Got(i), e)
    <3>4. g = [k2 \in 1 .. m + 1 |-> g[k2]]
      BY <3>3, LenProperties
    <3> HIDE DEF g
    <3>5. \A k2 \in 1 .. m + 1 : g[k2] = <<i, k2>>
      BY <3>2, <3>3 DEF Got, e, g
    <3>6. g = [k2 \in 1 .. m + 1 |-> <<i, k2>>]
      BY <3>4, <3>5
    <3> QED BY <3>6 DEF Piece, e, g
  <2>3. buffers' = [j \in DOMAIN buffers \cup {i} |-> IF j = i THEN [buffers[i] EXCEPT !.got = Append(@, Piece(i))] ELSE buffers[j]]
    BY <1>1 DEF Grow, Put, Buffer
  <2>4. [buffers[i] EXCEPT !.got = Append(@, Piece(i))] = b
    <3> DEFINE r == buffers[i]
               h == Append(Got(i), Piece(i))
    <3>1. r = [name |-> message.calls[i].name, got |-> Got(i)]
      BY <2>1
    <3>2. r.got = Got(i)
      BY <3>1
    <3> HIDE DEF r
    <3>3. [r EXCEPT !.got = Append(@, Piece(i))] = [name |-> message.calls[i].name, got |-> h]
      BY <3>1, <3>2, Extended
    <3> QED BY <2>2, <3>3 DEF r
  <2> HIDE DEF b
  <2> QED BY <1>1, <2>3, <2>4
<1> HIDE DEF b
<1>7. /\ DOMAIN sent' = DOMAIN sent /\ sent'[i] = n /\ \A j \in DOMAIN sent : j # i => sent'[j] = sent[j]
      /\ DOMAIN buffers' = DOMAIN buffers
  BY <1>1, <1>4, <1>6 DEF MTInv, Buffered
<1>8. \A j \in DOMAIN sent' : sent'[j] \in 0 .. message.calls[j].pieces /\ (j \notin DOMAIN buffers' => sent'[j] = 0)
  BY <1>1, <1>5, <1>7 DEF MTInv, Buffered
<1>9. ASSUME NEW j \in DOMAIN buffers'
      PROVE  buffers'[j] = [name |-> message.calls[j].name, got |-> [k2 \in 1 .. sent'[j] |-> <<j, k2>>]]
  <2>1. CASE j = i
    BY <1>1, <1>6, <1>7, <2>1 DEF b
  <2>2. CASE j # i
    <3>1. buffers'[j] = buffers[j] /\ j \in DOMAIN buffers
      BY <1>6, <1>7, <1>9, <2>2
    <3>2. sent'[j] = sent[j]
      BY <1>1, <1>2, <1>3, <1>7, <2>2, <3>1 DEF MTInv, Buffered
    <3> QED BY <3>1, <3>2 DEF MTInv, Buffered, Got
  <2> QED BY <2>1, <2>2
<1>10. Buffered'
  BY <1>1, <1>7, <1>8, <1>9 DEF MTInv, Buffered, Got
<1>11. StopIsWhole' /\ TurnAsMeant'
  BY <1>1 DEF StopIsWhole, TurnAsMeant, NoTurn
<1> QED BY <1>10, <1>11 DEF MTInv

LEMMA EndSteps ==
  ASSUME MTInv, Finish \/ Breaks
  PROVE  MTInv'
<1>1. Buffered'
  BY DEF MTInv, Buffered, Finish, Breaks, Got
<1>2. CASE Finish
  <2>1. finish' = "stop" => Whole
    BY <1>2 DEF Finish
  <2>2. StopIsWhole' /\ TurnAsMeant'
    BY <1>2, <2>1 DEF Finish, Reading, StopIsWhole, Whole, TurnAsMeant, NoTurn
  <2> QED BY <1>1, <2>2 DEF MTInv
<1>3. CASE Breaks
  <2>1. StopIsWhole'
    BY <1>3 DEF MTInv, Breaks, StopIsWhole, Whole
  <2>2. turn'.kind = "error" /\ turn'.calls = <<>> /\ turn'.kind # "act"
    BY <1>3 DEF Breaks
  <2>3. TurnAsMeant'
    BY <2>2 DEF TurnAsMeant
  <2> QED BY <1>1, <2>1, <2>3 DEF MTInv
<1> QED BY <1>2, <1>3

MeantCalls ==
  [i \in DOMAIN message.calls |->
     [name |-> message.calls[i].name,
      args |-> IF message.calls[i].pieces > 0 THEN "whole" ELSE "empty"]]

\* What the calls of the stream are to those of the message: the first of them, each whole,
\* or empty; after the whole message, all of them as they were meant.
LEMMA AssembledIs ==
  ASSUME Buffered
  PROVE  /\ Assembled \in Seq([name : Names, args : {"whole", "empty"}])
         /\ DOMAIN Assembled = DOMAIN buffers /\ DOMAIN buffers \subseteq DOMAIN message.calls
         /\ Len(Assembled) <= Len(message.calls)
         /\ \A i \in DOMAIN Assembled :
              /\ Assembled[i].name = message.calls[i].name
              /\ Assembled[i].args = "empty" \/ sent[i] = message.calls[i].pieces
         /\ Whole => Assembled = MeantCalls
<1>1. PICK k \in 0 .. Len(message.calls) : DOMAIN buffers = 1 .. k
  BY DEF Buffered
<1>2. Len(message.calls) \in Nat /\ DOMAIN message.calls = 1 .. Len(message.calls)
  BY LenProperties DEF Buffered
<1>3. DOMAIN buffers \subseteq DOMAIN message.calls /\ DOMAIN sent = DOMAIN message.calls
  BY <1>1, <1>2 DEF Buffered
<1>4. \A i \in DOMAIN message.calls : message.calls[i].name \in Names /\ message.calls[i].pieces \in Nat
  <2> TAKE i \in DOMAIN message.calls
  <2>1. message.calls[i] \in Call
    BY DEF Buffered
  <2> QED BY <2>1, ModelTurnAssumption DEF Call
<1>5. \A i \in DOMAIN buffers :
        /\ buffers[i].name = message.calls[i].name /\ buffers[i].got = Got(i)
        /\ sent[i] \in 0 .. message.calls[i].pieces
  BY <1>3 DEF Buffered
<1>6. Assembled \in [1 .. k -> [name : Names, args : {"whole", "empty"}]]
  BY <1>1, <1>3, <1>4, <1>5 DEF Assembled, Parsed
<1>7. Assembled \in Seq([name : Names, args : {"whole", "empty"}]) /\ Len(Assembled) = k
  <2> DEFINE R == [name : Names, args : {"whole", "empty"}]
             A == Assembled
  <2>1. k \in Nat /\ A \in [1 .. k -> R]
    BY <1>1, <1>2, <1>6
  <2> HIDE DEF R, A
  <2>2. A \in Seq(R) /\ DOMAIN A = 1 .. k
    BY <2>1, SeqDef
  <2>3. Len(A) = k
    BY <2>1, <2>2, LenProperties
  <2> QED BY <2>2, <2>3 DEF R, A
<1>8. ASSUME NEW i \in DOMAIN buffers
      PROVE  /\ Assembled[i] = [name |-> message.calls[i].name, args |-> Parsed(i)]
             /\ Parsed(i) = "empty" \/ sent[i] = message.calls[i].pieces
             /\ sent[i] = message.calls[i].pieces => Parsed(i) = IF message.calls[i].pieces > 0 THEN "whole" ELSE "empty"
  <2>1. Assembled[i] = [name |-> message.calls[i].name, args |-> Parsed(i)]
    BY <1>5 DEF Assembled
  <2>2. message.calls[i].pieces \in Nat /\ sent[i] \in Nat
    BY <1>3, <1>4, <1>5
  <2>3. DOMAIN Got(i) = 1 .. sent[i] /\ DOMAIN AllPieces(i) = 1 .. message.calls[i].pieces
    BY DEF Got, AllPieces
  <2>4. ASSUME Got(i) = AllPieces(i) PROVE sent[i] = message.calls[i].pieces
    <3>1. 1 .. sent[i] = 1 .. message.calls[i].pieces
      BY <2>3, <2>4
    <3> QED BY <2>2, <3>1
  <2>5. sent[i] = message.calls[i].pieces => Got(i) = AllPieces(i)
    BY DEF Got, AllPieces
  <2>6. (Got(i) # <<>>) <=> (sent[i] > 0)
    <3>1. Got(i) = <<>> => DOMAIN Got(i) = {}
      OBVIOUS
    <3>2. DOMAIN Got(i) = {} => Got(i) = <<>>
      <4> DEFINE g == Got(i)
      <4>1. g = [x \in DOMAIN g |-> g[x]]
        BY DEF Got
      <4> QED BY <4>1, EmptyFunction
    <3> QED BY <2>2, <2>3, <3>1, <3>2
  <2> QED BY <1>5, <2>1, <2>2, <2>4, <2>5, <2>6 DEF Parsed
<1>9. DOMAIN Assembled = DOMAIN buffers
  BY DEF Assembled
<1>10. ASSUME Whole PROVE Assembled = MeantCalls
  <2>1. DOMAIN buffers = DOMAIN message.calls /\ \A i \in DOMAIN buffers : sent[i] = message.calls[i].pieces
    BY <1>10 DEF Whole
  <2>2. Assembled = [i \in DOMAIN Assembled |-> Assembled[i]]
    BY DEF Assembled
  <2>3. \A i \in DOMAIN Assembled : Assembled[i] = MeantCalls[i]
    BY <1>8, <1>9, <2>1 DEF MeantCalls
  <2> QED BY <1>9, <2>1, <2>2, <2>3 DEF MeantCalls
<1> QED BY <1>1, <1>2, <1>3, <1>7, <1>8, <1>9, <1>10

LEMMA DecideStep ==
  ASSUME MTInv, Decide
  PROVE  MTInv'
<1> DEFINE A == Assembled
<1>1. /\ A \in Seq([name : Names, args : {"whole", "empty"}])
      /\ DOMAIN A = DOMAIN buffers /\ DOMAIN buffers \subseteq DOMAIN message.calls
      /\ Len(A) <= Len(message.calls)
      /\ \A i \in DOMAIN A : /\ A[i].name = message.calls[i].name
                             /\ A[i].args = "empty" \/ sent[i] = message.calls[i].pieces
      /\ Whole => A = MeantCalls
  BY AssembledIs DEF MTInv
<1>2. turn' = Typed(A) /\ UNCHANGED <<message, sent, text, buffers, finish>>
  BY DEF Decide
<1>3. Buffered' /\ StopIsWhole'
  BY <1>2 DEF MTInv, Buffered, StopIsWhole, Whole, Got
<1>4. Meant = Typed(MeantCalls)
  BY DEF Meant, MeantCalls
<1> HIDE DEF A
<1>5. DOMAIN A = 1 .. Len(A) /\ Len(A) \in Nat
  BY <1>1, LenProperties
<1>6. finish = "stop" => turn' = Meant /\ DOMAIN buffers = DOMAIN message.calls
  BY <1>1, <1>2, <1>4 DEF MTInv, StopIsWhole, Whole
<1>7. \/ A = <<>> /\ turn' = [kind |-> "finish", calls |-> <<>>]
      \/ (\A i \in DOMAIN A : A[i].name \notin Control) /\ turn' = [kind |-> "act", calls |-> A]
      \/ /\ \E i \in DOMAIN A : A[i].name \in Control
         /\ Len(A) = 1 /\ turn' = [kind |-> A[1].name, calls |-> A]
      \/ /\ \E i \in DOMAIN A : A[i].name \in Control
         /\ Len(A) # 1 /\ turn' = [kind |-> "parse_error", calls |-> <<>>]
  BY <1>2 DEF Typed, IsControl
<1>8. turn'.kind # "error"
  <2>1. Len(A) = 1 => DOMAIN A = {1}
    BY <1>5
  <2> QED BY <1>7, <2>1, ModelTurnAssumption
<1>9. turn'.kind = "act" => \A i \in DOMAIN A : A[i].name \notin Control
  <2>1. Len(A) = 1 => DOMAIN A = {1}
    BY <1>5
  <2> QED BY <1>7, <2>1, ModelTurnAssumption
<1>10. \/ turn'.kind = "finish" /\ turn'.calls = <<>>
       \/ turn'.kind = "parse_error" /\ Meant.kind = "parse_error"
       \/ turn'.calls = A
  <2>1. ASSUME NEW i \in DOMAIN A, A[i].name \in Control, Len(A) # 1
        PROVE  Meant.kind = "parse_error"
    <3>1. DOMAIN MeantCalls = DOMAIN message.calls /\ MeantCalls[i].name = message.calls[i].name
      BY <1>1, <2>1 DEF MeantCalls
    <3>2. DOMAIN message.calls = 1 .. Len(message.calls) /\ Len(message.calls) \in Nat
      BY LenProperties DEF MTInv, Buffered
    <3>3. Len(A) >= 2
      BY <1>5, <2>1
    <3>4. Len(MeantCalls) = Len(message.calls)
      BY <3>2 DEF MeantCalls
    <3>5. MeantCalls # <<>> /\ Len(MeantCalls) # 1 /\ IsControl(MeantCalls[i]) /\ i \in DOMAIN MeantCalls
      BY <1>1, <1>5, <2>1, <3>1, <3>2, <3>3, <3>4 DEF IsControl
    <3> HIDE DEF MeantCalls
    <3> QED BY <1>4, <3>5 DEF Typed
  <2> QED BY <1>7, <2>1
<1>11. ASSUME turn'.calls = A
       PROVE  \A i \in DOMAIN turn'.calls :
                /\ turn'.calls[i].name = message.calls[i].name
                /\ turn'.calls[i].args = "empty" \/ sent[i] = message.calls[i].pieces
  BY <1>1, <1>11
<1>12. ASSUME turn'.kind = "act", NEW i \in DOMAIN message.calls, message.calls[i].name \in Control
       PROVE  finish # "stop" /\ i \notin DOMAIN buffers
  BY <1>1, <1>6, <1>9, <1>12
<1>13. TurnAsMeant'
  <2>1. CASE finish = "stop"
    BY <1>2, <1>6, <1>8, <1>12, <2>1 DEF TurnAsMeant, Meant, Typed, IsControl
  <2>2. CASE finish # "stop"
    BY <1>2, <1>8, <1>10, <1>11, <1>12, <2>2 DEF TurnAsMeant, Meant, Typed, IsControl
  <2> QED BY <2>1, <2>2
<1> QED BY <1>3, <1>13 DEF MTInv

LEMMA MTStep == MTInv /\ [MTNext]_mtVars => MTInv'
<1> SUFFICES ASSUME MTInv, [MTNext]_mtVars PROVE MTInv'
  OBVIOUS
<1>1. CASE Delta \/ Finish \/ Breaks \/ Decide
  BY <1>1, DeltaStep, EndSteps, DecideStep
<1>2. ASSUME NEW i \in 1 .. Calls, OpenCall(i) \/ Grow(i) PROVE MTInv'
  BY <1>2, OpenCallStep, GrowStep
<1>3. CASE UNCHANGED mtVars
  BY <1>3 DEF mtVars, MTInv, Buffered, Got, StopIsWhole, Whole, TurnAsMeant, Meant, Typed, IsControl
<1> QED BY <1>1, <1>2, <1>3 DEF MTNext

\* However the pieces of any number of parallel calls are mixed, and wherever the stream
\* ends or breaks, the turn comes to what the endpoint meant, or to the first of its calls
\* (generate_stream, decide, parse_decide_output).
THEOREM TurnAsMeantCorrect == MTSpec => []TurnAsMeant
<1>1. MTInv => TurnAsMeant
  BY DEF MTInv
<1> QED BY MTStarts, MTStep, <1>1, PTL DEF MTSpec

-----------------------------------------------------------------------------
(* WeCom.                                                                  *)

Stages == {"new", "queued", "resolve", "run", "push", "ask", "keep", "post",
           "again", "askAgain", "keepAgain", "postAgain"} \cup Over
TaskRecs == [m : Msgs, st : Stages, job : BOOLEAN, tok : Nat, replaced : BOOLEAN]

WCType ==
  /\ tasks \in Seq(TaskRecs) /\ valid \in Nat
  /\ cache \in [tok : Nat, fresh : BOOLEAN]

\* A second token is the valid one, or the platform has issued another since.
SecondToken ==
  \A t \in DOMAIN tasks :
    tasks[t].st \in {"keepAgain", "postAgain"} => tasks[t].tok = valid \/ tasks[t].replaced

\* Who registered a MsgId has been dealt with; each is there once.
Recognised ==
  /\ seen \in Seq(Msgs)
  /\ \A i, j \in DOMAIN seen : seen[i] = seen[j] => i = j
  /\ \A i \in DOMAIN seen :
       \E u \in DOMAIN tasks : tasks[u].m = seen[i] /\ tasks[u].st \notin Unregistered

\* What is no longer remembered has been pushed out by those that came after it.
Forgotten ==
  \A m \in DOMAIN since :
    /\ IsFiniteSet(since[m])
    /\ \/ \E i \in DOMAIN seen : seen[i] = m /\ \A j \in DOMAIN seen : j > i => seen[j] \in since[m]
       \/ ~viaQueue /\ m \notin Range(seen) /\ Cardinality(since[m]) >= MaxSeen

WCInv == WCType /\ SecondToken /\ Recognised /\ Forgotten /\ GivenUpTwiceRefused

LEMMA WCStarts == WCInit => WCInv
<1> SUFFICES ASSUME WCInit PROVE WCInv
  OBVIOUS
<1>1. tasks = <<>> /\ seen = <<>> /\ DOMAIN since = {}
  BY DEF WCInit
<1>2. WCType
  BY <1>1 DEF WCInit, WCType
<1>3. DOMAIN tasks = {} /\ DOMAIN seen = {}
  BY <1>1
<1> QED BY <1>1, <1>2, <1>3 DEF WCInv, SecondToken, Recognised, Forgotten, GivenUpTwiceRefused

\* One task goes on: what it may become.
May(t, r) ==
  /\ r \in TaskRecs /\ r.m = tasks[t].m /\ r.st # "new"
  /\ r.st \in {"keepAgain", "postAgain"} => r.tok = valid \/ r.replaced
  /\ r.st = "refused" => r.replaced
  /\ r.st = "skipped" => r.m \in Range(seen)
  /\ r.st \in Unregistered => tasks[t].st = "new"

LEMMA TaskGoesOn ==
  ASSUME WCInv, NEW t \in DOMAIN tasks, NEW STATE r, May(t, r),
         tasks' = [tasks EXCEPT ![t] = r],
         valid' = valid, cache' \in [tok : Nat, fresh : BOOLEAN]
  PROVE  /\ WCType' /\ SecondToken' /\ GivenUpTwiceRefused'
         /\ DOMAIN tasks' = DOMAIN tasks /\ tasks'[t] = r /\ \A u \in DOMAIN tasks : u # t => tasks'[u] = tasks[u]
         /\ \A u \in DOMAIN tasks :
              /\ tasks'[u].m = tasks[u].m
              /\ tasks[u].st \notin Unregistered => tasks'[u].st \notin Unregistered
<1>1. /\ tasks \in Seq(TaskRecs) /\ DOMAIN tasks' = DOMAIN tasks /\ tasks'[t] = r
      /\ \A u \in DOMAIN tasks : u # t => tasks'[u] = tasks[u]
  BY DEF WCInv, WCType
<1>2. tasks' \in Seq(TaskRecs)
  BY <1>1 DEF May
<1>3. WCType'
  BY <1>2 DEF WCInv, WCType
<1>4. SecondToken'
  BY <1>1 DEF WCInv, SecondToken, May
<1>5. \A u \in DOMAIN tasks :
        /\ tasks'[u].m = tasks[u].m
        /\ tasks[u].st \notin Unregistered => tasks'[u].st \notin Unregistered
  BY <1>1 DEF May, Unregistered
<1>6. GivenUpTwiceRefused'
  <2> SUFFICES ASSUME NEW u \in DOMAIN tasks
               PROVE  /\ tasks'[u].st = "refused" => tasks'[u].replaced
                      /\ tasks'[u].st = "skipped" =>
                           \E v \in DOMAIN tasks' : /\ tasks'[v].m = tasks'[u].m
                                                    /\ tasks'[v].st \notin Unregistered
    BY <1>1 DEF GivenUpTwiceRefused
  <2>1. CASE u # t
    BY <1>1, <1>5, <2>1 DEF WCInv, GivenUpTwiceRefused
  <2>2. CASE u = t /\ r.st = "skipped"
    <3>1. PICK i \in DOMAIN seen : seen[i] = r.m
      BY <2>2 DEF May, Range
    <3>2. PICK v \in DOMAIN tasks : tasks[v].m = r.m /\ tasks[v].st \notin Unregistered
      BY <3>1 DEF WCInv, Recognised
    <3> QED BY <1>1, <1>5, <2>2, <3>2 DEF May
  <2>3. CASE u = t /\ r.st # "skipped"
    BY <1>1, <2>3 DEF May
  <2> QED BY <2>1, <2>2, <2>3
<1> QED BY <1>1, <1>3, <1>4, <1>5, <1>6

\* ... and leaves what is remembered as it is.
LEMMA TaskAlone ==
  ASSUME WCInv, NEW t \in DOMAIN tasks, NEW STATE r, May(t, r),
         tasks' = [tasks EXCEPT ![t] = r],
         cache' \in [tok : Nat, fresh : BOOLEAN], UNCHANGED <<viaQueue, seen, since, valid>>
  PROVE  WCInv'
<1>1. /\ WCType' /\ SecondToken' /\ GivenUpTwiceRefused'
      /\ DOMAIN tasks' = DOMAIN tasks
      /\ \A u \in DOMAIN tasks :
           /\ tasks'[u].m = tasks[u].m
           /\ tasks[u].st \notin Unregistered => tasks'[u].st \notin Unregistered
  BY TaskGoesOn
<1>2. Recognised' /\ Forgotten'
  BY <1>1 DEF WCInv, Recognised, Forgotten
<1> QED BY <1>1, <1>2 DEF WCInv

\* Go, as a record.
Went(t, st) ==
  IF st \in Over THEN [tasks[t] EXCEPT !.st = st, !.job = FALSE, !.tok = 0]
                 ELSE [tasks[t] EXCEPT !.st = st]

LEMMA GoIs ==
  ASSUME WCInv, NEW t \in DOMAIN tasks, NEW st \in Stages \ {"new"}
  PROVE  /\ Go(t, st) => tasks' = [tasks EXCEPT ![t] = Went(t, st)]
         /\ st \notin {"keepAgain", "postAgain", "refused", "skipped", "lost"} => May(t, Went(t, st))
         /\ Went(t, st) \in TaskRecs /\ Went(t, st).m = tasks[t].m /\ Went(t, st).st = st
         /\ Went(t, st).replaced = tasks[t].replaced
         /\ st \notin Over => Went(t, st).tok = tasks[t].tok
<1>1. tasks[t] \in TaskRecs
  BY DEF WCInv, WCType
<1>2. /\ Went(t, st) \in TaskRecs /\ Went(t, st).m = tasks[t].m /\ Went(t, st).st = st
      /\ Went(t, st).replaced = tasks[t].replaced
      /\ st \notin Over => Went(t, st).tok = tasks[t].tok
  BY <1>1 DEF TaskRecs, Went
<1>3. Go(t, st) => tasks' = [tasks EXCEPT ![t] = Went(t, st)]
  BY DEF Go, Went
<1>4. st \notin {"keepAgain", "postAgain", "refused", "skipped", "lost"} => May(t, Went(t, st))
  BY <1>2 DEF May, Unregistered
<1> QED BY <1>2, <1>3, <1>4

\* A MsgId is registered, in the LRU or as a key.
LEMMA RegisterKeeps ==
  ASSUME WCInv, NEW t \in DOMAIN tasks, NEW STATE r, May(t, r), r.st \notin Unregistered,
         NEW STATE m, m = tasks[t].m, m \notin Range(seen), tasks' = [tasks EXCEPT ![t] = r],
         \/ seen' = Append(seen, m)
         \/ (~viaQueue /\ Len(seen) + 1 > MaxSeen /\ seen' = Tail(Append(seen, m))),
         Registered(m)
  PROVE  WCInv'
<1> DEFINE s == Append(seen, m)
<1>1. /\ viaQueue' = viaQueue /\ cache' = cache /\ valid' = valid
      /\ since' = [n \in DOMAIN since \cup {m} |-> IF n = m THEN {} ELSE since[n] \cup {m}]
  BY DEF Registered
<1>2. /\ WCType' /\ SecondToken' /\ GivenUpTwiceRefused'
      /\ DOMAIN tasks' = DOMAIN tasks /\ tasks'[t] = r
      /\ \A u \in DOMAIN tasks :
           /\ tasks'[u].m = tasks[u].m
           /\ tasks[u].st \notin Unregistered => tasks'[u].st \notin Unregistered
  <2>1. cache' \in [tok : Nat, fresh : BOOLEAN]
    BY <1>1 DEF WCInv, WCType
  <2> QED BY <1>1, <2>1, TaskGoesOn
<1>3. m \in Msgs /\ seen \in Seq(Msgs) /\ Len(seen) \in Nat /\ DOMAIN seen = 1 .. Len(seen)
  <2>1. tasks[t] \in TaskRecs
    BY DEF WCInv, WCType
  <2>2. seen \in Seq(Msgs)
    BY DEF WCInv, Recognised
  <2> QED BY <2>1, <2>2, LenProperties DEF TaskRecs
<1>4. /\ s \in Seq(Msgs) /\ Len(s) = Len(seen) + 1 /\ DOMAIN s = 1 .. Len(seen) + 1
      /\ \A i \in 1 .. Len(seen) : s[i] = seen[i]
      /\ s[Len(seen) + 1] = m
  BY <1>3, AppendProperties
<1> HIDE DEF s
<1>5. \A i \in DOMAIN seen : seen[i] # m
  BY DEF Range
<1>6. \A i, j \in DOMAIN s : s[i] = s[j] => i = j
  BY <1>3, <1>4, <1>5 DEF WCInv, Recognised
<1>7. \A i \in DOMAIN s :
        \E u \in DOMAIN tasks' : tasks'[u].m = s[i] /\ tasks'[u].st \notin Unregistered
  <2> SUFFICES ASSUME NEW i \in DOMAIN s
               PROVE  \E u \in DOMAIN tasks' : tasks'[u].m = s[i] /\ tasks'[u].st \notin Unregistered
    OBVIOUS
  <2>1. CASE i \in DOMAIN seen
    BY <1>2, <1>3, <1>4, <2>1 DEF WCInv, Recognised
  <2>2. CASE i = Len(seen) + 1
    BY <1>2, <1>4, <2>2 DEF May
  <2> QED BY <1>3, <1>4, <2>1, <2>2
<1>8. \A n \in DOMAIN since' :
        /\ IsFiniteSet(since'[n])
        /\ \/ \E i \in DOMAIN s : s[i] = n /\ \A j \in DOMAIN s : j > i => s[j] \in since'[n]
           \/ ~viaQueue /\ n \notin Range(s) /\ Cardinality(since'[n]) >= MaxSeen
  <2> SUFFICES ASSUME NEW n \in DOMAIN since'
               PROVE  /\ IsFiniteSet(since'[n])
                      /\ \/ \E i \in DOMAIN s : s[i] = n /\ \A j \in DOMAIN s : j > i => s[j] \in since'[n]
                         \/ ~viaQueue /\ n \notin Range(s) /\ Cardinality(since'[n]) >= MaxSeen
    OBVIOUS
  <2>1. CASE n = m
    <3>1. since'[n] = {}
      BY <1>1, <2>1
    <3>2. Len(seen) + 1 \in DOMAIN s /\ \A j \in DOMAIN s : ~(j > Len(seen) + 1)
      BY <1>3, <1>4
    <3> QED BY <1>4, <2>1, <3>1, <3>2, FS_EmptySet
  <2>2. CASE n # m
    <3>1. n \in DOMAIN since /\ since'[n] = since[n] \cup {m}
      BY <1>1, <2>2
    <3>2. IsFiniteSet(since[n]) /\ IsFiniteSet(since'[n])
      BY <3>1, FS_AddElement DEF WCInv, Forgotten
    <3>3. CASE \E i \in DOMAIN seen : seen[i] = n /\ \A j \in DOMAIN seen : j > i => seen[j] \in since[n]
      <4>1. PICK i \in DOMAIN seen : seen[i] = n /\ \A j \in DOMAIN seen : j > i => seen[j] \in since[n]
        BY <3>3
      <4>2. \A j \in DOMAIN s : j > i => s[j] \in since'[n]
        BY <1>3, <1>4, <3>1, <4>1
      <4> QED BY <1>3, <1>4, <3>2, <4>1, <4>2
    <3>4. CASE ~viaQueue /\ n \notin Range(seen) /\ Cardinality(since[n]) >= MaxSeen
      <4>1. n \notin Range(s)
        BY <1>3, <1>4, <2>2, <3>4 DEF Range
      <4>2. Cardinality(since[n]) <= Cardinality(since'[n])
        BY <3>1, <3>2, FS_Subset
      <4>3. Cardinality(since[n]) \in Nat /\ Cardinality(since'[n]) \in Nat /\ MaxSeen \in Nat
        BY <3>2, FS_CardinalityType, WeComAssumption
      <4>4. Cardinality(since'[n]) >= MaxSeen
        BY <3>4, <4>2, <4>3
      <4> QED BY <3>2, <3>4, <4>1, <4>4
    <3> QED BY <3>1, <3>3, <3>4 DEF WCInv, Forgotten
  <2> QED BY <2>1, <2>2
<1>9. CASE seen' = Append(seen, m)
  <2>1. Recognised'
    BY <1>4, <1>6, <1>7, <1>9 DEF Recognised, s
  <2>2. Forgotten'
    BY <1>1, <1>8, <1>9 DEF Forgotten, s
  <2> QED BY <1>2, <2>1, <2>2 DEF WCInv
<1>10. CASE ~viaQueue /\ Len(seen) + 1 > MaxSeen /\ seen' = Tail(Append(seen, m))
  <2> DEFINE q == Tail(s)
  <2>1. /\ q \in Seq(Msgs) /\ Len(q) = Len(seen) /\ DOMAIN q = 1 .. Len(seen)
        /\ \A i \in 1 .. Len(seen) : q[i] = s[i + 1]
    <3>1. s # <<>>
      BY <1>3, <1>4, EmptySeq
    <3>2. q \in Seq(Msgs) /\ Len(q) = Len(s) - 1 /\ \A i \in 1 .. Len(q) : q[i] = s[i + 1]
      BY <1>4, <3>1, HeadTailProperties
    <3> QED BY <1>3, <1>4, <3>2
  <2> HIDE DEF q
  <2>2. Recognised'
    <3>1. \A i, j \in DOMAIN q : q[i] = q[j] => i = j
      <4> SUFFICES ASSUME NEW i \in DOMAIN q, NEW j \in DOMAIN q, q[i] = q[j] PROVE i = j
        OBVIOUS
      <4>1. i + 1 \in DOMAIN s /\ j + 1 \in DOMAIN s /\ s[i + 1] = s[j + 1]
        BY <1>3, <1>4, <2>1
      <4>2. i + 1 = j + 1 /\ i \in Int /\ j \in Int
        BY <1>6, <2>1, <4>1
      <4> QED BY <4>2
    <3>2. \A i \in DOMAIN q :
            \E u \in DOMAIN tasks' : tasks'[u].m = q[i] /\ tasks'[u].st \notin Unregistered
      <4> TAKE i \in DOMAIN q
      <4>1. i + 1 \in DOMAIN s /\ q[i] = s[i + 1]
        BY <1>3, <1>4, <2>1
      <4> QED BY <1>7, <4>1
    <3> QED BY <1>10, <2>1, <3>1, <3>2 DEF Recognised, q, s
  <2>3. Forgotten'
    <3> SUFFICES ASSUME NEW n \in DOMAIN since'
                 PROVE  /\ IsFiniteSet(since'[n])
                        /\ \/ \E i \in DOMAIN q : q[i] = n /\ \A j \in DOMAIN q : j > i => q[j] \in since'[n]
                           \/ ~viaQueue /\ n \notin Range(q) /\ Cardinality(since'[n]) >= MaxSeen
      BY <1>1, <1>10 DEF Forgotten, q, s
    <3>1. IsFiniteSet(since'[n])
      BY <1>8
    <3>2. ASSUME NEW i \in DOMAIN s, s[i] = n, \A j \in DOMAIN s : j > i => s[j] \in since'[n], i > 1
          PROVE  \E k \in DOMAIN q : q[k] = n /\ \A j \in DOMAIN q : j > k => q[j] \in since'[n]
      <4>0. i \in Nat /\ i <= Len(seen) + 1
        BY <1>3, <1>4
      <4>1. i - 1 \in DOMAIN q /\ q[i - 1] = n
        <5>1. i - 1 \in 1 .. Len(seen) /\ (i - 1) + 1 = i
          BY <1>3, <3>2, <4>0
        <5>2. q[i - 1] = s[(i - 1) + 1]
          BY <2>1, <5>1
        <5> QED BY <2>1, <3>2, <5>1, <5>2
      <4>2. ASSUME NEW j \in DOMAIN q, j > i - 1 PROVE q[j] \in since'[n]
        BY <1>3, <1>4, <2>1, <3>2, <4>2
      <4> QED BY <4>1, <4>2
    <3>3. ASSUME s[1] = n, \A j \in DOMAIN s : j > 1 => s[j] \in since'[n]
          PROVE  n \notin Range(q) /\ Cardinality(since'[n]) >= MaxSeen
      <4>1. n \notin Range(q)
        <5> SUFFICES ASSUME NEW k \in DOMAIN q, q[k] = n PROVE FALSE
          BY DEF Range
        <5>1. k + 1 \in DOMAIN s /\ s[k + 1] = s[1] /\ 1 \in DOMAIN s /\ k \in Nat /\ k >= 1
          BY <1>3, <1>4, <2>1, <3>3
        <5>2. k + 1 = 1
          BY <1>6, <5>1
        <5> QED BY <5>1, <5>2
      <4>2. PICK len \in Nat : len = Len(seen)
        BY <1>3
      <4> DEFINE f == [j \in 1 .. len |-> s[j + 1]]
      <4>3. \A j \in 1 .. len : j + 1 \in DOMAIN s /\ j + 1 > 1
        BY <1>4, <4>2
      <4>4. f \in [1 .. len -> since'[n]]
        BY <3>3, <4>3
      <4>5. ASSUME NEW i \in 1 .. len, NEW j \in 1 .. len, f[i] = f[j] PROVE i = j
        <5>1. i + 1 = j + 1
          BY <1>6, <4>3, <4>5
        <5> QED BY <5>1
      <4> HIDE DEF f
      <4>6. f \in Injection(1 .. len, since'[n])
        BY <4>4, <4>5 DEF Injection, IsInjective
      <4>7. Cardinality(1 .. len) <= Cardinality(since'[n])
        BY <3>1, <4>6, FS_Injection
      <4>8. Cardinality(1 .. len) = len
        <5>1. PICK one \in Int : one = 1
          OBVIOUS
        <5>2. Cardinality(one .. len) = IF one > len THEN 0 ELSE len - one + 1
          BY <4>2, FS_Interval
        <5> QED BY <4>2, <5>1, <5>2
      <4>9. Cardinality(since'[n]) \in Nat /\ MaxSeen \in Nat
        BY <3>1, FS_CardinalityType, WeComAssumption
      <4>10. len >= MaxSeen
        BY <1>10, <4>2, <4>9
      <4> QED BY <4>1, <4>2, <4>7, <4>8, <4>9, <4>10
    <3>4. CASE \E i \in DOMAIN s : s[i] = n /\ \A j \in DOMAIN s : j > i => s[j] \in since'[n]
      <4>1. PICK i \in DOMAIN s : s[i] = n /\ \A j \in DOMAIN s : j > i => s[j] \in since'[n]
        BY <3>4
      <4>2. i = 1 \/ i > 1
        BY <1>3, <1>4
      <4> QED BY <1>10, <3>1, <3>2, <3>3, <4>1, <4>2
    <3>5. CASE ~viaQueue /\ n \notin Range(s) /\ Cardinality(since'[n]) >= MaxSeen
      <4>1. n \notin Range(q)
        BY <1>3, <1>4, <2>1, <3>5 DEF Range
      <4> QED BY <3>1, <3>5, <4>1
    <3> QED BY <1>8, <3>4, <3>5
  <2> QED BY <1>2, <2>2, <2>3 DEF WCInv
<1> QED BY <1>9, <1>10
LEMMA PlatformSteps ==
  ASSUME WCInv, (\E m \in Msgs : Deliver(m)) \/ Replace \/ Lapse
  PROVE  WCInv'
<1>0. tasks \in Seq(TaskRecs) /\ Len(tasks) \in Nat /\ DOMAIN tasks = 1 .. Len(tasks)
  <2>1. tasks \in Seq(TaskRecs)
    BY DEF WCInv, WCType
  <2> QED BY <2>1, LenProperties
<1>1. ASSUME NEW m \in Msgs, Deliver(m) PROVE WCInv'
  <2>1. tasks' = Append(tasks, Task(m)) /\ UNCHANGED <<viaQueue, kind, seen, cache, valid, since>>
    BY <1>1 DEF Deliver
  <2>2. Task(m) \in TaskRecs /\ Task(m).st = "new"
    BY DEF Task, TaskRecs, Stages
  <2>3. /\ tasks' \in Seq(TaskRecs) /\ DOMAIN tasks' = 1 .. Len(tasks) + 1
        /\ \A t \in DOMAIN tasks : tasks'[t] = tasks[t]
        /\ tasks'[Len(tasks) + 1].st = "new"
    <3> DEFINE r == Task(m)
    <3> HIDE DEF r
    <3>1. r \in TaskRecs /\ r.st = "new" /\ tasks' = Append(tasks, r)
      BY <2>1, <2>2 DEF r
    <3> QED BY <1>0, <3>1, AppendProperties
  <2>4. \A t \in DOMAIN tasks' : t \in DOMAIN tasks \/ tasks'[t].st = "new"
    BY <1>0, <2>3
  <2>5. DOMAIN tasks \subseteq DOMAIN tasks'
    BY <1>0, <2>3
  <2>6. WCType' /\ SecondToken'
    BY <2>1, <2>3, <2>4 DEF WCInv, WCType, SecondToken
  <2>7. Recognised' /\ Forgotten'
    BY <2>1, <2>3, <2>5 DEF WCInv, Recognised, Forgotten
  <2>8. GivenUpTwiceRefused'
    BY <2>3, <2>4, <2>5 DEF WCInv, GivenUpTwiceRefused
  <2> QED BY <2>6, <2>7, <2>8 DEF WCInv
<1>2. CASE Replace
  <2>1. UNCHANGED <<viaQueue, kind, seen, cache, since>> /\ valid' = valid + 1
    BY <1>2 DEF Replace
  <2> DEFINE R(t) == [tasks[t] EXCEPT !.replaced = @ \/ tasks[t].st \in {"keepAgain", "postAgain"}]
  <2>2. tasks' = [t \in DOMAIN tasks |-> R(t)]
    BY <1>2 DEF Replace
  <2>3. \A t \in DOMAIN tasks : /\ R(t) \in TaskRecs /\ R(t).m = tasks[t].m /\ R(t).st = tasks[t].st
                                /\ tasks[t].replaced => R(t).replaced
                                /\ tasks[t].st \in {"keepAgain", "postAgain"} => R(t).replaced
    <3> TAKE t \in DOMAIN tasks
    <3>1. tasks[t] \in TaskRecs
      BY <1>0
    <3> DEFINE b == tasks[t].replaced \/ tasks[t].st \in {"keepAgain", "postAgain"}
    <3>2. b \in BOOLEAN
      BY <3>1 DEF TaskRecs
    <3>3. R(t) = [tasks[t] EXCEPT !.replaced = b]
      OBVIOUS
    <3> HIDE DEF b
    <3>4. [tasks[t] EXCEPT !.replaced = b] \in TaskRecs /\ [tasks[t] EXCEPT !.replaced = b].replaced = b
          /\ [tasks[t] EXCEPT !.replaced = b].m = tasks[t].m /\ [tasks[t] EXCEPT !.replaced = b].st = tasks[t].st
      BY <3>1, <3>2 DEF TaskRecs
    <3>5. R(t) \in TaskRecs /\ R(t).m = tasks[t].m /\ R(t).st = tasks[t].st /\ R(t).replaced = b
      BY <3>3, <3>4
    <3>6. (tasks[t].replaced => b) /\ (tasks[t].st \in {"keepAgain", "postAgain"} => b)
      BY DEF b
    <3> QED BY <3>5, <3>6
  <2> HIDE DEF R
  <2>4. DOMAIN tasks' = DOMAIN tasks /\ \A t \in DOMAIN tasks : tasks'[t] = R(t)
    BY <2>2
  <2>5. tasks' \in Seq(TaskRecs)
    <3>1. tasks' \in [1 .. Len(tasks) -> TaskRecs]
      BY <1>0, <2>2, <2>3
    <3> QED BY <1>0, <3>1, SeqDef
  <2>6. WCType' /\ SecondToken'
    <3>1. WCType'
      BY <2>1, <2>5 DEF WCInv, WCType
    <3>2. SecondToken'
      BY <2>3, <2>4 DEF SecondToken
    <3> QED BY <3>1, <3>2
  <2>7. Recognised' /\ Forgotten'
    BY <2>1, <2>3, <2>4 DEF WCInv, Recognised, Forgotten
  <2>8. GivenUpTwiceRefused'
    BY <2>3, <2>4 DEF WCInv, GivenUpTwiceRefused
  <2> QED BY <2>6, <2>7, <2>8 DEF WCInv
<1>3. CASE Lapse
  <2>1. UNCHANGED <<viaQueue, kind, seen, valid, tasks, since>>
    BY <1>3 DEF Lapse
  <2>2. cache' \in [tok : Nat, fresh : BOOLEAN]
    BY <1>3 DEF Lapse, WCInv, WCType
  <2>3. WCType' /\ SecondToken' /\ Recognised' /\ Forgotten' /\ GivenUpTwiceRefused'
    BY <2>1, <2>2 DEF WCInv, WCType, SecondToken, Recognised, Forgotten, GivenUpTwiceRefused
  <2> QED BY <2>3 DEF WCInv
<1> QED BY <1>1, <1>2, <1>3

\* The steps of a delivery that only go on.
LEMMA GoesOn ==
  ASSUME WCInv, NEW t \in DOMAIN tasks, NEW st \in Stages \ {"new"}, Go(t, st),
         st \notin {"keepAgain", "postAgain", "refused", "skipped", "lost"}, UNCHANGED <<viaQueue, seen, cache, valid, since>>
  PROVE  WCInv'
<1>1. tasks' = [tasks EXCEPT ![t] = Went(t, st)] /\ May(t, Went(t, st))
  BY GoIs
<1>2. cache' \in [tok : Nat, fresh : BOOLEAN]
  BY DEF WCInv, WCType
<1> QED BY <1>1, <1>2, TaskAlone

LEMMA Skips ==
  ASSUME WCInv, NEW t \in DOMAIN tasks, At(t, "new"), NEW st \in {"skipped", "lost"}, Go(t, st),
         st = "skipped" => tasks[t].m \in Range(seen),
         UNCHANGED <<viaQueue, seen, cache, valid, since>>
  PROVE  WCInv'
<1> DEFINE r == Went(t, st)
<1>1. st \in Stages \ {"new"}
  BY DEF Stages, Over
<1>2. tasks' = [tasks EXCEPT ![t] = r] /\ r \in TaskRecs /\ r.m = tasks[t].m /\ r.st = st
  BY <1>1, GoIs
<1> HIDE DEF r
<1>3. May(t, r)
  BY <1>2 DEF May, At
<1>4. cache' \in [tok : Nat, fresh : BOOLEAN]
  BY DEF WCInv, WCType
<1> QED BY <1>2, <1>3, <1>4, TaskAlone

LEMMA HandleSteps ==
  ASSUME WCInv, NEW t, Handle(t) \/ Enqueue(t)
  PROVE  WCInv'
<1>0. t \in DOMAIN tasks /\ At(t, "new")
  BY DEF Handle, Enqueue, At
<1> DEFINE m == tasks[t].m
<1>1. \A st \in {"resolve", "push", "queued", "dropped"} :
        /\ st \in Stages \ {"new"} /\ st \notin Unregistered
        /\ st \notin {"keepAgain", "postAgain", "refused", "skipped", "lost"}
  BY DEF Stages, Over, Unregistered
<1>2. CASE Handle(t)
  <2>1. CASE m \in Range(seen)
    <3>1. Go(t, "skipped") /\ UNCHANGED <<viaQueue, kind, seen, cache, valid, since>>
      BY <1>2, <2>1 DEF Handle
    <3> QED BY <1>0, <2>1, <3>1, Skips
  <2>2. CASE m \notin Range(seen)
    <3>1. SeenOrAdd(m) /\ AfterChecks(t) /\ Registered(m) /\ ~viaQueue
      BY <1>2, <2>2 DEF Handle
    <3>2. PICK st \in {"resolve", "push"} : Go(t, st)
      BY <3>1 DEF AfterChecks
    <3>3. /\ tasks' = [tasks EXCEPT ![t] = Went(t, st)] /\ May(t, Went(t, st))
          /\ Went(t, st).st \notin Unregistered
      BY <1>0, <1>1, <3>2, GoIs
    <3>4. \/ seen' = Append(seen, m)
          \/ (~viaQueue /\ Len(seen) + 1 > MaxSeen /\ seen' = Tail(Append(seen, m)))
      <4>1. seen \in Seq(Msgs) /\ m \in Msgs
        <5>1. tasks[t] \in TaskRecs
          BY <1>0 DEF WCInv, WCType
        <5> QED BY <5>1 DEF WCInv, Recognised, TaskRecs
      <4>2. Len(Append(seen, m)) = Len(seen) + 1
        BY <4>1, AppendProperties
      <4> QED BY <3>1, <4>2 DEF SeenOrAdd
    <3> HIDE DEF m
    <3>5. m = tasks[t].m
      BY DEF m
    <3> QED BY <1>0, <2>2, <3>1, <3>3, <3>4, <3>5, RegisterKeeps
  <2> QED BY <2>1, <2>2
<1>3. CASE Enqueue(t)
  <2>1. CASE /\ m \in Range(seen) /\ Go(t, "skipped")
             /\ UNCHANGED <<viaQueue, kind, seen, cache, valid, since>>
    BY <1>0, <2>1, Skips
  <2>2. ASSUME NEW st \in {"queued", "dropped"}, m \notin Range(seen), Go(t, st),
               seen' = Append(seen, m), Registered(m)
        PROVE  WCInv'
    <3>1. /\ tasks' = [tasks EXCEPT ![t] = Went(t, st)] /\ May(t, Went(t, st))
          /\ Went(t, st).st \notin Unregistered
      BY <1>0, <1>1, <2>2, GoIs
    <3> HIDE DEF m
    <3>2. m = tasks[t].m
      BY DEF m
    <3> QED BY <1>0, <2>2, <3>1, <3>2, RegisterKeeps
  <2>3. CASE Go(t, "push") /\ UNCHANGED <<viaQueue, kind, seen, cache, valid, since>>
    BY <1>0, <1>1, <2>3, GoesOn
  <2>4. CASE Go(t, "lost") /\ UNCHANGED <<viaQueue, kind, seen, cache, valid, since>>
    BY <1>0, <2>4, Skips
  <2> QED BY <1>3, <2>1, <2>2, <2>3, <2>4 DEF Enqueue
<1> QED BY <1>2, <1>3

LEMMA RunSteps ==
  ASSUME WCInv, NEW t, TakeJob(t) \/ Resolve(t) \/ RunEnd(t)
  PROVE  WCInv'
<1>0. t \in DOMAIN tasks /\ UNCHANGED <<viaQueue, kind, seen, cache, valid, since>>
  BY DEF TakeJob, Resolve, RunEnd, At
<1>1. \A st \in {"run", "push"} :
        st \in Stages \ {"new"} /\ st \notin {"keepAgain", "postAgain", "refused", "skipped", "lost"}
  BY DEF Stages, Over
<1>2. CASE TakeJob(t)
  <2> DEFINE r == [tasks[t] EXCEPT !.st = "resolve", !.job = TRUE]
  <2>1. tasks' = [tasks EXCEPT ![t] = r]
    BY <1>2 DEF TakeJob
  <2>2. tasks[t] \in TaskRecs
    BY <1>0 DEF WCInv, WCType
  <2>3. r \in TaskRecs /\ r.m = tasks[t].m /\ r.st = "resolve"
    BY <2>2 DEF TaskRecs, Stages
  <2> HIDE DEF r
  <2>4. May(t, r) /\ cache' \in [tok : Nat, fresh : BOOLEAN]
    BY <1>0, <2>3 DEF May, Unregistered, WCInv, WCType
  <2> QED BY <1>0, <2>1, <2>4, TaskAlone
<1>3. CASE Resolve(t) \/ RunEnd(t)
  <2>1. Go(t, "run") \/ Go(t, "push")
    BY <1>3 DEF Resolve, RunEnd
  <2> QED BY <1>0, <1>1, <2>1, GoesOn
<1> QED BY <1>2, <1>3

LEMMA TokenUsed ==
  ASSUME WCInv, NEW t, NEW from, NEW ask, NEW post, NEW force \in BOOLEAN,
         ask \in {"ask", "askAgain"}, post = "post" \/ force, GetToken(t, from, ask, post, force)
  PROVE  WCInv'
<1>0. t \in DOMAIN tasks /\ UNCHANGED <<viaQueue, kind, seen, cache, valid, since>>
  BY DEF GetToken, At
<1>1. CASE Usable(force)
  <2> DEFINE r == [tasks[t] EXCEPT !.st = "post", !.tok = cache.tok]
  <2>1. tasks' = [tasks EXCEPT ![t] = r]
    BY <1>1 DEF GetToken, Usable
  <2>2. tasks[t] \in TaskRecs /\ cache.tok \in Nat
    BY <1>0 DEF WCInv, WCType
  <2>3. r \in TaskRecs /\ r.m = tasks[t].m /\ r.st = "post"
    BY <2>2 DEF TaskRecs, Stages
  <2> HIDE DEF r
  <2>4. May(t, r) /\ cache' \in [tok : Nat, fresh : BOOLEAN]
    BY <1>0, <2>3 DEF May, Unregistered, WCInv, WCType
  <2> QED BY <1>0, <2>1, <2>4, TaskAlone
<1>2. CASE ~Usable(force)
  <2>1. /\ Go(t, ask) /\ ask \in Stages \ {"new"}
        /\ ask \notin {"keepAgain", "postAgain", "refused", "skipped", "lost"}
    BY <1>2 DEF GetToken, Stages
  <2> QED BY <1>0, <2>1, GoesOn
<1> QED BY <1>1, <1>2

\* The token just issued is the valid one.
LEMMA TokenIssued ==
  ASSUME WCInv, NEW t, NEW ask, NEW keep \in {"keep", "keepAgain"}, Issue(t, ask, keep)
  PROVE  WCInv'
<1>0. t \in DOMAIN tasks /\ UNCHANGED <<viaQueue, kind, seen, cache, valid, since>>
  BY DEF Issue, At
<1>1. CASE Go(t, "failed")
  <2>1. "failed" \in Stages \ {"new"}
    BY DEF Stages, Over
  <2> QED BY <1>0, <1>1, <2>1, GoesOn
<1>2. CASE tasks' = [tasks EXCEPT ![t].st = keep, ![t].tok = valid]
  <2> DEFINE r == [tasks[t] EXCEPT !.st = keep, !.tok = valid]
  <2>1. tasks' = [tasks EXCEPT ![t] = r]
    BY <1>2
  <2>2. tasks[t] \in TaskRecs /\ valid \in Nat
    BY <1>0 DEF WCInv, WCType
  <2>3. r \in TaskRecs /\ r.m = tasks[t].m /\ r.st = keep /\ r.tok = valid
    BY <2>2 DEF TaskRecs, Stages
  <2> HIDE DEF r
  <2>4. May(t, r) /\ cache' \in [tok : Nat, fresh : BOOLEAN]
    BY <1>0, <2>3 DEF May, Unregistered, WCInv, WCType
  <2> QED BY <1>0, <2>1, <2>4, TaskAlone
<1> QED BY <1>1, <1>2 DEF Issue

LEMMA TokenKept ==
  ASSUME WCInv, NEW t, NEW keep, NEW post,
         (keep = "keep" /\ post = "post") \/ (keep = "keepAgain" /\ post = "postAgain"), Keep(t, keep, post)
  PROVE  WCInv'
<1>0. t \in DOMAIN tasks /\ tasks[t].st = keep /\ UNCHANGED <<viaQueue, kind, seen, valid, since>>
  BY DEF Keep, At
<1> DEFINE r == Went(t, post)
<1>1. post \in Stages \ {"new"} /\ post \notin Over
  BY DEF Stages, Over
<1>2. tasks' = [tasks EXCEPT ![t] = r] /\ r \in TaskRecs /\ r.m = tasks[t].m /\ r.st = post
      /\ r.replaced = tasks[t].replaced /\ r.tok = tasks[t].tok
  BY <1>0, <1>1, GoIs DEF Keep
<1> HIDE DEF r
<1>3. May(t, r)
  BY <1>0, <1>2 DEF May, Unregistered, WCInv, SecondToken
<1>4. tasks[t] \in TaskRecs
  BY <1>0 DEF WCInv, WCType
<1>5. cache' \in [tok : Nat, fresh : BOOLEAN]
  BY <1>4 DEF Keep, TaskRecs
<1> QED BY <1>0, <1>2, <1>3, <1>5, TaskAlone

LEMMA PostStep ==
  ASSUME WCInv, NEW t, NEW post, NEW refused,
         (post = "post" /\ refused = "again") \/ (post = "postAgain" /\ refused = "refused"), Post(t, post, refused)
  PROVE  WCInv'
<1>0. t \in DOMAIN tasks /\ tasks[t].st = post /\ UNCHANGED <<viaQueue, kind, seen, cache, valid, since>>
  BY DEF Post, At
<1>1. \A st \in {"pushed", "failed", "again", "refused"} : st \in Stages \ {"new"}
  BY DEF Stages, Over
<1>2. CASE Go(t, "pushed") \/ Go(t, "failed") \/ (Go(t, refused) /\ refused = "again")
  BY <1>0, <1>1, <1>2, GoesOn
<1>3. CASE Go(t, "refused") /\ refused = "refused" /\ tasks[t].tok # valid
  <2> DEFINE r == Went(t, "refused")
  <2>1. tasks' = [tasks EXCEPT ![t] = r] /\ r \in TaskRecs /\ r.m = tasks[t].m /\ r.st = "refused"
        /\ r.replaced = tasks[t].replaced
    BY <1>0, <1>1, <1>3, GoIs
  <2>2. tasks[t].replaced
    BY <1>0, <1>3 DEF WCInv, SecondToken
  <2> HIDE DEF r
  <2>3. May(t, r) /\ cache' \in [tok : Nat, fresh : BOOLEAN]
    BY <1>0, <2>1, <2>2 DEF May, Unregistered, WCInv, WCType
  <2> QED BY <1>0, <2>1, <2>3, TaskAlone
<1> QED BY <1>2, <1>3 DEF Post

LEMMA WCStep == WCInv /\ [WCNext]_wcVars => WCInv'
<1> SUFFICES ASSUME WCInv, [WCNext]_wcVars PROVE WCInv'
  OBVIOUS
<1>1. CASE (\E m \in Msgs : Deliver(m)) \/ Replace \/ Lapse
  BY <1>1, PlatformSteps
<1>2. ASSUME NEW t \in 1 .. Deliveries, Handle(t) \/ Enqueue(t) \/ TakeJob(t) \/ Resolve(t) \/ RunEnd(t)
      PROVE  WCInv'
  BY <1>2, HandleSteps, RunSteps
<1>3. ASSUME NEW t \in 1 .. Deliveries, Push(t) PROVE WCInv'
  BY <1>3, TokenUsed, TokenIssued, TokenKept, PostStep DEF Push
<1>4. CASE UNCHANGED wcVars
  BY <1>4 DEF wcVars, WCInv, WCType, SecondToken, Recognised, Forgotten, GivenUpTwiceRefused
<1> QED BY <1>1, <1>2, <1>3, <1>4 DEF WCNext

\* A push whose reply is given up for a refused token was given its last token before the
\* platform replaced it, and a message is skipped only if another delivery of it was dealt
\* with: any number of deliveries and pushes at once (WeComAppClient.send_text,
\* MsgIdDeduper.seen_or_add).
THEOREM GivenUpTwiceRefusedCorrect == WCSpec => []GivenUpTwiceRefused
<1>1. WCInv => GivenUpTwiceRefused
  BY DEF WCInv
<1> QED BY WCStarts, WCStep, <1>1, PTL DEF WCSpec

LEMMA OnceForgotten ==
  ASSUME WCInv, [WCNext]_wcVars, NEW t \in DOMAIN tasks,
         tasks[t].st = "new", tasks'[t].st \in {"queued", "resolve"}, tasks[t].m \in DOMAIN since
  PROVE  ~viaQueue /\ Cardinality(since[tasks[t].m]) >= MaxSeen
<1> SUFFICES tasks[t].m \notin Range(seen)
  BY DEF WCInv, Forgotten, Range
<1> SUFFICES ASSUME tasks[t].m \in Range(seen) PROVE FALSE
  OBVIOUS
<1>0. tasks[t] \in TaskRecs /\ tasks \in Seq(TaskRecs)
  BY DEF WCInv, WCType
<1>1. \A u, st : Go(u, st) /\ u # t => tasks'[t] = tasks[t]
  BY DEF Go
<1>2. CASE \E m \in Msgs : Deliver(m)
  <2>1. PICK m \in Msgs : tasks' = Append(tasks, Task(m))
    BY <1>2 DEF Deliver
  <2>2. tasks'[t] = tasks[t]
    <3> DEFINE r == Task(m)
    <3>1. r \in TaskRecs
      BY DEF Task, TaskRecs, Stages
    <3> HIDE DEF r
    <3>2. tasks' = Append(tasks, r)
      BY <2>1 DEF r
    <3> QED BY <1>0, <3>1, <3>2, AppendProperties
  <2> QED BY <2>2
<1>3. CASE Replace
  <2>1. tasks'[t].st = tasks[t].st
    BY <1>0, <1>3 DEF Replace, TaskRecs
  <2> QED BY <2>1
<1>4. CASE Lapse \/ UNCHANGED wcVars
  BY <1>4 DEF Lapse, wcVars
<1>5. ASSUME NEW u \in 1 .. Deliveries,
             Handle(u) \/ Enqueue(u) \/ TakeJob(u) \/ Resolve(u) \/ RunEnd(u) \/ Push(u)
      PROVE  FALSE
  <2>1. CASE u # t
    <3>1. tasks'[t] = tasks[t]
      BY <1>1, <1>5, <2>1 DEF Handle, AfterChecks, Enqueue, TakeJob, Resolve, RunEnd, Push, GetToken, Issue, Keep, Post
    <3> QED BY <3>1
  <2>2. CASE u = t
    <3>1. Handle(t) \/ Enqueue(t)
      BY <1>5, <2>2 DEF TakeJob, Resolve, RunEnd, Push, GetToken, Issue, Keep, Post, At
    <3>2. \A st \in {"skipped", "push", "lost"} : Go(t, st) => tasks'[t].st = st
      BY <1>0 DEF Go, TaskRecs
    <3> QED BY <3>1, <3>2 DEF Handle, Enqueue
  <2> QED BY <2>1, <2>2
<1> QED BY <1>2, <1>3, <1>4, <1>5 DEF WCNext

\* A delivery is handled or enqueued for a MsgId that was registered before only if as many
\* other MsgIds came since as the LRU holds, and never where Redis remembers them: the
\* callbacks of the platform may be repeated at any time (handle_message,
\* _enqueue_from_msg).
THEOREM HandledAgainCorrect == WCSpec => HandledAgainOnlyIfForgotten
<1> DEFINE A == \A t \in DOMAIN tasks :
                  /\ tasks[t].st = "new" /\ tasks'[t].st \in {"queued", "resolve"}
                  /\ tasks[t].m \in DOMAIN since
                  => ~viaQueue /\ Cardinality(since[tasks[t].m]) >= MaxSeen
<1>1. WCInv /\ [WCNext]_wcVars => A
  BY OnceForgotten
<1>2. HandledAgainOnlyIfForgotten <=> [][A]_wcVars
  BY DEF HandledAgainOnlyIfForgotten
<1> HIDE DEF A
<1> QED BY WCStarts, WCStep, <1>1, <1>2, PTL DEF WCSpec

-----------------------------------------------------------------------------
(* A2A.                                                                    *)

Statuses == {"none", "idle", "submitted", "working", "completed", "failed"}
Events == [kind : {"none", "task", "status", "answer", "trace", "end"}, st : Statuses, answer : Nat, trace : Nat]

Brings(e) == IF e.kind = "answer" THEN 1 ELSE 0

\* The pieces of the answer come one by one, from the one after a up to m.
Chain(w, a, m) ==
  /\ a <= m
  /\ w = <<>> => a = m
  /\ w # <<>> => w[Len(w)].answer = m
  /\ \A i \in 1 .. Len(w) : /\ w[i].answer <= m
                            /\ w[i].answer = (IF i = 1 THEN a ELSE w[i - 1].answer) + Brings(w[i])

Failing(w) == w # <<>> /\ w[Len(w)].kind = "status" /\ w[Len(w)].st = "failed"
Bare(e) == e.answer = 0 /\ e.trace = 0

Wired ==
  /\ remote = [st |-> remote.st, answer |-> remote.answer, trace |-> remote.trace, streams |-> remote.streams]
  /\ remote.st \in Statuses /\ remote.answer \in Nat /\ remote.trace \in Nat
  /\ remote.st \in {"idle", "submitted"} => Bare(remote)
  /\ remote.st = "completed" => remote.answer > 0
  /\ wire \in Seq(Events)
  /\ got = [failed |-> got.failed, text |-> got.text, task |-> got.task] /\ got.task \in Events

\* A stream brings every piece, and nothing after its last status.
Streaming ==
  \E a \in Nat :
    /\ got.text = Text("answer", a)
    /\ Chain(wire, a, remote.answer)
    /\ Bare(got.task)
    /\ \A i \in 1 .. Len(wire) : wire[i].kind = "task" => Bare(wire[i])
    /\ remote.st = "failed" => got.failed \/ Failing(wire)

\* One task, when the turn is over.
Single ==
  /\ got.text = <<>>
  /\ \/ wire = <<>> /\ got.task = NoTask /\ ~got.failed /\ remote.st \notin {"completed", "failed"}
     \/ /\ wire = <<Event("task", remote)>> /\ got.task = NoTask /\ ~got.failed
        /\ remote.st \in {"completed", "failed"}
     \/ wire = <<>> /\ got.task = Event("task", remote) /\ remote.st \in {"completed", "failed"}

A2Inv == /\ Wired /\ AnswerIsWhole
         /\ Open => IF remote.streams THEN Streaming ELSE Single

LEMMA TextIs ==
  ASSUME NEW channel, NEW n \in Nat
  PROVE  /\ \E S : Text(channel, n) \in Seq(S)
         /\ Len(Text(channel, n)) = n /\ DOMAIN Text(channel, n) = 1 .. n
         /\ Text(channel, n) = <<>> <=> n = 0
<1> DEFINE t == Text(channel, n)
<1>1. t = [k \in 1 .. n |-> <<channel, k>>]
  BY DEF Text
<1>2. t \in [1 .. n -> {<<channel, k>> : k \in 1 .. n}] /\ DOMAIN t = 1 .. n
  BY <1>1
<1> HIDE DEF t
<1>3. t \in Seq({<<channel, k>> : k \in 1 .. n})
  BY <1>2, SeqDef
<1>4. Len(t) = n
  BY <1>2, <1>3, LenProperties
<1>5. t = <<>> <=> n = 0
  BY <1>3, <1>4, EmptySeq
<1> QED BY <1>2, <1>3, <1>4, <1>5 DEF t

LEMMA TextGrows ==
  ASSUME NEW channel, NEW n \in Nat
  PROVE  Append(Text(channel, n), <<channel, n + 1>>) = Text(channel, n + 1)
<1> DEFINE S == {<<channel, k>> : k \in Nat}
           t == Text(channel, n)
           u == Text(channel, n + 1)
           e == <<channel, n + 1>>
<1>1. t \in [1 .. n -> S] /\ u \in [1 .. n + 1 -> S] /\ e \in S
  BY DEF Text
<1>2. \A k \in 1 .. n : t[k] = u[k]
  BY DEF Text
<1>3. u[n + 1] = e
  BY DEF Text
<1> HIDE DEF S, t, u, e
<1>4. t \in Seq(S) /\ u \in Seq(S) /\ Len(t) = n /\ Len(u) = n + 1
  BY <1>1, SeqDef, LenProperties
<1>5. Append(t, e) \in Seq(S) /\ Len(Append(t, e)) = n + 1
      /\ \A i \in 1 .. n : Append(t, e)[i] = t[i]
      /\ Append(t, e)[n + 1] = e
  BY <1>1, <1>4, AppendProperties
<1>6. \A i \in 1 .. n + 1 : Append(t, e)[i] = u[i]
  BY <1>2, <1>3, <1>5
<1>7. Append(t, e) = u
  BY <1>4, <1>5, <1>6, SeqEqual
<1> QED BY <1>7 DEF t, u, e

LEMMA ChainGrows ==
  ASSUME NEW w \in Seq(Events), NEW a \in Nat, NEW m \in Nat, Chain(w, a, m),
         NEW e \in Events, e.answer = m + Brings(e)
  PROVE  /\ w \o <<e>> \in Seq(Events) /\ Len(w \o <<e>>) = Len(w) + 1
         /\ (w \o <<e>>)[Len(w) + 1] = e /\ \A i \in 1 .. Len(w) : (w \o <<e>>)[i] = w[i]
         /\ Chain(w \o <<e>>, a, e.answer)
<1> DEFINE v == w \o <<e>>
<1>1. <<e>> \in Seq(Events) /\ Len(<<e>>) = 1 /\ <<e>>[1] = e
  OBVIOUS
<1>2. Len(w) \in Nat
  BY LenProperties
<1>3. /\ v \in Seq(Events) /\ Len(v) = Len(w) + 1
      /\ v[Len(w) + 1] = e /\ \A i \in 1 .. Len(w) : v[i] = w[i]
  BY <1>1, <1>2, ConcatProperties
<1> HIDE DEF v
<1>4. e.answer \in Nat /\ m <= e.answer
  BY DEF Events, Brings
<1>5. v # <<>>
  BY <1>2, <1>3, EmptySeq
<1>6. \A i \in 1 .. Len(w) : w[i] \in Events /\ w[i].answer \in Nat
  <2> TAKE i \in 1 .. Len(w)
  <2>1. w[i] \in Events
    BY ElementOfSeq
  <2> QED BY <2>1 DEF Events
<1>7. ASSUME NEW i \in 1 .. Len(v)
      PROVE  /\ v[i].answer <= e.answer
             /\ v[i].answer = (IF i = 1 THEN a ELSE v[i - 1].answer) + Brings(v[i])
  <2>1. CASE i \in 1 .. Len(w)
    <3>1. i # 1 => i - 1 \in 1 .. Len(w)
      BY <1>2, <2>1
    <3>2. w[i].answer <= m /\ w[i].answer = (IF i = 1 THEN a ELSE w[i - 1].answer) + Brings(w[i])
      BY <2>1 DEF Chain
    <3>3. v[i] = w[i] /\ (i # 1 => v[i - 1] = w[i - 1])
      BY <1>3, <2>1, <3>1
    <3>4. v[i].answer <= e.answer
      <4>1. w[i].answer \in Nat
        BY <1>6, <2>1
      <4> QED BY <1>4, <3>2, <3>3, <4>1
    <3> QED BY <3>2, <3>3, <3>4
  <2>2. CASE i = Len(w) + 1
    <3>1. w = <<>> <=> i = 1
      BY <1>2, <2>2, EmptySeq
    <3>2. i # 1 => i - 1 = Len(w) /\ i - 1 \in 1 .. Len(w)
      BY <1>2, <2>2
    <3>3. i # 1 => v[i - 1].answer = m
      BY <1>3, <3>1, <3>2 DEF Chain
    <3>4. i = 1 => a = m
      BY <3>1 DEF Chain
    <3> QED BY <1>3, <1>4, <2>2, <3>3, <3>4
  <2> QED BY <1>2, <1>3, <1>7, <2>1, <2>2
<1>8. Chain(v, a, e.answer)
  BY <1>2, <1>3, <1>4, <1>5, <1>7 DEF Chain
<1> QED BY <1>3, <1>8 DEF v

LEMMA ChainRead ==
  ASSUME NEW w \in Seq(Events), w # <<>>, NEW a \in Nat, NEW m \in Nat, Chain(w, a, m)
  PROVE  /\ Head(w) \in Events /\ Tail(w) \in Seq(Events) /\ Head(w) = w[1]
         /\ Head(w).answer = a + Brings(Head(w))
         /\ Chain(Tail(w), Head(w).answer, m)
         /\ Len(Tail(w)) = Len(w) - 1 /\ Len(w) \in Nat \ {0}
         /\ \A i \in 1 .. Len(Tail(w)) : Tail(w)[i] = w[i + 1]
         /\ Tail(w) = <<>> <=> Len(w) = 1
<1> DEFINE t == Tail(w)
<1>1. /\ Head(w) \in Events /\ t \in Seq(Events) /\ Len(t) = Len(w) - 1
      /\ \A i \in 1 .. Len(t) : t[i] = w[i + 1]
  BY HeadTailProperties
<1>2. Head(w) = w[1] /\ Len(w) \in Nat \ {0}
  BY LenProperties, EmptySeq
<1> HIDE DEF t
<1>3. t = <<>> <=> Len(w) = 1
  BY <1>1, <1>2, EmptySeq
<1>4. Head(w).answer = a + Brings(Head(w)) /\ Head(w).answer <= m
  BY <1>2 DEF Chain
<1>5. t = <<>> => Head(w).answer = m
  BY <1>2, <1>3 DEF Chain
<1>6. t # <<>> => t[Len(t)] = w[Len(w)]
  BY <1>1, <1>2, <1>3
<1>7. \A i \in 1 .. Len(t) : /\ i + 1 \in 1 .. Len(w) /\ i + 1 # 1 /\ t[i] = w[i + 1]
                             /\ w[(i + 1) - 1] = IF i = 1 THEN Head(w) ELSE t[i - 1]
  BY <1>1, <1>2
<1>8. \A i \in 1 .. Len(t) : /\ t[i].answer <= m
                             /\ t[i].answer = (IF i = 1 THEN Head(w).answer ELSE t[i - 1].answer) + Brings(t[i])
  <2> TAKE i \in 1 .. Len(t)
  <2>1. /\ w[i + 1].answer <= m
        /\ w[i + 1].answer = w[(i + 1) - 1].answer + Brings(w[i + 1])
    BY <1>7 DEF Chain
  <2> QED BY <1>7, <2>1
<1>9. Chain(t, Head(w).answer, m)
  BY <1>4, <1>5, <1>6, <1>8 DEF Chain
<1> QED BY <1>1, <1>2, <1>3, <1>4, <1>9 DEF t
LEMMA A2Starts == A2Init => A2Inv
<1> SUFFICES ASSUME A2Init PROVE A2Inv
  OBVIOUS
<1>1. /\ remote = [st |-> "idle", answer |-> 0, trace |-> 0, streams |-> remote.streams]
      /\ remote.streams \in BOOLEAN
  BY DEF A2Init
<1>2. remote.st = "idle" /\ remote.answer = 0 /\ remote.trace = 0
  BY <1>1
<1>3. wire = <<>> /\ got = [failed |-> FALSE, text |-> <<>>, task |-> NoTask] /\ outcome = NoOutcome
  BY DEF A2Init
<1>4. ~got.failed /\ got.text = <<>> /\ got.task = NoTask
  BY <1>3
<1>5. <<>> \in Seq(Events) /\ Len(<<>>) = 0
  OBVIOUS
<1>6. NoTask \in Events /\ Bare(NoTask)
  BY DEF NoTask, Events, Statuses, Bare
<1>7. Wired
  BY <1>1, <1>2, <1>3, <1>4, <1>5, <1>6 DEF Wired, Statuses, Bare
<1>8. Streaming
  <2>1. Text("answer", 0) = <<>>
    BY TextIs
  <2>2. Chain(<<>>, 0, 0)
    BY <1>5 DEF Chain
  <2> QED BY <1>2, <1>3, <1>4, <1>5, <1>6, <2>1, <2>2 DEF Streaming
<1>9. Single
  BY <1>2, <1>3, <1>4 DEF Single
<1>10. AnswerIsWhole
  BY <1>3 DEF AnswerIsWhole, NoOutcome
<1> QED BY <1>7, <1>8, <1>9, <1>10 DEF A2Inv

LEMMA DelegateStep == ASSUME A2Inv, Delegate PROVE A2Inv'
<1>1. remote.st = "idle" /\ Open /\ UNCHANGED <<call, wire, got, lost>>
  BY DEF Delegate
<1>2. \/ /\ outcome' = Outcome("refused", <<>>) \/ outcome' = Outcome("error", <<>>)
         /\ UNCHANGED remote
      \/ /\ remote' = [remote EXCEPT !.st = "submitted"] /\ UNCHANGED outcome
  BY DEF Delegate
<1>3. CASE /\ outcome' = Outcome("refused", <<>>) \/ outcome' = Outcome("error", <<>>)
           /\ UNCHANGED remote
  <2>1. outcome'.kind \in {"refused", "error"}
    BY <1>3 DEF Outcome
  <2>2. Wired' /\ AnswerIsWhole' /\ ~Open'
    BY <1>1, <1>3, <2>1 DEF A2Inv, Wired, Bare, AnswerIsWhole, Open, NoOutcome
  <2> QED BY <2>2 DEF A2Inv
<1>4. CASE remote' = [remote EXCEPT !.st = "submitted"] /\ UNCHANGED outcome
  <2>1. remote' = [st |-> "submitted", answer |-> remote.answer, trace |-> remote.trace, streams |-> remote.streams]
    BY <1>4 DEF A2Inv, Wired
  <2>2. /\ remote'.st = "submitted" /\ remote'.answer = remote.answer /\ remote'.trace = remote.trace
        /\ remote'.streams = remote.streams
    BY <2>1
  <2>3. Wired'
    BY <1>1, <2>1, <2>2 DEF A2Inv, Wired, Bare, Statuses
  <2>4. AnswerIsWhole'
    BY <1>1, <1>4 DEF Open, NoOutcome, AnswerIsWhole
  <2>5. Streaming => Streaming'
    BY <1>1, <2>2 DEF Streaming
  <2>6. Single => Single'
    <3>1. Event("task", remote).st = "idle" /\ NoTask.st # "idle" /\ <<Event("task", remote)>> # <<>>
      BY <1>1 DEF Event, NoTask
    <3> QED BY <1>1, <2>2, <3>1 DEF Single
  <2> QED BY <1>1, <1>4, <2>2, <2>3, <2>4, <2>5, <2>6 DEF A2Inv, Open
<1> QED BY <1>2, <1>3, <1>4

Told(w) == \A i \in 1 .. Len(w) : w[i].kind = "task" => Bare(w[i])

LEMMA OneSent ==
  ASSUME NEW w \in Seq(Events), NEW a \in Nat, NEW m \in Nat, Chain(w, a, m), Told(w),
         NEW e \in Events, e.answer = m + Brings(e), e.kind = "task" => Bare(e)
  PROVE  /\ w \o <<e>> \in Seq(Events) /\ Chain(w \o <<e>>, a, e.answer) /\ Told(w \o <<e>>)
         /\ e.kind = "status" /\ e.st = "failed" => Failing(w \o <<e>>)
<1> DEFINE v == w \o <<e>>
<1>1. /\ v \in Seq(Events) /\ Len(v) = Len(w) + 1
      /\ v[Len(w) + 1] = e /\ \A i \in 1 .. Len(w) : v[i] = w[i]
      /\ Chain(v, a, e.answer)
  BY ChainGrows
<1> HIDE DEF v
<1>2. Len(w) \in Nat
  BY LenProperties
<1>3. v # <<>>
  BY <1>1, <1>2, EmptySeq
<1>4. Told(v)
  BY <1>1, <1>2 DEF Told
<1>5. v[Len(v)] = e
  BY <1>1
<1> QED BY <1>1, <1>3, <1>4, <1>5 DEF Failing, v

LEMMA OneByOne ==
  ASSUME NEW S, NEW w \in Seq(S), NEW d \in S, NEW e \in S
  PROVE  w \o <<d, e>> = (w \o <<d>>) \o <<e>>
<1>1. <<d>> \in Seq(S) /\ <<e>> \in Seq(S) /\ <<d, e>> \in Seq(S)
  OBVIOUS
<1>2. Len(<<d>>) = 1 /\ Len(<<e>>) = 1 /\ Len(<<d, e>>) = 2
      /\ <<d>>[1] = d /\ <<e>>[1] = e /\ <<d, e>>[1] = d /\ <<d, e>>[2] = e
  OBVIOUS
<1>3. PICK c : c = <<d>> \o <<e>>
  OBVIOUS
<1>4. c \in Seq(S) /\ Len(c) = 2 /\ c[1] = d /\ c[2] = e
  BY <1>1, <1>2, <1>3, ConcatProperties
<1>5. \A i \in 1 .. 2 : c[i] = <<d, e>>[i]
  <2> TAKE i \in 1 .. 2
  <2>1. i = 1 \/ i = 2
    OBVIOUS
  <2> QED BY <1>2, <1>4, <2>1
<1>6. c = <<d, e>>
  BY <1>1, <1>2, <1>4, <1>5, SeqEqual
<1> QED BY <1>1, <1>3, <1>6, ConcatAssociative

LEMMA TwoSent ==
  ASSUME NEW w \in Seq(Events), NEW a \in Nat, NEW m \in Nat, Chain(w, a, m), Told(w),
         NEW d \in Events, d.answer = m + Brings(d), d.kind = "task" => Bare(d),
         NEW e \in Events, e.answer = d.answer + Brings(e), e.kind = "task" => Bare(e)
  PROVE  Chain(w \o <<d, e>>, a, e.answer) /\ Told(w \o <<d, e>>)
<1> DEFINE v == w \o <<d>>
<1>1. v \in Seq(Events) /\ Chain(v, a, d.answer) /\ Told(v)
  BY OneSent
<1>2. d.answer \in Nat
  BY DEF Events
<1>3. w \o <<d, e>> = v \o <<e>>
  BY OneByOne
<1> HIDE DEF v
<1> QED BY <1>1, <1>2, <1>3, OneSent

\* A step of the remote, which may go on when the tool has returned.
LEMMA Goes ==
  ASSUME A2Inv, Reader, remote.st \in {"submitted", "working"},
         NEW r, remote' = r, r = [st |-> r.st, answer |-> r.answer, trace |-> r.trace, streams |-> r.streams],
         r.streams = remote.streams, r.st \in {"working", "completed", "failed"},
         r.answer \in Nat, remote.answer <= r.answer, r.trace \in Nat,
         r.st = "completed" => r.answer > 0,
         wire' \in Seq(Events),
         remote.streams =>
           \A a \in Nat : Chain(wire, a, remote.answer) /\ Told(wire) =>
             Chain(wire', a, r.answer) /\ Told(wire') /\ (r.st = "failed" => Failing(wire')),
         ~remote.streams =>
           \/ wire' = wire /\ r.st = "working"
           \/ wire' = <<Event("task", r)>> /\ r.st \in {"completed", "failed"}
  PROVE  A2Inv'
<1>1. UNCHANGED <<got, lost, shown, outcome>>
  BY DEF Reader
<1>2. Wired'
  BY <1>1 DEF A2Inv, Wired, Statuses
<1>3. AnswerIsWhole'
  <2> SUFFICES ASSUME outcome.kind = "answer" PROVE AnswerIsWhole'
    BY <1>1 DEF AnswerIsWhole
  <2>1. shown = "completed" /\ lost /\ \E n \in 0 .. remote.answer : outcome.text = Text("answer", n)
    BY DEF A2Inv, AnswerIsWhole
  <2>2. \E n \in 0 .. r.answer : outcome.text = Text("answer", n)
    <3>1. PICK n \in 0 .. remote.answer : outcome.text = Text("answer", n)
      BY <2>1
    <3>2. n \in 0 .. r.answer
      BY DEF A2Inv, Wired
    <3> QED BY <3>1, <3>2
  <2> QED BY <1>1, <2>1, <2>2 DEF AnswerIsWhole
<1>4. ASSUME Open, remote.streams PROVE Streaming'
  <2>1. PICK a \in Nat : /\ got.text = Text("answer", a)
                        /\ Chain(wire, a, remote.answer) /\ Bare(got.task) /\ Told(wire)
    BY <1>4 DEF A2Inv, Streaming, Told
  <2>2. Chain(wire', a, r.answer) /\ Told(wire') /\ (r.st = "failed" => Failing(wire'))
    BY <1>4, <2>1
  <2> QED BY <1>1, <2>1, <2>2 DEF Streaming, Told
<1>5. ASSUME Open, ~remote.streams PROVE Single'
  <2>1. wire = <<>> /\ got.task = NoTask /\ ~got.failed /\ got.text = <<>>
    BY <1>5 DEF A2Inv, Single
  <2> QED BY <1>1, <1>5, <2>1 DEF Single
<1> QED BY <1>1, <1>2, <1>3, <1>4, <1>5 DEF A2Inv, Open

LEMMA EventIs ==
  ASSUME NEW what \in {"task", "status", "answer", "trace", "end"}, NEW r,
         r.st \in Statuses, r.answer \in Nat, r.trace \in Nat
  PROVE  /\ Event(what, r) \in Events /\ Event(what, r).kind = what /\ Event(what, r).st = r.st
         /\ Event(what, r).answer = r.answer /\ Event(what, r).trace = r.trace
BY DEF Event, Events

LEMMA AcceptStep == ASSUME A2Inv, Accept PROVE A2Inv'
<1>1. PICK q : q = remote
  OBVIOUS
<1>2. PICK r : r = [q EXCEPT !.st = "working"]
  OBVIOUS
<1>3. /\ q = [st |-> q.st, answer |-> q.answer, trace |-> q.trace, streams |-> q.streams]
      /\ q.st \in Statuses /\ q.answer \in Nat /\ q.trace \in Nat /\ Bare(q) /\ wire \in Seq(Events)
  BY <1>1 DEF Accept, A2Inv, Wired
<1>4. r = [st |-> "working", answer |-> q.answer, trace |-> q.trace, streams |-> q.streams]
  BY <1>2, <1>3
<1>5. PICK d, e : d = Event("task", q) /\ e = Event("status", r)
  OBVIOUS
<1>6. /\ d \in Events /\ d.kind = "task" /\ d.answer = q.answer /\ Bare(d)
      /\ e \in Events /\ e.kind = "status" /\ e.answer = q.answer
  BY <1>3, <1>4, <1>5, EventIs DEF Statuses, Bare
<1>7. remote' = r /\ wire' = (IF q.streams THEN wire \o <<d, e>> ELSE wire) /\ Reader
  BY <1>1, <1>2, <1>5 DEF Accept, Emit
<1>8. <<d, e>> \in Seq(Events)
  BY <1>6
<1>9. wire' \in Seq(Events)
  BY <1>3, <1>7, <1>8, ConcatProperties
<1>10. ASSUME q.streams, NEW a \in Nat, Chain(wire, a, q.answer), Told(wire)
       PROVE  Chain(wire', a, r.answer) /\ Told(wire')
  <2>1. PICK w : w = wire
    OBVIOUS
  <2>2. Chain(w \o <<d, e>>, a, e.answer) /\ Told(w \o <<d, e>>)
    BY <1>3, <1>6, <1>10, <2>1, TwoSent DEF Brings
  <2> QED BY <1>4, <1>6, <1>7, <1>10, <2>1, <2>2
<1>11. remote.st = "submitted"
  BY DEF Accept
<1>12. r.st = "working" /\ r.answer = q.answer /\ r.trace = q.trace /\ r.streams = q.streams
  BY <1>4
<1>13. r = [st |-> r.st, answer |-> r.answer, trace |-> r.trace, streams |-> r.streams]
  BY <1>4, <1>12
<1>14. remote.streams =>
         \A a \in Nat : Chain(wire, a, remote.answer) /\ Told(wire) =>
           Chain(wire', a, r.answer) /\ Told(wire') /\ (r.st = "failed" => Failing(wire'))
  BY <1>1, <1>10, <1>12
<1>15. /\ remote.st \in {"submitted", "working"} /\ r.streams = remote.streams
       /\ r.st \in {"working", "completed", "failed"} /\ r.answer \in Nat /\ remote.answer <= r.answer
       /\ r.trace \in Nat /\ (r.st = "completed" => r.answer > 0)
       /\ (~remote.streams => wire' = wire /\ r.st = "working")
  BY <1>1, <1>3, <1>7, <1>11, <1>12
<1> QED BY <1>7, <1>9, <1>13, <1>14, <1>15, Goes

LEMMA WriteStep == ASSUME A2Inv, NEW channel \in {"answer", "trace"}, Write(channel) PROVE A2Inv'
<1>1. PICK q : q = remote
  OBVIOUS
<1>2. PICK r : r = [q EXCEPT ![channel] = @ + 1]
  OBVIOUS
<1>3. /\ q = [st |-> q.st, answer |-> q.answer, trace |-> q.trace, streams |-> q.streams]
      /\ q.st = "working" /\ q.answer \in Nat /\ q.trace \in Nat /\ wire \in Seq(Events)
  BY <1>1 DEF Write, A2Inv, Wired
<1>4. r = [st |-> "working", answer |-> IF channel = "answer" THEN q.answer + 1 ELSE q.answer,
           trace |-> IF channel = "trace" THEN q.trace + 1 ELSE q.trace, streams |-> q.streams]
  <2>1. CASE channel = "answer"
    BY <1>2, <1>3, <2>1
  <2>2. CASE channel = "trace"
    BY <1>2, <1>3, <2>2
  <2> QED BY <2>1, <2>2
<1>5. /\ r.st = "working" /\ r.answer = (IF channel = "answer" THEN q.answer + 1 ELSE q.answer)
      /\ r.trace = (IF channel = "trace" THEN q.trace + 1 ELSE q.trace) /\ r.streams = q.streams
  BY <1>4
<1>6. r = [st |-> r.st, answer |-> r.answer, trace |-> r.trace, streams |-> r.streams]
  BY <1>4, <1>5
<1>7. r.answer \in Nat /\ r.trace \in Nat /\ q.answer <= r.answer
  BY <1>3, <1>5
<1>8. PICK e : e = Event(channel, r)
  OBVIOUS
<1>9. e \in Events /\ e.kind = channel /\ e.answer = r.answer
  BY <1>5, <1>7, <1>8, EventIs DEF Statuses
<1>10. remote' = r /\ wire' = (IF q.streams THEN wire \o <<e>> ELSE wire) /\ Reader
  BY <1>1, <1>2, <1>8 DEF Write, Emit
<1>11. <<e>> \in Seq(Events)
  BY <1>9
<1>12. wire' \in Seq(Events)
  BY <1>3, <1>10, <1>11, ConcatProperties
<1>13. ASSUME q.streams, NEW a \in Nat, Chain(wire, a, q.answer), Told(wire)
       PROVE  Chain(wire', a, r.answer) /\ Told(wire')
  <2>1. PICK w : w = wire
    OBVIOUS
  <2>2. e.answer = q.answer + Brings(e) /\ e.kind # "task"
    BY <1>3, <1>5, <1>9 DEF Brings
  <2>3. Chain(w \o <<e>>, a, e.answer) /\ Told(w \o <<e>>)
    BY <1>3, <1>9, <1>13, <2>1, <2>2, OneSent
  <2> QED BY <1>9, <1>10, <1>13, <2>1, <2>3
<1>14. remote.streams =>
         \A a \in Nat : Chain(wire, a, remote.answer) /\ Told(wire) =>
           Chain(wire', a, r.answer) /\ Told(wire') /\ (r.st = "failed" => Failing(wire'))
  BY <1>1, <1>5, <1>13
<1>15. /\ remote.st \in {"submitted", "working"} /\ r.streams = remote.streams
       /\ r.st \in {"working", "completed", "failed"} /\ r.answer \in Nat /\ remote.answer <= r.answer
       /\ r.trace \in Nat /\ (r.st = "completed" => r.answer > 0)
       /\ (~remote.streams => wire' = wire /\ r.st = "working")
  BY <1>1, <1>3, <1>5, <1>7, <1>10
<1> QED BY <1>6, <1>10, <1>12, <1>14, <1>15, Goes

LEMMA CompleteStep == ASSUME A2Inv, Complete PROVE A2Inv'
<1>1. PICK q : q = remote
  OBVIOUS
<1>2. PICK r : r = [q EXCEPT !.st = "completed", !.answer = IF @ = 0 THEN 1 ELSE @]
  OBVIOUS
<1>3. /\ q = [st |-> q.st, answer |-> q.answer, trace |-> q.trace, streams |-> q.streams]
      /\ q.st = "working" /\ q.answer \in Nat /\ q.trace \in Nat /\ wire \in Seq(Events)
  BY <1>1 DEF Complete, TurnEnds, A2Inv, Wired
<1>4. r = [st |-> "completed", answer |-> IF q.answer = 0 THEN 1 ELSE q.answer, trace |-> q.trace, streams |-> q.streams]
  BY <1>2, <1>3
<1>5. /\ r.st = "completed" /\ r.answer = (IF q.answer = 0 THEN 1 ELSE q.answer)
      /\ r.trace = q.trace /\ r.streams = q.streams
  BY <1>4
<1>6. r = [st |-> r.st, answer |-> r.answer, trace |-> r.trace, streams |-> r.streams]
  BY <1>4, <1>5
<1>7. r.answer \in Nat /\ r.trace \in Nat /\ q.answer <= r.answer /\ r.answer > 0
  BY <1>3, <1>5
<1>8. PICK last \in {"answer", "end"} : last = IF q.answer = 0 THEN "answer" ELSE "end"
  OBVIOUS
<1>9. PICK d, e, t : d = Event(last, r) /\ e = Event("status", r) /\ t = Event("task", r)
  OBVIOUS
<1>10. /\ d \in Events /\ d.kind = last /\ d.answer = r.answer
       /\ e \in Events /\ e.kind = "status" /\ e.answer = r.answer /\ t \in Events
  BY <1>5, <1>7, <1>8, <1>9, EventIs DEF Statuses
<1>11. remote' = r /\ wire' = (IF q.streams THEN wire \o <<d, e>> ELSE <<t>>) /\ Reader
  BY <1>1, <1>2, <1>8, <1>9 DEF Complete, TurnEnds
<1>12. <<d, e>> \in Seq(Events) /\ <<t>> \in Seq(Events)
  BY <1>10
<1>13. wire' \in Seq(Events)
  BY <1>3, <1>11, <1>12, ConcatProperties
<1>14. ASSUME q.streams, NEW a \in Nat, Chain(wire, a, q.answer), Told(wire)
       PROVE  Chain(wire', a, r.answer) /\ Told(wire')
  <2>1. PICK w : w = wire
    OBVIOUS
  <2>2. d.answer = q.answer + Brings(d) /\ e.answer = d.answer + Brings(e) /\ d.kind # "task" /\ e.kind # "task"
    BY <1>3, <1>5, <1>8, <1>10 DEF Brings
  <2>3. Chain(w \o <<d, e>>, a, e.answer) /\ Told(w \o <<d, e>>)
    BY <1>3, <1>10, <1>14, <2>1, <2>2, TwoSent
  <2> QED BY <1>10, <1>11, <1>14, <2>1, <2>3
<1>15. remote.streams =>
         \A a \in Nat : Chain(wire, a, remote.answer) /\ Told(wire) =>
           Chain(wire', a, r.answer) /\ Told(wire') /\ (r.st = "failed" => Failing(wire'))
  BY <1>1, <1>5, <1>14
<1>16. /\ remote.st \in {"submitted", "working"} /\ r.streams = remote.streams
       /\ r.st \in {"working", "completed", "failed"} /\ r.answer \in Nat /\ remote.answer <= r.answer
       /\ r.trace \in Nat /\ (r.st = "completed" => r.answer > 0)
       /\ (~remote.streams => wire' = <<Event("task", r)>> /\ r.st \in {"completed", "failed"})
  BY <1>1, <1>3, <1>5, <1>7, <1>9, <1>11
<1> QED BY <1>6, <1>11, <1>13, <1>15, <1>16, Goes

LEMMA FailStep == ASSUME A2Inv, Fail PROVE A2Inv'
<1>1. PICK q : q = remote
  OBVIOUS
<1>2. PICK r : r = [q EXCEPT !.st = "failed"]
  OBVIOUS
<1>3. /\ q = [st |-> q.st, answer |-> q.answer, trace |-> q.trace, streams |-> q.streams]
      /\ q.st = "working" /\ q.answer \in Nat /\ q.trace \in Nat /\ wire \in Seq(Events)
  BY <1>1 DEF Fail, TurnEnds, A2Inv, Wired
<1>4. r = [st |-> "failed", answer |-> q.answer, trace |-> q.trace, streams |-> q.streams]
  BY <1>2, <1>3
<1>5. r.st = "failed" /\ r.answer = q.answer /\ r.trace = q.trace /\ r.streams = q.streams
  BY <1>4
<1>6. r = [st |-> r.st, answer |-> r.answer, trace |-> r.trace, streams |-> r.streams]
  BY <1>4, <1>5
<1>7. PICK e, t : e = Event("status", r) /\ t = Event("task", r)
  OBVIOUS
<1>8. /\ e \in Events /\ e.kind = "status" /\ e.st = "failed" /\ e.answer = r.answer /\ t \in Events
  BY <1>3, <1>5, <1>7, EventIs DEF Statuses
<1>9. remote' = r /\ wire' = (IF q.streams THEN wire \o <<e>> ELSE <<t>>) /\ Reader
  BY <1>1, <1>2, <1>7 DEF Fail, TurnEnds
<1>10. <<e>> \in Seq(Events) /\ <<t>> \in Seq(Events)
  BY <1>8
<1>11. wire' \in Seq(Events)
  BY <1>3, <1>9, <1>10, ConcatProperties
<1>12. ASSUME q.streams, NEW a \in Nat, Chain(wire, a, q.answer), Told(wire)
       PROVE  Chain(wire', a, r.answer) /\ Told(wire') /\ Failing(wire')
  <2>1. PICK w : w = wire
    OBVIOUS
  <2>2. e.answer = q.answer + Brings(e) /\ e.kind # "task"
    BY <1>3, <1>5, <1>8 DEF Brings
  <2>3. Chain(w \o <<e>>, a, e.answer) /\ Told(w \o <<e>>) /\ Failing(w \o <<e>>)
    BY <1>3, <1>8, <1>12, <2>1, <2>2, OneSent
  <2> QED BY <1>8, <1>9, <1>12, <2>1, <2>3
<1>13. remote.streams =>
         \A a \in Nat : Chain(wire, a, remote.answer) /\ Told(wire) =>
           Chain(wire', a, r.answer) /\ Told(wire') /\ (r.st = "failed" => Failing(wire'))
  BY <1>1, <1>12
<1>14. /\ remote.st \in {"submitted", "working"} /\ r.streams = remote.streams
       /\ r.st \in {"working", "completed", "failed"} /\ r.answer \in Nat /\ remote.answer <= r.answer
       /\ r.trace \in Nat /\ (r.st = "completed" => r.answer > 0)
       /\ (~remote.streams => wire' = <<Event("task", r)>> /\ r.st \in {"completed", "failed"})
  BY <1>1, <1>3, <1>5, <1>7, <1>9
<1> QED BY <1>6, <1>9, <1>11, <1>13, <1>14, Goes

LEMMA ReadStep == ASSUME A2Inv, Read PROVE A2Inv'
<1>1. PICK w, e, g : w = wire /\ e = Head(w) /\ g = got
  OBVIOUS
<1>2. /\ w \in Seq(Events) /\ w # <<>> /\ outcome = NoOutcome /\ wire' = Tail(w)
      /\ UNCHANGED <<call, remote, lost, outcome>>
      /\ got' = [failed |-> g.failed \/ (e.kind = "status" /\ e.st = "failed"),
                 text |-> IF e.kind = "answer" THEN Append(g.text, <<"answer", e.answer>>) ELSE g.text,
                 task |-> IF e.kind = "task" THEN e ELSE g.task]
  BY <1>1 DEF Read, Listening, Open, A2Inv, Wired
<1>3. /\ e \in Events /\ Tail(w) \in Seq(Events) /\ e = w[1] /\ Len(w) \in Nat \ {0}
      /\ Len(Tail(w)) = Len(w) - 1
      /\ \A i \in 1 .. Len(Tail(w)) : Tail(w)[i] = w[i + 1]
      /\ (Tail(w) = <<>> <=> Len(w) = 1)
  <2>1. PICK t : t = Tail(w)
    OBVIOUS
  <2>2. e \in Events /\ t \in Seq(Events) /\ Len(t) = Len(w) - 1 /\ \A i \in 1 .. Len(t) : t[i] = w[i + 1]
    BY <1>1, <1>2, <2>1, HeadTailProperties
  <2>3. e = w[1] /\ Len(w) \in Nat \ {0}
    BY <1>1, <1>2, EmptySeq
  <2>4. t = <<>> <=> Len(w) = 1
    BY <2>2, <2>3, EmptySeq
  <2> QED BY <2>1, <2>2, <2>3, <2>4
<1>4. /\ got' = [failed |-> got'.failed, text |-> got'.text, task |-> got'.task]
      /\ (e.kind = "status" /\ e.st = "failed" => got'.failed) /\ (g.failed => got'.failed)
      /\ (got'.failed => g.failed \/ e.kind = "status")
      /\ got'.text = (IF e.kind = "answer" THEN Append(g.text, <<"answer", e.answer>>) ELSE g.text)
      /\ got'.task = (IF e.kind = "task" THEN e ELSE g.task)
  BY <1>2
<1>5. g.task \in Events
  BY <1>1 DEF A2Inv, Wired
<1>6. Wired'
  BY <1>2, <1>3, <1>4, <1>5 DEF A2Inv, Wired, Bare
<1>7. AnswerIsWhole' /\ Open
  BY <1>2 DEF AnswerIsWhole, NoOutcome, Open
<1>8. ASSUME remote.streams PROVE Streaming'
  <2>1. PICK a \in Nat : /\ g.text = Text("answer", a)
                         /\ Chain(w, a, remote.answer) /\ Bare(g.task) /\ Told(w)
                         /\ (remote.st = "failed" => g.failed \/ Failing(w))
    BY <1>1, <1>7, <1>8 DEF A2Inv, Streaming, Told
  <2>2. remote.answer \in Nat
    BY DEF A2Inv, Wired
  <2>3. e.answer = a + Brings(e) /\ Chain(Tail(w), e.answer, remote.answer)
    BY <1>1, <1>2, <2>1, <2>2, ChainRead
  <2>4. e.answer \in Nat
    BY <1>3 DEF Events
  <2>5. got'.text = Text("answer", e.answer)
    <3>1. CASE e.kind = "answer"
      <4>1. e.answer = a + 1
        BY <2>3, <3>1 DEF Brings
      <4> QED BY <1>4, <2>1, <3>1, <4>1, TextGrows
    <3>2. CASE e.kind # "answer"
      <4>1. e.answer = a
        BY <2>3, <3>2 DEF Brings
      <4> QED BY <1>4, <2>1, <3>2, <4>1
    <3> QED BY <3>1, <3>2
  <2>6. Bare(got'.task)
    <3>1. 1 \in 1 .. Len(w)
      BY <1>3
    <3> QED BY <1>3, <1>4, <2>1, <3>1 DEF Told
  <2>7. Told(Tail(w))
    <3>1. \A i \in 1 .. Len(Tail(w)) : i + 1 \in 1 .. Len(w)
      BY <1>3
    <3> QED BY <1>3, <2>1, <3>1 DEF Told
  <2>8. remote.st = "failed" => got'.failed \/ Failing(Tail(w))
    <3>1. Failing(w) => got'.failed \/ Failing(Tail(w))
      <4>1. CASE Len(w) = 1
        BY <1>3, <1>4, <4>1 DEF Failing
      <4>2. CASE Len(w) # 1
        <5>1. Tail(w)[Len(Tail(w))] = w[Len(w)] /\ Tail(w) # <<>>
          BY <1>3, <4>2
        <5> QED BY <5>1 DEF Failing
      <4> QED BY <4>1, <4>2
    <3> QED BY <1>4, <2>1, <3>1
  <2> QED BY <1>2, <2>3, <2>4, <2>5, <2>6, <2>7, <2>8 DEF Streaming, Told
<1>9. ASSUME ~remote.streams PROVE Single'
  <2>1. PICK t : t = Event("task", remote)
    OBVIOUS
  <2>2. w = <<t>> /\ g.task = NoTask /\ ~g.failed /\ g.text = <<>> /\ remote.st \in {"completed", "failed"}
    BY <1>1, <1>2, <1>7, <1>9, <2>1 DEF A2Inv, Single
  <2>3. e = t /\ Tail(w) = <<>> /\ t.kind = "task"
    <3>1. t.kind = "task"
      BY <2>1 DEF Event
    <3>2. <<t>>[1] = t /\ Len(<<t>>) = 1
      OBVIOUS
    <3> QED BY <1>3, <2>2, <3>1, <3>2
  <2> QED BY <1>2, <1>4, <2>1, <2>2, <2>3 DEF Single
<1> QED BY <1>2, <1>6, <1>7, <1>8, <1>9 DEF A2Inv

\* The whole of what the client makes of what it has read.
LEMMA Collected ==
  ASSUME Wired, Open, IF remote.streams THEN Streaming ELSE Single, Collect.kind = "answer"
  PROVE  /\ (wire # <<>> \/ remote.st \notin {"completed", "failed"}) =>
              \E n \in 0 .. remote.answer : Collect.text = Text("answer", n)
         /\ (wire = <<>> /\ remote.st \in {"completed", "failed"}) =>
              \/ remote.st = "completed" /\ Collect.text = Text("answer", remote.answer)
              \/ /\ remote.st = "failed" /\ ~remote.streams
                 /\ Collect.text = IF remote.answer > 0 THEN Text("answer", remote.answer)
                                   ELSE Text("trace", remote.trace)
<1>1. PICK q, g : q = remote /\ g = got
  OBVIOUS
<1>2. q.answer \in Nat /\ q.trace \in Nat /\ g.task \in Events /\ (q.st = "completed" => q.answer > 0)
      /\ q.st \in Statuses
  BY <1>1 DEF Wired
<1>3. g.task.answer \in Nat /\ g.task.trace \in Nat
  BY <1>2 DEF Events
<1>4. /\ ~g.failed
      /\ Collect.text = IF Fruitful THEN FromTask ELSE g.text
      /\ ~(~Fruitful /\ g.text = <<>> /\ g.task.st = "failed")
  BY <1>1 DEF Collect, Outcome
<1>5. Fruitful <=> g.task.answer > 0 \/ g.task.trace > 0
  BY <1>1, <1>3 DEF Fruitful
<1>6. FromTask = IF g.task.answer > 0 THEN Text("answer", g.task.answer) ELSE Text("trace", g.task.trace)
  BY <1>1 DEF FromTask
<1>7. CASE q.streams
  <2>1. PICK a \in Nat : /\ g.text = Text("answer", a)
                         /\ Chain(wire, a, q.answer) /\ Bare(g.task)
                         /\ (q.st = "failed" => g.failed \/ Failing(wire))
    BY <1>1, <1>7 DEF Streaming
  <2>2. Collect.text = Text("answer", a)
    BY <1>4, <1>5, <2>1 DEF Bare
  <2>3. a \in 0 .. q.answer /\ (wire = <<>> => a = q.answer)
    BY <1>2, <2>1 DEF Chain
  <2>4. wire = <<>> => q.st # "failed"
    BY <1>4, <2>1 DEF Failing
  <2> QED BY <1>1, <2>2, <2>3, <2>4
<1>8. CASE ~q.streams
  <2>1. Single /\ Text("answer", 0) = <<>>
    BY <1>1, <1>8, TextIs
  <2>2. CASE g.task = NoTask /\ (wire # <<>> \/ q.st \notin {"completed", "failed"})
    <3>1. ~Fruitful /\ g.text = <<>>
      BY <1>1, <1>5, <2>1, <2>2 DEF NoTask, Single
    <3>2. 0 \in 0 .. q.answer
      BY <1>2
    <3> QED BY <1>1, <1>4, <2>1, <2>2, <3>1, <3>2
  <2>3. CASE wire = <<>> /\ g.task = Event("task", q) /\ q.st \in {"completed", "failed"}
    <3>1. g.task.st = q.st /\ g.task.answer = q.answer /\ g.task.trace = q.trace /\ g.text = <<>>
      BY <1>1, <2>1, <2>3 DEF Event, Single
    <3>2. Fruitful
      BY <1>2, <1>4, <1>5, <2>3, <3>1
    <3>3. Collect.text = IF q.answer > 0 THEN Text("answer", q.answer) ELSE Text("trace", q.trace)
      BY <1>4, <1>6, <3>1, <3>2
    <3>4. /\ wire = <<>> /\ q.st \in {"completed", "failed"} /\ ~q.streams
          /\ (q.st = "completed" => Collect.text = Text("answer", q.answer))
      BY <1>2, <1>8, <2>3, <3>3
    <3> QED BY <1>1, <3>3, <3>4
  <2>4. <<Event("task", q)>> # <<>>
    OBVIOUS
  <2> QED BY <1>1, <2>1, <2>2, <2>3, <2>4 DEF Single
<1> QED BY <1>7, <1>8

LEMMA EndStep ==
  ASSUME A2Inv, BreaksOff \/ \E early \in BOOLEAN : Ends(early)
  PROVE  A2Inv'
<1>1. Open /\ wire' = <<>> /\ UNCHANGED <<call, remote, got>>
  BY DEF BreaksOff, Ends, Listening
<1>2. Wired'
  <2>1. <<>> \in Seq(Events)
    OBVIOUS
  <2> QED BY <1>1, <2>1 DEF A2Inv, Wired, Bare
<1>3. CASE BreaksOff
  <2>1. outcome'.kind = "error"
    BY <1>3 DEF BreaksOff, Outcome
  <2> QED BY <1>2, <2>1 DEF A2Inv, AnswerIsWhole, Open, NoOutcome
<1>4. ASSUME NEW early \in BOOLEAN, Ends(early) PROVE A2Inv'
  <2>1. PICK c : c = Collect
    OBVIOUS
  <2>2. /\ outcome' = c /\ c.kind \in {"answer", "error"}
        /\ lost' = (wire # <<>> \/ remote.st \notin {"completed", "failed"})
        /\ (c.kind = "answer" => shown' = "completed")
    BY <1>4, <2>1 DEF Ends, Collect, Outcome
  <2>3. ~Open'
    BY <2>2 DEF Open, NoOutcome
  <2>4. AnswerIsWhole'
    <3> SUFFICES ASSUME c.kind = "answer" PROVE AnswerIsWhole'
      BY <2>2 DEF AnswerIsWhole
    <3>1. /\ (wire # <<>> \/ remote.st \notin {"completed", "failed"}) =>
              \E n \in 0 .. remote.answer : c.text = Text("answer", n)
          /\ (wire = <<>> /\ remote.st \in {"completed", "failed"}) =>
              \/ remote.st = "completed" /\ c.text = Text("answer", remote.answer)
              \/ /\ remote.st = "failed" /\ ~remote.streams
                 /\ c.text = IF remote.answer > 0 THEN Text("answer", remote.answer)
                             ELSE Text("trace", remote.trace)
      BY <1>1, <2>1, Collected DEF A2Inv
    <3> QED BY <1>1, <2>2, <3>1 DEF AnswerIsWhole
  <2> QED BY <1>2, <2>3, <2>4 DEF A2Inv
<1> QED BY <1>3, <1>4

LEMMA A2Step == A2Inv /\ [A2Next]_a2Vars => A2Inv'
<1> SUFFICES ASSUME A2Inv, [A2Next]_a2Vars PROVE A2Inv'
  OBVIOUS
<1>1. CASE UNCHANGED a2Vars
  BY <1>1 DEF a2Vars, A2Inv, Wired, Bare, AnswerIsWhole, Open, Streaming, Chain, Brings, Failing, Single
<1>2. CASE A2Next
  BY <1>2, DelegateStep, AcceptStep, WriteStep, CompleteStep, FailStep, ReadStep, EndStep DEF A2Next
<1> QED BY <1>1, <1>2

\* However many pieces a remote writes, and however they and its end are interleaved with
\* the client's reading, what passes for the answer is the whole answer of a remote that
\* completed, but for the two cases the property names (HubloomExecutor.execute,
\* send_and_wait_answer, collect_answer_from_stream).
THEOREM AnswerIsWholeCorrect == A2Spec => []AnswerIsWhole
<1>1. A2Inv => AnswerIsWhole
  BY DEF A2Inv
<1> QED BY A2Starts, A2Step, <1>1, PTL DEF A2Spec

-----------------------------------------------------------------------------
(* Knowledge.                                                              *)

Shape == {"st", "todo", "existing", "handle", "file", "embedded", "beside"}

\* What is read of a start that has begun.
Begun(r) ==
  /\ DOMAIN r = Shape /\ r = [x \in Shape |-> r[x]]
  /\ r.st \in {"next", "embed", "failed", "done"}
  /\ r.todo \subseteq Files
  /\ r.st = "done" => r.todo = {}
  /\ r.st = "embed" => r.file \in r.todo /\ Chunks[r.file] > 0 /\ FileName[r.file] \notin r.existing

Hosts ==
  /\ removed \in Nat
  /\ DOMAIN host = Starts /\ host = [b \in Starts |-> host[b]]
  /\ \A b \in Starts : host[b] = [st |-> "off"] \/ Begun(host[b])

\* A document was made by a start that has it behind it, and is whole.
Documents ==
  \A c \in coll :
    /\ c[1] \in Starts \X Files
    /\ host[c[1][1]].st # "off" /\ c[1][2] \notin host[c[1][1]].todo
    /\ FileName[c[1][2]] \in host[c[1][1]].existing
    /\ Entries({c[1]}) = {c[1]} \X (1 .. Chunks[c[1][2]])

\* What a start takes for indexed is, or comes to nothing; so are the files behind it.
Listed ==
  removed = 0 => \A b \in Starts : host[b].st # "off" =>
    /\ \A n \in host[b].existing : Accounted(n)
    /\ \A f \in Files \ host[b].todo : Accounted(FileName[f])

\* Of two starts that were not there together, one was over before the other looked.
Precedes(a, b) == ~Busy(a) /\ \A c \in coll : c[1][1] = a => FileName[c[1][2]] \in host[b].existing

InTurn ==
  \A a, b \in Starts :
    a # b /\ host[a].st # "off" /\ host[b].st # "off" =>
      a \in host[b].beside \/ b \in host[a].beside \/ Precedes(a, b) \/ Precedes(b, a)

Twice ==
  \A c, e \in coll :
    c[1] # e[1] /\ FileName[c[1][2]] = FileName[e[1][2]] =>
      c[1][1] \in host[e[1][1]].beside \/ e[1][1] \in host[c[1][1]].beside

Searches ==
  /\ DOMAIN search = {"st", "queries", "merge", "found"}
  /\ \E S : search.found \in Seq(S)
  /\ search.st = "ask" /\ ~search.merge => Len(search.queries) = 1 /\ search.found = <<>>

Indexing == Hosts /\ Documents /\ Listed /\ InTurn /\ Twice
KBInv == Indexing /\ IsFiniteSet(coll) /\ Searches /\ ShownOnceBestFirst

LEMMA KBStarts == KBInit => KBInv
<1> SUFFICES ASSUME KBInit PROVE KBInv
  OBVIOUS
<1>1. Hosts /\ Documents /\ Listed /\ InTurn /\ Twice
  BY DEF KBInit, Hosts, Documents, Listed, InTurn, Twice
<1>2. Searches /\ ShownOnceBestFirst
  <2>1. <<>> \in Seq({})
    OBVIOUS
  <2> QED BY <2>1 DEF KBInit, Searches, ShownOnceBestFirst, NoSearch
<1>3. IsFiniteSet(coll)
  BY FS_EmptySet DEF KBInit
<1> QED BY <1>1, <1>2, <1>3 DEF KBInv, Indexing

\* A step of one start that leaves the collection as it is.
LEMMA Moves ==
  ASSUME Indexing, NEW b \in Starts, NEW r, host' = [host EXCEPT ![b] = r], Busy(b),
         UNCHANGED <<coll, removed>>, Begun(r), r.beside = host[b].beside,
         host[b].existing \subseteq r.existing, r.todo \subseteq host[b].todo,
         \A n \in r.existing \ host[b].existing : \E f \in Files : FileName[f] = n /\ Chunks[f] = 0,
         \A f \in host[b].todo \ r.todo : FileName[f] \in r.existing
  PROVE  Indexing'
<1>1. /\ DOMAIN host' = Starts /\ host' = [a \in Starts |-> host'[a]]
      /\ host'[b] = r /\ \A a \in Starts : a # b => host'[a] = host[a]
  BY DEF Indexing, Hosts
<1>2. host[b].st \in {"next", "embed"} /\ r.st # "off"
  BY DEF Busy, Begun
<1> HIDE DEF Begun
<1>3. Hosts'
  <2>1. \A a \in Starts : host'[a] = [st |-> "off"] \/ Begun(host'[a])
    BY <1>1 DEF Indexing, Hosts
  <2> QED BY <1>1, <2>1 DEF Indexing, Hosts
<1>4. ASSUME NEW a \in Starts
      PROVE  /\ host'[a].st # "off" <=> host[a].st # "off"
             /\ host'[a].beside = host[a].beside /\ host[a].existing \subseteq host'[a].existing
             /\ host'[a].todo \subseteq host[a].todo
  BY <1>1, <1>2
<1>5. Documents'
  <2> SUFFICES ASSUME NEW c \in coll
               PROVE  /\ c[1] \in Starts \X Files
                      /\ host'[c[1][1]].st # "off" /\ c[1][2] \notin host'[c[1][1]].todo
                      /\ FileName[c[1][2]] \in host'[c[1][1]].existing
                      /\ Entries({c[1]}) = {c[1]} \X (1 .. Chunks[c[1][2]])
    BY DEF Documents, Entries
  <2>1. /\ c[1] \in Starts \X Files
        /\ host[c[1][1]].st # "off" /\ c[1][2] \notin host[c[1][1]].todo
        /\ FileName[c[1][2]] \in host[c[1][1]].existing
        /\ Entries({c[1]}) = {c[1]} \X (1 .. Chunks[c[1][2]])
    BY DEF Indexing, Documents
  <2>2. c[1][1] \in Starts
    BY <2>1
  <2> QED BY <1>4, <2>1, <2>2
<1>6. Listed'
  <2> SUFFICES ASSUME removed = 0, NEW a \in Starts, host'[a].st # "off"
               PROVE  /\ \A n \in host'[a].existing : Accounted(n)
                      /\ \A f \in Files \ host'[a].todo : Accounted(FileName[f])
    BY DEF Listed, Accounted, Indexed, DocIds
  <2>1. /\ \A n \in host[a].existing : Accounted(n)
        /\ \A f \in Files \ host[a].todo : Accounted(FileName[f])
    BY <1>4 DEF Indexing, Listed
  <2>2. \A n \in host'[a].existing : Accounted(n)
    BY <1>1, <2>1 DEF Accounted
  <2>3. \A f \in Files \ host'[a].todo : Accounted(FileName[f])
    BY <1>1, <2>1, <2>2
  <2> QED BY <2>2, <2>3
<1>7. InTurn'
  <2> SUFFICES ASSUME NEW a \in Starts, NEW e \in Starts, a # e, host'[a].st # "off", host'[e].st # "off"
               PROVE  \/ a \in host'[e].beside \/ e \in host'[a].beside
                      \/ Precedes(a, e)' \/ Precedes(e, a)'
    BY DEF InTurn
  <2>1. \/ a \in host[e].beside \/ e \in host[a].beside
        \/ Precedes(a, e) \/ Precedes(e, a)
    BY <1>4 DEF Indexing, InTurn
  <2>2. \A x, y \in Starts : Precedes(x, y) => Precedes(x, y)'
    <3> SUFFICES ASSUME NEW x \in Starts, NEW y \in Starts, Precedes(x, y) PROVE Precedes(x, y)'
      OBVIOUS
    <3>1. x # b
      BY DEF Precedes
    <3>2. ~Busy(x)'
      BY <1>1, <3>1 DEF Precedes, Busy
    <3>3. \A c \in coll : c[1][1] = x => FileName[c[1][2]] \in host'[y].existing
      BY <1>4 DEF Precedes
    <3> QED BY <3>2, <3>3 DEF Precedes
  <2> QED BY <1>4, <2>1, <2>2
<1>8. Twice'
  <2>1. \A c \in coll : c[1][1] \in Starts
    BY DEF Indexing, Documents
  <2> QED BY <1>4, <2>1 DEF Indexing, Twice
<1> QED BY <1>3, <1>5, <1>6, <1>7, <1>8 DEF Indexing

LEMMA IngestStep == ASSUME Indexing, NEW b \in Starts, Ingest(b) PROVE Indexing'
<1> DEFINE r == [st |-> "next", todo |-> Files, existing |-> Indexed, handle |-> dropped,
                 file |-> NoFile, embedded |-> 0, beside |-> {a \in Starts : Busy(a)}]
<1>1. host' = [host EXCEPT ![b] = r] /\ UNCHANGED <<coll, removed>> /\ host[b].st = "off"
  BY DEF Ingest
<1>2. /\ Begun(r) /\ r.beside = {a \in Starts : Busy(a)} /\ r.todo = Files
      /\ r.existing = Indexed /\ r.st = "next"
  BY DEF Begun, Shape
<1> HIDE DEF r
<1>3. /\ DOMAIN host' = Starts /\ host' = [a \in Starts |-> host'[a]]
      /\ host'[b] = r /\ \A a \in Starts : a # b => host'[a] = host[a]
  BY <1>1 DEF Indexing, Hosts
<1>4. Hosts'
  <2>1. \A a \in Starts : host'[a] = [st |-> "off"] \/ Begun(host'[a])
    BY <1>2, <1>3 DEF Indexing, Hosts
  <2> QED BY <1>1, <1>3, <2>1 DEF Indexing, Hosts
<1>5. ASSUME NEW c \in coll
      PROVE  /\ c[1] \in Starts \X Files /\ c[1][1] \in Starts /\ c[1][1] # b
             /\ host'[c[1][1]] = host[c[1][1]]
  <2>1. c[1] \in Starts \X Files /\ host[c[1][1]].st # "off"
    BY DEF Indexing, Documents
  <2>2. c[1][1] \in Starts
    BY <2>1
  <2> QED BY <1>1, <1>3, <2>1, <2>2
<1>6. Documents' /\ Twice'
  BY <1>1, <1>5 DEF Indexing, Documents, Entries, Twice
<1>7. Listed'
  <2> SUFFICES ASSUME removed = 0, NEW a \in Starts, host'[a].st # "off"
               PROVE  /\ \A n \in host'[a].existing : Accounted(n)
                      /\ \A f \in Files \ host'[a].todo : Accounted(FileName[f])
    BY <1>1 DEF Listed, Accounted, Indexed, DocIds
  <2>1. CASE a = b
    BY <1>2, <1>3, <2>1 DEF Accounted
  <2>2. CASE a # b
    BY <1>3, <2>2 DEF Indexing, Listed
  <2> QED BY <2>1, <2>2
<1>8. InTurn'
  <2>1. ASSUME NEW a \in Starts, a # b, host'[a].st # "off"
        PROVE  a \in host'[b].beside \/ Precedes(a, b)'
    <3>1. CASE Busy(a)
      BY <1>2, <1>3, <3>1
    <3>2. CASE ~Busy(a)
      <4>1. ~Busy(a)'
        BY <1>3, <2>1, <3>2 DEF Busy
      <4>2. \A c \in coll : FileName[c[1][2]] \in host'[b].existing
        BY <1>2, <1>3 DEF Indexed, DocIds
      <4> QED BY <1>1, <4>1, <4>2 DEF Precedes
    <3> QED BY <3>1, <3>2
  <2>2. ASSUME NEW a \in Starts, NEW e \in Starts, a # e, a # b, e # b, host[a].st # "off", host[e].st # "off"
        PROVE  \/ a \in host'[e].beside \/ e \in host'[a].beside
               \/ Precedes(a, e)' \/ Precedes(e, a)'
    BY <1>1, <1>3, <2>2 DEF Indexing, InTurn, Precedes, Busy
  <2> QED BY <1>3, <2>1, <2>2 DEF InTurn
<1> QED BY <1>4, <1>6, <1>7, <1>8 DEF Indexing

LEMMA AddDocumentStep == ASSUME Indexing, NEW b \in Starts, AddDocument(b) PROVE Indexing'
<1>0. PICK f : f = host[b].file
  OBVIOUS
<1> DEFINE d == <<b, f>>
           r == Known(b, f)
           new == {<<<<b, f>>, i>> : i \in 1 .. Chunks[f]}
<1>1. /\ host' = [host EXCEPT ![b] = r] /\ coll' = coll \cup new /\ UNCHANGED removed
      /\ host[b].st = "embed"
  BY <1>0 DEF AddDocument
<1>2. /\ Begun(host[b]) /\ f \in host[b].todo /\ f \in Files /\ Chunks[f] > 0 /\ Chunks[f] \in Nat
      /\ FileName[f] \notin host[b].existing
  BY <1>0, <1>1, KnowledgeAssumption DEF Indexing, Hosts, Begun
<1>3. /\ Begun(r) /\ r.st = "next" /\ r.todo = host[b].todo \ {f} /\ r.beside = host[b].beside
      /\ r.existing = host[b].existing \cup {FileName[f]}
  <2> DEFINE h == host[b]
             q == [h EXCEPT !.st = "next", !.todo = @ \ {f}, !.file = NoFile, !.embedded = 0]
             s == [q EXCEPT !.existing = @ \cup {FileName[f]}]
  <2>1. DOMAIN h = Shape /\ h.todo \subseteq Files
    BY <1>2 DEF Begun
  <2>2. r = s
    BY DEF Known, Onward
  <2> HIDE DEF h, r
  <2>3. /\ DOMAIN q = Shape /\ q = [x \in Shape |-> q[x]] /\ q.st = "next" /\ q.todo = h.todo \ {f} /\ q.beside = h.beside
        /\ q.existing = h.existing
    BY <2>1 DEF Shape
  <2> HIDE DEF q
  <2>4. /\ DOMAIN s = Shape /\ s = [x \in Shape |-> s[x]] /\ s.st = "next" /\ s.todo = h.todo \ {f} /\ s.beside = h.beside
        /\ s.existing = h.existing \cup {FileName[f]}
    BY <2>3 DEF Shape
  <2> HIDE DEF s
  <2> QED BY <2>1, <2>2, <2>4 DEF Begun, h
<1> HIDE DEF r
<1>4. /\ DOMAIN host' = Starts /\ host' = [a \in Starts |-> host'[a]]
      /\ host'[b] = r /\ \A a \in Starts : a # b => host'[a] = host[a]
  BY <1>1 DEF Indexing, Hosts
<1>5. Hosts'
  <2>1. \A a \in Starts : host'[a] = [st |-> "off"] \/ Begun(host'[a])
    BY <1>3, <1>4 DEF Indexing, Hosts
  <2> QED BY <1>1, <1>4, <2>1 DEF Indexing, Hosts
<1>6. ASSUME NEW a \in Starts
      PROVE  /\ host'[a].st # "off" <=> host[a].st # "off"
             /\ host'[a].beside = host[a].beside /\ host[a].existing \subseteq host'[a].existing
             /\ host'[a].todo \subseteq host[a].todo
  BY <1>1, <1>3, <1>4
<1>7. \A c \in new : c[1] = d /\ c[1][1] = b /\ c[1][2] = f
  OBVIOUS
<1>8. ASSUME NEW c \in coll
      PROVE  /\ c[1] \in Starts \X Files /\ c[1][1] \in Starts /\ c[1] # d
             /\ host[c[1][1]].st # "off" /\ c[1][2] \notin host[c[1][1]].todo
             /\ FileName[c[1][2]] \in host[c[1][1]].existing
             /\ Entries({c[1]}) = {c[1]} \X (1 .. Chunks[c[1][2]])
  <2>1. /\ c[1] \in Starts \X Files
        /\ host[c[1][1]].st # "off" /\ c[1][2] \notin host[c[1][1]].todo
        /\ FileName[c[1][2]] \in host[c[1][1]].existing
        /\ Entries({c[1]}) = {c[1]} \X (1 .. Chunks[c[1][2]])
    BY DEF Indexing, Documents
  <2>2. c[1][1] \in Starts
    BY <2>1
  <2>3. c[1] # d
    BY <1>2, <2>1
  <2> QED BY <2>1, <2>2, <2>3
<1>9. Documents'
  <2>1. ASSUME NEW c \in coll
        PROVE  /\ host'[c[1][1]].st # "off" /\ c[1][2] \notin host'[c[1][1]].todo
               /\ FileName[c[1][2]] \in host'[c[1][1]].existing
               /\ {x \in coll' : x[1] \in {c[1]}} = {c[1]} \X (1 .. Chunks[c[1][2]])
    <3>1. {x \in coll' : x[1] \in {c[1]}} = {x \in coll : x[1] \in {c[1]}}
      BY <1>1, <1>7, <1>8
    <3> QED BY <1>6, <1>8, <3>1 DEF Entries
  <2>2. ASSUME NEW c \in new
        PROVE  /\ c[1] \in Starts \X Files
               /\ host'[c[1][1]].st # "off" /\ c[1][2] \notin host'[c[1][1]].todo
               /\ FileName[c[1][2]] \in host'[c[1][1]].existing
               /\ {x \in coll' : x[1] \in {c[1]}} = {c[1]} \X (1 .. Chunks[c[1][2]])
    <3>1. {x \in coll' : x[1] \in {d}} = new
      BY <1>1, <1>7, <1>8
    <3>2. new = {d} \X (1 .. Chunks[f])
      OBVIOUS
    <3> QED BY <1>2, <1>3, <1>4, <1>7, <3>1, <3>2
  <2> QED BY <1>1, <1>8, <2>1, <2>2 DEF Documents, Entries
<1>10. FileName[f] \in Indexed'
  <2>1. <<d, 1>> \in coll'
    BY <1>1, <1>2
  <2>2. d \in DocIds'
    BY <2>1 DEF DocIds
  <2> QED BY <2>2 DEF Indexed
<1>11. Listed'
  <2>1. \A n : Accounted(n) => Accounted(n)'
    BY <1>1 DEF Accounted, Indexed, DocIds
  <2>2. Accounted(FileName[f])'
    BY <1>10 DEF Accounted
  <2> SUFFICES ASSUME removed = 0, NEW a \in Starts, host'[a].st # "off"
               PROVE  /\ \A n \in host'[a].existing : Accounted(n)'
                      /\ \A g \in Files \ host'[a].todo : Accounted(FileName[g])'
    BY <1>1 DEF Listed
  <2>3. /\ \A n \in host[a].existing : Accounted(n)
        /\ \A g \in Files \ host[a].todo : Accounted(FileName[g])
    BY <1>6 DEF Indexing, Listed
  <2>4. CASE a = b
    BY <1>3, <1>4, <2>1, <2>2, <2>3, <2>4
  <2>5. CASE a # b
    BY <1>4, <2>1, <2>3, <2>5
  <2> QED BY <2>4, <2>5
<1>12. Busy(b)
  BY <1>1 DEF Busy
<1>13. InTurn'
  <2> SUFFICES ASSUME NEW a \in Starts, NEW e \in Starts, a # e, host'[a].st # "off", host'[e].st # "off"
               PROVE  \/ a \in host'[e].beside \/ e \in host'[a].beside
                      \/ Precedes(a, e)' \/ Precedes(e, a)'
    BY DEF InTurn
  <2>1. \/ a \in host[e].beside \/ e \in host[a].beside
        \/ Precedes(a, e) \/ Precedes(e, a)
    BY <1>6 DEF Indexing, InTurn
  <2>2. ASSUME NEW x \in Starts, NEW y \in Starts, Precedes(x, y) PROVE Precedes(x, y)'
    <3>1. x # b
      BY <1>12, <2>2 DEF Precedes
    <3>2. ~Busy(x)'
      BY <1>4, <2>2, <3>1 DEF Precedes, Busy
    <3>3. \A c \in coll' : c[1][1] = x => FileName[c[1][2]] \in host'[y].existing
      BY <1>1, <1>6, <1>7, <2>2, <3>1 DEF Precedes
    <3> QED BY <3>2, <3>3 DEF Precedes
  <2> QED BY <1>6, <2>1, <2>2
<1>14. Twice'
  <2>1. ASSUME NEW c \in coll, FileName[c[1][2]] = FileName[f]
        PROVE  c[1][1] \in host'[b].beside \/ b \in host'[c[1][1]].beside
    <3> DEFINE a == c[1][1]
    <3>1. a \in Starts /\ a # b /\ host[a].st # "off" /\ FileName[f] \in host[a].existing
      BY <1>2, <1>8, <2>1
    <3>2. host[b].st # "off"
      BY <1>1
    <3>3. a \in host[b].beside \/ b \in host[a].beside \/ Precedes(a, b) \/ Precedes(b, a)
      BY <3>1, <3>2 DEF Indexing, InTurn
    <3>4. ~Precedes(b, a)
      BY <1>12 DEF Precedes
    <3>5. ~Precedes(a, b)
      BY <1>2, <2>1 DEF Precedes
    <3> QED BY <1>6, <3>1, <3>3, <3>4, <3>5
  <2>2. ASSUME NEW c \in coll, NEW e \in coll, c[1] # e[1], FileName[c[1][2]] = FileName[e[1][2]]
        PROVE  c[1][1] \in host'[e[1][1]].beside \/ e[1][1] \in host'[c[1][1]].beside
    BY <1>6, <1>8, <2>2 DEF Indexing, Twice
  <2> QED BY <1>1, <1>7, <2>1, <2>2 DEF Twice
<1> QED BY <1>5, <1>9, <1>11, <1>13, <1>14 DEF Indexing
LEMMA FileSteps ==
  ASSUME Indexing, NEW b \in Starts, SkipFile(b) \/ LoadFile(b)
  PROVE  Indexing'
<1>1. host[b].st = "next" /\ Begun(host[b]) /\ Busy(b) /\ UNCHANGED <<coll, removed>>
  <2>1. host[b].st = "next" /\ UNCHANGED <<coll, removed>>
    BY DEF SkipFile, LoadFile
  <2> QED BY <2>1 DEF Indexing, Hosts, Busy
<1>2. PICK h : h = host[b]
  OBVIOUS
<1>3. DOMAIN h = Shape /\ h.todo \subseteq Files
  BY <1>1, <1>2 DEF Begun
<1>4. ASSUME NEW f \in h.todo, FileName[f] \in h.existing, host' = [host EXCEPT ![b] = Onward(b, f)]
      PROVE  Indexing'
  <2>1. PICK r : r = [h EXCEPT !.st = "next", !.todo = @ \ {f}, !.file = NoFile, !.embedded = 0]
    OBVIOUS
  <2>2. /\ DOMAIN r = Shape /\ r = [x \in Shape |-> r[x]] /\ r.st = "next" /\ r.todo = h.todo \ {f}
        /\ r.beside = h.beside /\ r.existing = h.existing
    BY <1>3, <2>1 DEF Shape
  <2>3. Begun(r)
    BY <1>3, <2>2 DEF Begun
  <2>4. host' = [host EXCEPT ![b] = r]
    BY <1>2, <1>4, <2>1 DEF Onward
  <2> QED BY <1>1, <1>2, <1>4, <2>2, <2>3, <2>4, Moves
<1>5. ASSUME NEW f \in h.todo, Chunks[f] = 0, host' = [host EXCEPT ![b] = Known(b, f)]
      PROVE  Indexing'
  <2>1. PICK q : q = [h EXCEPT !.st = "next", !.todo = @ \ {f}, !.file = NoFile, !.embedded = 0]
    OBVIOUS
  <2>2. /\ DOMAIN q = Shape /\ q.st = "next" /\ q.todo = h.todo \ {f}
        /\ q.beside = h.beside /\ q.existing = h.existing
    BY <1>3, <2>1 DEF Shape
  <2>3. PICK r : r = [q EXCEPT !.existing = @ \cup {FileName[f]}]
    OBVIOUS
  <2>4. /\ DOMAIN r = Shape /\ r = [x \in Shape |-> r[x]] /\ r.st = "next" /\ r.todo = h.todo \ {f}
        /\ r.beside = h.beside /\ r.existing = h.existing \cup {FileName[f]}
    BY <2>2, <2>3 DEF Shape
  <2>5. Begun(r)
    BY <1>3, <2>4 DEF Begun
  <2>6. host' = [host EXCEPT ![b] = r]
    BY <1>2, <1>5, <2>1, <2>3 DEF Known, Onward
  <2>7. f \in Files
    BY <1>3
  <2> QED BY <1>1, <1>2, <1>5, <2>4, <2>5, <2>6, <2>7, Moves
<1>6. ASSUME NEW f \in h.todo, FileName[f] \notin h.existing, Chunks[f] # 0,
             host' = [host EXCEPT ![b] = [@ EXCEPT !.st = "embed", !.file = f]]
      PROVE  Indexing'
  <2>1. PICK r : r = [h EXCEPT !.st = "embed", !.file = f]
    OBVIOUS
  <2>2. /\ DOMAIN r = Shape /\ r = [x \in Shape |-> r[x]] /\ r.st = "embed" /\ r.todo = h.todo
        /\ r.file = f /\ r.beside = h.beside /\ r.existing = h.existing
    BY <1>3, <2>1 DEF Shape
  <2>3. Begun(r)
    <3>1. Chunks[f] > 0
      BY <1>3, <1>6, KnowledgeAssumption
    <3> QED BY <1>3, <1>6, <2>2, <3>1 DEF Begun
  <2>4. host' = [host EXCEPT ![b] = r]
    BY <1>2, <1>6, <2>1
  <2> QED BY <1>1, <1>2, <2>2, <2>3, <2>4, Moves
<1>7. CASE SkipFile(b)
  BY <1>2, <1>4, <1>7 DEF SkipFile
<1>8. CASE LoadFile(b)
  <2>1. PICK f \in host[b].todo :
          /\ FileName[f] \notin host[b].existing
          /\ host' = [host EXCEPT ![b] = IF Chunks[f] = 0 THEN Known(b, f)
                                         ELSE [@ EXCEPT !.st = "embed", !.file = f]]
    BY <1>8 DEF LoadFile
  <2>2. CASE Chunks[f] = 0
    BY <1>2, <1>5, <2>1, <2>2
  <2>3. CASE Chunks[f] # 0
    BY <1>2, <1>6, <2>1, <2>3
  <2> QED BY <2>2, <2>3
<1> QED BY <1>7, <1>8

LEMMA OtherHostSteps ==
  ASSUME Indexing, NEW b \in Starts, EmbedBatch(b) \/ IngestFails(b) \/ IngestEnds(b)
  PROVE  Indexing'
<1>1. Begun(host[b]) /\ Busy(b) /\ UNCHANGED <<coll, removed>>
  BY DEF EmbedBatch, IngestFails, IngestEnds, Indexing, Hosts, Busy
<1>2. PICK h : h = host[b]
  OBVIOUS
<1>3. DOMAIN h = Shape
  BY <1>1, <1>2 DEF Begun
<1>4. CASE EmbedBatch(b)
  <2>1. PICK r : r = [h EXCEPT !.embedded = @ + Batch]
    OBVIOUS
  <2>2. /\ DOMAIN r = Shape /\ r = [x \in Shape |-> r[x]] /\ r.st = h.st /\ r.todo = h.todo
        /\ r.file = h.file /\ r.beside = h.beside /\ r.existing = h.existing
    BY <1>3, <2>1 DEF Shape
  <2>3. host' = [host EXCEPT ![b] = r]
    BY <1>2, <1>4, <2>1 DEF EmbedBatch
  <2> QED BY <1>1, <1>2, <2>2, <2>3, Moves DEF Begun
<1>5. ASSUME NEW st \in {"failed", "done"}, host' = [host EXCEPT ![b].st = st], st = "done" => h.todo = {}
      PROVE  Indexing'
  <2>1. PICK r : r = [h EXCEPT !.st = st]
    OBVIOUS
  <2>2. /\ DOMAIN r = Shape /\ r = [x \in Shape |-> r[x]] /\ r.st = st /\ r.todo = h.todo
        /\ r.beside = h.beside /\ r.existing = h.existing
    BY <1>3, <2>1 DEF Shape
  <2>3. host' = [host EXCEPT ![b] = r]
    BY <1>2, <1>5, <2>1
  <2> QED BY <1>1, <1>2, <1>5, <2>2, <2>3, Moves DEF Begun
<1>6. CASE IngestFails(b)
  BY <1>5, <1>6 DEF IngestFails
<1>7. CASE IngestEnds(b)
  BY <1>2, <1>5, <1>7 DEF IngestEnds
<1> QED BY <1>4, <1>6, <1>7

\* What is removed is removed with all its chunks.
LEMMA RemovalSteps ==
  ASSUME Indexing, DeleteDocument \/ ClearBase
  PROVE  Indexing'
<1>1. removed' = removed + 1 /\ host' = host
  BY DEF DeleteDocument, ClearBase
<1>2. Hosts' /\ Listed'
  BY <1>1 DEF Indexing, Hosts, Begun, Listed
<1>3. PICK gone : coll' = {c \in coll : c[1] \notin gone}
  <2>1. CASE DeleteDocument
    <3>1. PICK d \in DocIds : coll' = coll \ Entries({d})
      BY <2>1 DEF DeleteDocument
    <3>2. coll' = {c \in coll : c[1] \notin {d}}
      BY <3>1 DEF Entries
    <3> QED BY <3>2
  <2>2. CASE ClearBase
    <3>1. coll' = {c \in coll : c[1] \notin DocIds}
      BY <2>2 DEF ClearBase, DocIds
    <3> QED BY <3>1
  <2> QED BY <2>1, <2>2
<1>4. Documents'
  <2> SUFFICES ASSUME NEW c \in coll'
               PROVE  /\ c[1] \in Starts \X Files
                      /\ host[c[1][1]].st # "off" /\ c[1][2] \notin host[c[1][1]].todo
                      /\ FileName[c[1][2]] \in host[c[1][1]].existing
                      /\ {x \in coll' : x[1] \in {c[1]}} = {c[1]} \X (1 .. Chunks[c[1][2]])
    BY <1>1 DEF Documents, Entries
  <2>1. {x \in coll' : x[1] \in {c[1]}} = {x \in coll : x[1] \in {c[1]}}
    BY <1>3
  <2> QED BY <1>3, <2>1 DEF Indexing, Documents, Entries
<1>5. InTurn' /\ Twice'
  BY <1>1, <1>3 DEF Indexing, InTurn, Precedes, Busy, Twice
<1> QED BY <1>2, <1>4, <1>5 DEF Indexing

----------------------------------------------------------------------------
\* The merged hits are at most TopHits, of different chunks, and no later one is better.
LEMMA Merged ==
  ASSUME NEW found, NEW S, found \in Seq(S), NEW kept \in Deduplicated(found)
  PROVE  /\ \E T : kept \in Seq(T)
         /\ Len(kept) <= TopHits
         /\ \A i, j \in DOMAIN kept : i < j => kept[i].id # kept[j].id /\ ~Better(kept[j], kept[i])
<1> DEFINE firsts == Firsts(found)
           n == IF Cardinality(firsts) < TopHits THEN Cardinality(firsts) ELSE TopHits
<1>1. PICK p \in [1 .. n -> firsts] :
        /\ \A i, j \in 1 .. n : i < j => p[i] # p[j] /\ Ahead(found, p[i], p[j])
        /\ kept = [i \in 1 .. n |-> found[p[i]]]
  BY DEF Deduplicated
<1>2. DOMAIN found = 1 .. Len(found) /\ Len(found) \in Nat
  BY LenProperties
<1>3. firsts \subseteq 1 .. Len(found)
  BY <1>2 DEF Firsts
<1>4. n \in Nat /\ n <= TopHits
  <2>1. IsFiniteSet(firsts)
    <3>1. PICK m : m = Len(found)
      OBVIOUS
    <3>2. IsFiniteSet(1 .. m)
      BY <1>2, <3>1, FS_Interval
    <3> QED BY <1>3, <3>1, <3>2, FS_Subset
  <2>2. Cardinality(firsts) \in Nat /\ TopHits \in Nat
    BY <2>1, FS_CardinalityType, KnowledgeAssumption
  <2> QED BY <2>2
<1> HIDE DEF n
<1>5. kept \in [1 .. n -> Range(kept)] /\ DOMAIN kept = 1 .. n
  BY <1>1 DEF Range
<1>6. kept \in Seq(Range(kept)) /\ Len(kept) = n
  BY <1>4, <1>5, SeqDef, LenProperties
<1>7. ASSUME NEW i \in 1 .. n, NEW j \in 1 .. n, i < j
      PROVE  kept[i].id # kept[j].id /\ ~Better(kept[j], kept[i])
  <2>1. /\ p[i] \in firsts /\ p[j] \in firsts /\ p[i] # p[j] /\ p[i] \in Nat /\ p[j] \in Nat
        /\ p[i] \in 1 .. Len(found) /\ p[j] \in 1 .. Len(found)
    BY <1>1, <1>2, <1>3, <1>7
  <2>2. found[p[i]].id # found[p[j]].id
    <3>1. CASE p[i] < p[j]
      <4>1. p[i] \in 1 .. (p[j] - 1)
        BY <2>1, <3>1
      <4> QED BY <2>1, <4>1 DEF Firsts
    <3>2. CASE p[j] < p[i]
      <4>1. p[j] \in 1 .. (p[i] - 1)
        BY <2>1, <3>2
      <4> QED BY <2>1, <4>1 DEF Firsts
    <3> QED BY <2>1, <3>1, <3>2
  <2>3. ~Better(found[p[j]], found[p[i]])
    BY <1>1, <1>7 DEF Ahead
  <2> QED BY <1>1, <2>2, <2>3
<1> QED BY <1>4, <1>5, <1>6, <1>7

\* So are the hits of one query.
LEMMA NearestOnes ==
  ASSUME IsFiniteSet(coll), NEW q, NEW hits \in Nearest(q)
  PROVE  /\ \E T : hits \in Seq(T)
         /\ Len(hits) <= TopHits
         /\ \A i, j \in DOMAIN hits : i < j => hits[i].id # hits[j].id /\ ~Better(hits[j], hits[i])
<1> DEFINE n == IF Cardinality(coll) < TopHits THEN Cardinality(coll) ELSE TopHits
<1>1. n \in Nat /\ n <= TopHits
  BY FS_CardinalityType, KnowledgeAssumption
<1>2. PICK s \in [1 .. n -> coll] :
        /\ \A i, j \in 1 .. n : i < j => s[i] # s[j] /\ ~Better(Hit(q, s[j]), Hit(q, s[i]))
        /\ hits = [i \in 1 .. n |-> Hit(q, s[i])]
  BY DEF Nearest
<1> HIDE DEF n
<1>3. hits \in [1 .. n -> {hits[i] : i \in 1 .. n}] /\ DOMAIN hits = 1 .. n
  BY <1>2
<1>4. hits \in Seq({hits[i] : i \in 1 .. n}) /\ Len(hits) = n
  BY <1>1, <1>3, SeqDef, LenProperties
<1>5. ASSUME NEW i \in 1 .. n, NEW j \in 1 .. n, i < j
      PROVE  hits[i].id # hits[j].id /\ ~Better(hits[j], hits[i])
  <2>1. hits[i] = Hit(q, s[i]) /\ hits[j] = Hit(q, s[j])
    BY <1>2
  <2>2. hits[i].id = s[i] /\ hits[j].id = s[j]
    BY <2>1 DEF Hit
  <2> QED BY <1>2, <1>5, <2>1, <2>2
<1> QED BY <1>1, <1>3, <1>4, <1>5

LEMMA SearchSteps ==
  ASSUME KBInv, Optimize \/ VectorSearch \/ SearchFails
  PROVE  Searches' /\ ShownOnceBestFirst'
<1>1. CASE Optimize
  <2>1. PICK lines \in Lines, merge \in BOOLEAN :
          search' = [NoSearch EXCEPT !.st = "ask", !.merge = merge,
                       !.queries = IF merge THEN Mqe(lines) ELSE Hyde(lines)]
    BY <1>1 DEF Optimize
  <2>2. PICK qs : qs = IF merge THEN Mqe(lines) ELSE Hyde(lines)
    OBVIOUS
  <2>3. ~merge => Len(qs) = 1
    BY <2>2 DEF Hyde
  <2>4. /\ DOMAIN search' = {"st", "queries", "merge", "found"} /\ search'.st = "ask"
        /\ search'.merge = merge /\ search'.queries = qs /\ search'.found = <<>>
    BY <2>1, <2>2 DEF NoSearch
  <2>5. <<>> \in Seq({})
    OBVIOUS
  <2> QED BY <2>3, <2>4, <2>5 DEF Searches, ShownOnceBestFirst
<1>2. CASE SearchFails
  <2>1. /\ DOMAIN search' = {"st", "queries", "merge", "found"} /\ search'.st = "failed"
        /\ search'.found = <<>>
    BY <1>2 DEF SearchFails, NoSearch
  <2>2. <<>> \in Seq({})
    OBVIOUS
  <2> QED BY <2>1, <2>2 DEF Searches, ShownOnceBestFirst
<1>3. CASE VectorSearch
  <2>1. PICK q : q = Head(search.queries)
    OBVIOUS
  <2>2. PICK last \in BOOLEAN : last <=> Len(search.queries) = 1
    OBVIOUS
  <2>3. PICK hits \in Nearest(q) :
          \E kept \in IF last /\ search.merge THEN Deduplicated(search.found \o hits) ELSE {search.found \o hits} :
            search' = [search EXCEPT !.queries = Tail(@), !.found = kept,
                         !.st = IF last THEN "shown" ELSE "ask"]
    BY <1>3, <2>1, <2>2 DEF VectorSearch
  <2>4. PICK found : found = search.found \o hits
    OBVIOUS
  <2>5. PICK kept \in IF last /\ search.merge THEN Deduplicated(found) ELSE {found} :
            search' = [search EXCEPT !.queries = Tail(@), !.found = kept,
                         !.st = IF last THEN "shown" ELSE "ask"]
    BY <2>3, <2>4
  <2>6. search.st = "ask" /\ DOMAIN search = {"st", "queries", "merge", "found"}
    BY <1>3 DEF VectorSearch, KBInv, Searches
  <2>7. /\ DOMAIN search' = {"st", "queries", "merge", "found"} /\ search'.found = kept
        /\ search'.merge = search.merge
        /\ search'.st = "shown" \/ search'.st = "ask"
        /\ search'.st = "ask" => ~last
        /\ search'.st = "shown" => last
    BY <2>5, <2>6
  <2>8. /\ \E T : hits \in Seq(T)
        /\ Len(hits) <= TopHits
        /\ \A i, j \in DOMAIN hits : i < j => hits[i].id # hits[j].id /\ ~Better(hits[j], hits[i])
    BY NearestOnes DEF KBInv
  <2>9. \E S : found \in Seq(S)
    <3>1. PICK S, T : search.found \in Seq(S) /\ hits \in Seq(T)
      BY <2>8 DEF KBInv, Searches
    <3>2. PICK f : f = search.found
      OBVIOUS
    <3>3. f \in Seq(S \cup T) /\ hits \in Seq(S \cup T)
      BY <3>1, <3>2
    <3>4. f \o hits \in Seq(S \cup T)
      BY <3>3, ConcatProperties
    <3> QED BY <2>4, <3>2, <3>4
  <2>10. CASE last /\ search.merge
    <3>1. /\ \E T : kept \in Seq(T)
          /\ Len(kept) <= TopHits
          /\ \A i, j \in DOMAIN kept : i < j => kept[i].id # kept[j].id /\ ~Better(kept[j], kept[i])
      BY <2>5, <2>9, <2>10, Merged
    <3> QED BY <2>7, <2>10, <3>1 DEF Searches, ShownOnceBestFirst
  <2>11. CASE ~search.merge
    <3>1. last /\ search.found = <<>>
      BY <2>2, <2>6, <2>11 DEF KBInv, Searches
    <3>2. found = hits
      <4>1. PICK T : hits \in Seq(T)
        BY <2>8
      <4> QED BY <2>4, <3>1, <4>1
    <3>3. kept = hits
      BY <2>5, <2>11, <3>2
    <3> QED BY <2>7, <2>8, <3>1, <3>3 DEF Searches, ShownOnceBestFirst
  <2>12. CASE ~last /\ search.merge
    <3>1. kept = found /\ search'.st = "ask"
      BY <2>5, <2>7, <2>12
    <3> QED BY <2>7, <2>9, <2>12, <3>1 DEF Searches, ShownOnceBestFirst
  <2> QED BY <2>10, <2>11, <2>12
<1> QED BY <1>1, <1>2, <1>3

LEMMA KBStep == KBInv /\ [KBNext]_kbVars => KBInv'
<1> SUFFICES ASSUME KBInv, [KBNext]_kbVars PROVE KBInv'
  OBVIOUS
<1>1. ASSUME UNCHANGED <<coll, removed, host>> PROVE Indexing' /\ IsFiniteSet(coll')
  BY <1>1 DEF KBInv, Indexing, Hosts, Begun, Documents, Entries, Listed, Accounted, Indexed, DocIds,
              InTurn, Precedes, Busy, Twice
<1>2. ASSUME UNCHANGED search PROVE Searches' /\ ShownOnceBestFirst'
  BY <1>2 DEF KBInv, Searches, ShownOnceBestFirst, Better
<1>3. ASSUME NEW b \in Starts, SkipFile(b) \/ LoadFile(b) \/ EmbedBatch(b) \/ IngestFails(b)
                               \/ IngestEnds(b) \/ Ingest(b)
      PROVE  KBInv'
  <2>1. UNCHANGED <<coll, search>>
    BY <1>3 DEF SkipFile, LoadFile, EmbedBatch, IngestFails, IngestEnds, Ingest
  <2>2. Indexing'
    BY <1>3, FileSteps, OtherHostSteps, IngestStep DEF KBInv
  <2> QED BY <1>2, <2>1, <2>2 DEF KBInv
<1>4. ASSUME NEW b \in Starts, AddDocument(b) PROVE KBInv'
  <2>1. UNCHANGED search
    BY <1>4 DEF AddDocument
  <2>2. IsFiniteSet(coll')
    <3>1. PICK f : f = host[b].file
      OBVIOUS
    <3>2. coll' = coll \cup {<<<<b, f>>, i>> : i \in 1 .. Chunks[f]} /\ f \in Files
      BY <1>4, <3>1 DEF AddDocument, KBInv, Indexing, Hosts, Begun
    <3>3. {<<<<b, f>>, i>> : i \in 1 .. Chunks[f]} = {<<b, f>>} \X (1 .. Chunks[f])
      OBVIOUS
    <3>4. IsFiniteSet(1 .. Chunks[f]) /\ IsFiniteSet({<<b, f>>})
      <4>1. PICK m \in Int : m = Chunks[f]
        BY <3>2, KnowledgeAssumption
      <4>2. IsFiniteSet(1 .. m)
        BY <4>1, FS_Interval
      <4>3. IsFiniteSet({<<b, f>>})
        BY FS_Singleton
      <4> QED BY <4>1, <4>2, <4>3
    <3>5. IsFiniteSet({<<b, f>>} \X (1 .. Chunks[f]))
      BY <3>4, FS_Product
    <3> QED BY <3>2, <3>3, <3>5, FS_Union DEF KBInv
  <2> QED BY <1>2, <1>4, <2>1, <2>2, AddDocumentStep DEF KBInv
<1>5. CASE DeleteDocument \/ ClearBase
  <2>1. UNCHANGED search /\ coll' \subseteq coll
    BY <1>5 DEF DeleteDocument, ClearBase
  <2>2. IsFiniteSet(coll')
    BY <2>1, FS_Subset DEF KBInv
  <2> QED BY <1>2, <1>5, <2>1, <2>2, RemovalSteps DEF KBInv
<1>6. CASE Optimize \/ VectorSearch \/ SearchFails
  <2>1. UNCHANGED <<coll, removed, host>>
    BY <1>6 DEF Optimize, VectorSearch, SearchFails
  <2> QED BY <1>1, <1>6, <2>1, SearchSteps DEF KBInv
<1>7. CASE UNCHANGED kbVars
  BY <1>1, <1>2, <1>7 DEF kbVars, KBInv
<1> QED BY <1>3, <1>4, <1>5, <1>6, <1>7 DEF KBNext

\* Whatever fails, dies or runs beside it, and whatever is removed meanwhile, what is in the
\* knowledge base is there whole, once unless two starts ran together, and is shown once
\* and the nearest first (ingest_rag_sources, add_document, search).
THEOREM RetrievalSoundCorrect == KBSpec => []RetrievalSound
<1>1. KBInv => RetrievalSound
  <2> SUFFICES ASSUME KBInv PROVE IndexedOnceAndWhole /\ ShownOnceBestFirst
    BY DEF RetrievalSound
  <2>1. \A d \in DocIds : Entries({d}) = {d} \X (1 .. Chunks[d[2]])
    BY DEF KBInv, Indexing, Documents, DocIds
  <2>2. ASSUME removed = 0, NEW b \in Starts, NEW f \in Files, host[b].st = "done"
        PROVE  Accounted(FileName[f])
    <3>1. host[b].todo = {}
      BY <2>2 DEF KBInv, Indexing, Hosts, Begun
    <3> QED BY <2>2, <3>1 DEF KBInv, Indexing, Listed
  <2>3. \A d, e \in DocIds :
          d # e /\ FileName[d[2]] = FileName[e[2]] =>
            d[1] \in host[e[1]].beside \/ e[1] \in host[d[1]].beside
    BY DEF KBInv, Indexing, Twice, DocIds
  <2> QED BY <2>1, <2>2, <2>3 DEF KBInv, IndexedOnceAndWhole
<1> QED BY KBStarts, KBStep, <1>1, PTL DEF KBSpec

-----------------------------------------------------------------------------
(* ChatHistory.                                                            *)

Marks == Nat \X {"reasoning", "content"}
Bubbles == [row : Nat, thoughts : Seq(Marks), tools : Seq(Nat)]

Increasing(s) == \A k, l \in DOMAIN s : k < l => s[k] < s[l]

\* What OwnSteps says of one bubble.
Own(b) == /\ Range(b.tools) = IF rows[b.row].role = "user" THEN {} ELSE Steps(b.row)
          /\ Increasing(b.tools)
          /\ \A t \in Range(b.thoughts) : t[1] \in Steps(b.row) \union {b.row}

\* What is pending are the steps since the last row that closed a run.
CHInv ==
  /\ rows \in Seq(Row) /\ at \in 0 .. Len(rows)
  /\ bubbles \in Seq(Bubbles) /\ tls \in Seq(Nat) /\ ths \in Seq(Marks)
  /\ Range(tls) = Steps(at + 1) /\ Increasing(tls)
  /\ \A t \in Range(ths) : t[1] \in Steps(at + 1)
  /\ OwnSteps

LEMMA OwnStepsIs ==
  OwnSteps <=> /\ {bubbles[b].row : b \in DOMAIN bubbles} = {i \in 1..at : Closes(i)}
               /\ \A b, c \in DOMAIN bubbles : b < c => bubbles[b].row < bubbles[c].row
               /\ \A b \in DOMAIN bubbles : Own(bubbles[b])
  BY DEF OwnSteps, Own, Increasing

LEMMA Appended ==
  ASSUME NEW S, NEW s \in Seq(S), NEW e \in S
  PROVE  /\ Append(s, e) \in Seq(S) /\ DOMAIN s = 1 .. Len(s) /\ Len(s) \in Nat
         /\ DOMAIN Append(s, e) = 1 .. Len(s) + 1
         /\ \A i \in 1 .. Len(s) : Append(s, e)[i] = s[i]
         /\ Append(s, e)[Len(s) + 1] = e
         /\ Range(Append(s, e)) = Range(s) \union {e}
<1> DEFINE v == Append(s, e)
<1>1. /\ v \in Seq(S) /\ Len(v) = Len(s) + 1
      /\ \A i \in 1 .. Len(s) : v[i] = s[i]
      /\ v[Len(s) + 1] = e
  BY AppendProperties
<1> HIDE DEF v
<1>2. DOMAIN s = 1 .. Len(s) /\ Len(s) \in Nat /\ DOMAIN v = 1 .. Len(s) + 1
  BY <1>1, LenProperties
<1>3. Range(v) = Range(s) \union {e}
  <2>1. Range(v) = {v[i] : i \in 1 .. Len(s) + 1} /\ Range(s) = {s[i] : i \in 1 .. Len(s)}
    BY <1>2 DEF Range
  <2>2. \A i \in 1 .. Len(s) + 1 : i \in 1 .. Len(s) \/ i = Len(s) + 1
    BY <1>2
  <2>3. Len(s) + 1 \in 1 .. Len(s) + 1 /\ \A i \in 1 .. Len(s) : i \in 1 .. Len(s) + 1
    BY <1>2
  <2> QED BY <1>1, <2>1, <2>2, <2>3
<1> QED BY <1>1, <1>2, <1>3 DEF v

LEMMA JoinedRange ==
  ASSUME NEW S, NEW s \in Seq(S), NEW t \in Seq(S)
  PROVE  s \o t \in Seq(S) /\ Range(s \o t) \subseteq Range(s) \union Range(t)
<1>1. PICK v : v = s \o t
  OBVIOUS
<1>2. /\ v \in Seq(S) /\ Len(v) = Len(s) + Len(t)
      /\ \A i \in 1 .. Len(s) : v[i] = s[i]
      /\ \A i \in Len(s) + 1 .. Len(s) + Len(t) : v[i] = t[i - Len(s)]
  BY <1>1, ConcatProperties
<1>3. /\ DOMAIN s = 1 .. Len(s) /\ DOMAIN t = 1 .. Len(t) /\ DOMAIN v = 1 .. Len(v)
      /\ Len(s) \in Nat /\ Len(t) \in Nat
  BY <1>2, LenProperties
<1>4. ASSUME NEW i \in DOMAIN v PROVE v[i] \in Range(s) \union Range(t)
  <2>1. CASE i \in 1 .. Len(s)
    BY <1>2, <1>3, <2>1 DEF Range
  <2>2. CASE i \in Len(s) + 1 .. Len(s) + Len(t)
    <3>1. i - Len(s) \in DOMAIN t /\ v[i] = t[i - Len(s)]
      BY <1>2, <1>3, <2>2
    <3> QED BY <3>1 DEF Range
  <2> QED BY <1>2, <1>3, <1>4, <2>1, <2>2
<1> QED BY <1>1, <1>2, <1>4 DEF Range

\* A row that closes a run leaves nothing pending; a step is pending from its row on.
LEMMA StepsNext ==
  ASSUME NEW i \in Nat \ {0}
  PROVE  Steps(i + 1) = IF Closes(i) THEN {}
                        ELSE IF rows[i].role \in {"tool", "calls"} THEN Steps(i) \union {i} ELSE Steps(i)
<1>1. ASSUME NEW j
      PROVE  j \in Steps(i + 1) <=> /\ j \in 1 .. i /\ rows[j].role \in {"tool", "calls"} /\ ~Closes(i)
                                    /\ j \in Steps(i) \/ j = i
  <2>1. (i + 1) - 1 = i /\ (j \in 1 .. i <=> j \in 1 .. (i - 1) \/ j = i)
    OBVIOUS
  <2>2. ASSUME j \in 1 .. i
        PROVE  (\A k \in j .. i : ~Closes(k)) <=> ~Closes(i) /\ \A k \in j .. (i - 1) : ~Closes(k)
    <3>1. j \in Nat /\ \A k : k \in j .. i <=> k \in j .. (i - 1) \/ k = i
      BY <2>2
    <3> QED BY <3>1
  <2>3. j = i => \A k \in j .. (i - 1) : FALSE
    OBVIOUS
  <2> QED BY <2>1, <2>2, <2>3 DEF Steps
<1>2. i \in 1 .. i /\ \A j \in Steps(i) : j \in 1 .. i /\ rows[j].role \in {"tool", "calls"}
  BY DEF Steps
<1>3. CASE Closes(i)
  <2>1. \A j : j \notin Steps(i + 1)
    BY <1>1, <1>3
  <2> QED BY <1>3, <2>1
<1>4. CASE ~Closes(i) /\ rows[i].role \in {"tool", "calls"}
  <2>1. \A j : j \in Steps(i + 1) <=> j \in Steps(i) \/ j = i
    BY <1>1, <1>2, <1>4
  <2> QED BY <1>4, <2>1
<1>5. CASE ~Closes(i) /\ rows[i].role \notin {"tool", "calls"}
  <2>1. \A j : j \in Steps(i + 1) <=> j \in Steps(i)
    BY <1>1, <1>2, <1>5
  <2> QED BY <1>5, <2>1
<1> QED BY <1>3, <1>4, <1>5

LEMMA ThoughtOf ==
  ASSUME NEW i \in Nat
  PROVE  Thought(i) \in Seq(Marks) /\ \A t \in Range(Thought(i)) : t[1] = i
<1>1. PICK a : a = IF rows[i].reasoning THEN <<<<i, "reasoning">>>> ELSE <<>>
  OBVIOUS
<1>2. PICK b : b = IF rows[i].role = "calls" /\ rows[i].content THEN <<<<i, "content">>>> ELSE <<>>
  OBVIOUS
<1>3. <<i, "reasoning">> \in Marks /\ <<i, "content">> \in Marks
  BY DEF Marks
<1>4. a \in Seq({m \in Marks : m[1] = i}) /\ b \in Seq({m \in Marks : m[1] = i})
  BY <1>1, <1>2, <1>3
<1>5. Thought(i) = a \o b
  BY <1>1, <1>2 DEF Thought
<1>6. PICK s : s = a \o b
  OBVIOUS
<1>7. s \in Seq({m \in Marks : m[1] = i})
  BY <1>4, <1>6, ConcatProperties
<1>8. \A k \in DOMAIN s : s[k] \in Marks /\ s[k][1] = i
  <2> TAKE k \in DOMAIN s
  <2>1. DOMAIN s = 1 .. Len(s)
    BY <1>7, LenProperties
  <2>2. s[k] \in {m \in Marks : m[1] = i}
    BY <1>7, <2>1, ElementOfSeq
  <2> QED BY <2>2
<1>9. s \in Seq(Marks)
  <2>1. s \in [1 .. Len(s) -> Marks] /\ Len(s) \in Nat
    BY <1>7, <1>8, LenProperties
  <2> QED BY <2>1, SeqDef
<1> QED BY <1>5, <1>6, <1>8, <1>9 DEF Range
LEMMA HistoryStarts == CHInit => CHInv
<1> SUFFICES ASSUME CHInit PROVE CHInv
  OBVIOUS
<1>1. at = 0 /\ bubbles = <<>> /\ ths = <<>> /\ tls = <<>>
  BY DEF CHInit
<1>2. rows \in Seq(Row) /\ Len(rows) \in Nat
  <2>1. PICK n \in 0 .. MaxRows : rows \in [1 .. n -> Row]
    BY DEF CHInit
  <2>2. n \in Nat
    BY ChatHistoryAssumption
  <2> QED BY <2>1, <2>2, SeqDef, LenProperties
<1>3. <<>> \in Seq(Bubbles) /\ <<>> \in Seq(Nat) /\ <<>> \in Seq(Marks) /\ DOMAIN <<>> = {}
  OBVIOUS
<1>4. Steps(at + 1) = {}
  BY <1>1 DEF Steps
<1>5. Range(tls) = {} /\ Range(ths) = {} /\ Increasing(tls)
  BY <1>1, <1>3 DEF Range, Increasing
<1>6. OwnSteps
  BY <1>1, <1>3, OwnStepsIs
<1>7. at \in 0 .. Len(rows)
  BY <1>1, <1>2
<1>8. Range(tls) = Steps(at + 1) /\ \A t \in Range(ths) : t[1] \in Steps(at + 1)
  BY <1>4, <1>5
<1>9. bubbles \in Seq(Bubbles) /\ tls \in Seq(Nat) /\ ths \in Seq(Marks)
  BY <1>1, <1>3
<1> QED BY <1>2, <1>5, <1>6, <1>7, <1>8, <1>9 DEF CHInv

\* A row that is no bubble.
LEMMA RowPassed ==
  ASSUME CHInv, NEW role \in Roles \ {"user", "final"}, Take(role), UNCHANGED bubbles,
         IF role \in {"tool", "calls"} THEN tls' = Append(tls, at + 1) ELSE UNCHANGED tls,
         \/ UNCHANGED ths
         \/ role = "calls" /\ ths' = ths \o Thought(at + 1)
  PROVE  CHInv'
<1>1. PICK i, s, h : i = at + 1 /\ s = tls /\ h = ths
  OBVIOUS
<1>2. /\ i \in Nat \ {0} /\ i \in 1 .. Len(rows) /\ at' = i /\ UNCHANGED <<rows, bubbles>> /\ at = i - 1
      /\ rows[i].role = role /\ rows \in Seq(Row) /\ Len(rows) \in Nat
  <2>1. rows \in Seq(Row) /\ Len(rows) \in Nat /\ at \in 0 .. Len(rows)
    BY LenProperties DEF CHInv
  <2>2. at < Len(rows) /\ rows[i].role = role /\ at' = i /\ UNCHANGED rows
    BY <1>1 DEF Take
  <2> QED BY <1>1, <2>1, <2>2
<1>3. \A j : Steps(j)' = Steps(j) /\ (Closes(j)' <=> Closes(j))
  BY <1>2 DEF Steps, Closes
<1>4. ~Closes(i)
  BY <1>2 DEF Closes, Roles
<1>5. Steps(i + 1) = IF role \in {"tool", "calls"} THEN Steps(i) \union {i} ELSE Steps(i)
  BY <1>2, <1>4, StepsNext
<1>6. s \in Seq(Nat) /\ h \in Seq(Marks) /\ Range(s) = Steps(i) /\ Increasing(s) /\ \A t \in Range(h) : t[1] \in Steps(i)
  BY <1>1 DEF CHInv
<1>7. tls' \in Seq(Nat) /\ Range(tls') = Steps(i + 1) /\ Increasing(tls')
  <2>1. CASE role \in {"tool", "calls"}
    <3>1. PICK v : v = Append(s, i)
      OBVIOUS
    <3>2. /\ v \in Seq(Nat) /\ DOMAIN s = 1 .. Len(s) /\ Len(s) \in Nat /\ DOMAIN v = 1 .. Len(s) + 1
          /\ (\A k \in 1 .. Len(s) : v[k] = s[k]) /\ v[Len(s) + 1] = i /\ Range(v) = Range(s) \union {i}
      BY <1>2, <1>6, <3>1, Appended
    <3>3. \A k \in DOMAIN s : s[k] \in Nat /\ s[k] < i
      <4> TAKE k \in DOMAIN s
      <4>1. s[k] \in Steps(i)
        BY <1>6 DEF Range
      <4> QED BY <1>2, <4>1 DEF Steps
    <3>4. Increasing(v)
      <4> SUFFICES ASSUME NEW k \in DOMAIN v, NEW l \in DOMAIN v, k < l PROVE v[k] < v[l]
        BY DEF Increasing
      <4>1. k \in 1 .. Len(s)
        BY <3>2
      <4>2. CASE l \in 1 .. Len(s)
        BY <1>6, <3>2, <4>1, <4>2 DEF Increasing
      <4>3. CASE l = Len(s) + 1
        BY <3>2, <3>3, <4>1, <4>3
      <4> QED BY <3>2, <4>2, <4>3
    <3> QED BY <1>1, <1>5, <1>6, <2>1, <3>1, <3>2, <3>4
  <2>2. CASE role \notin {"tool", "calls"}
    BY <1>1, <1>5, <1>6, <2>2
  <2> QED BY <2>1, <2>2
<1>8. ths' \in Seq(Marks) /\ \A t \in Range(ths') : t[1] \in Steps(i + 1)
  <2>1. CASE UNCHANGED ths
    BY <1>1, <1>5, <1>6, <2>1
  <2>2. CASE role = "calls" /\ ths' = ths \o Thought(at + 1)
    <3>1. PICK m : m = Thought(i)
      OBVIOUS
    <3>2. m \in Seq(Marks) /\ \A t \in Range(m) : t[1] = i
      BY <1>2, <3>1, ThoughtOf
    <3>3. h \o m \in Seq(Marks) /\ Range(h \o m) \subseteq Range(h) \union Range(m)
      BY <1>6, <3>2, JoinedRange
    <3>4. ths' = h \o m
      BY <1>1, <2>2, <3>1
    <3> QED BY <1>5, <1>6, <2>2, <3>2, <3>3, <3>4
  <2> QED BY <2>1, <2>2
<1>9. OwnSteps'
  <2>1. {j \in 1 .. i : Closes(j)} = {j \in 1 .. (i - 1) : Closes(j)}
    BY <1>2, <1>4
  <2>2. \A b : Own(b)' <=> Own(b)
    BY <1>2, <1>3 DEF Own
  <2>3. /\ {bubbles[b].row : b \in DOMAIN bubbles} = {j \in 1 .. i : Closes(j)}
        /\ \A b, c \in DOMAIN bubbles : b < c => bubbles[b].row < bubbles[c].row
        /\ \A b \in DOMAIN bubbles : Own(bubbles[b])
    BY <1>2, <2>1, OwnStepsIs DEF CHInv
  <2>4. {j \in 1 .. at' : Closes(j)'} = {j \in 1 .. i : Closes(j)}
    BY <1>2, <1>3
  <2>5. \A b \in DOMAIN bubbles : Own(bubbles[b])'
    BY <1>2, <2>2, <2>3
  <2> QED BY <1>2, <2>3, <2>4, <2>5 DEF OwnSteps, Own, Increasing
<1> QED BY <1>2, <1>3, <1>7, <1>8, <1>9 DEF CHInv

\* A row that is a bubble, and closes what was pending.
LEMMA RowShown ==
  ASSUME CHInv, NEW role \in {"user", "final"}, Take(role), Forget,
         NEW e \in Bubbles, bubbles' = Append(bubbles, e), e.row = at + 1, Own(e)
  PROVE  CHInv'
<1>1. PICK i, s : i = at + 1 /\ s = bubbles
  OBVIOUS
<1>2. /\ i \in Nat \ {0} /\ i \in 1 .. Len(rows) /\ at' = i /\ UNCHANGED rows /\ at = i - 1
      /\ rows[i].role = role /\ rows \in Seq(Row) /\ Len(rows) \in Nat /\ s \in Seq(Bubbles)
  <2>1. rows \in Seq(Row) /\ Len(rows) \in Nat /\ at \in 0 .. Len(rows) /\ bubbles \in Seq(Bubbles)
    BY LenProperties DEF CHInv
  <2>2. at < Len(rows) /\ rows[i].role = role /\ at' = i /\ UNCHANGED rows
    BY <1>1 DEF Take
  <2> QED BY <1>1, <2>1, <2>2
<1>3. \A j : Steps(j)' = Steps(j) /\ (Closes(j)' <=> Closes(j))
  BY <1>2 DEF Steps, Closes
<1>4. Closes(i) /\ Steps(i + 1) = {}
  BY <1>2, StepsNext DEF Closes
<1>5. PICK v : v = Append(s, e)
  OBVIOUS
<1>6. /\ v \in Seq(Bubbles) /\ DOMAIN s = 1 .. Len(s) /\ Len(s) \in Nat /\ DOMAIN v = 1 .. Len(s) + 1
      /\ (\A k \in 1 .. Len(s) : v[k] = s[k]) /\ v[Len(s) + 1] = e
  BY <1>2, <1>5, Appended
<1>7. /\ {s[b].row : b \in DOMAIN s} = {j \in 1 .. (i - 1) : Closes(j)}
      /\ \A b, c \in DOMAIN s : b < c => s[b].row < s[c].row
      /\ \A b \in DOMAIN s : Own(s[b])
  BY <1>1, <1>2, OwnStepsIs DEF CHInv
<1>8. {v[b].row : b \in DOMAIN v} = {j \in 1 .. i : Closes(j)}
  <2>1. \A b : b \in DOMAIN v <=> b \in DOMAIN s \/ b = Len(s) + 1
    BY <1>6
  <2>2. {v[b].row : b \in DOMAIN v} = {s[b].row : b \in DOMAIN s} \union {i}
    BY <1>1, <1>6, <2>1
  <2>3. {j \in 1 .. i : Closes(j)} = {j \in 1 .. (i - 1) : Closes(j)} \union {i}
    BY <1>2, <1>4
  <2> QED BY <1>7, <2>2, <2>3
<1>9. \A b, c \in DOMAIN v : b < c => v[b].row < v[c].row
  <2> SUFFICES ASSUME NEW b \in DOMAIN v, NEW c \in DOMAIN v, b < c PROVE v[b].row < v[c].row
    OBVIOUS
  <2>1. b \in DOMAIN s /\ v[b] = s[b]
    BY <1>6
  <2>2. s[b].row \in 1 .. (i - 1)
    BY <1>7, <2>1
  <2>3. CASE c \in DOMAIN s
    BY <1>6, <1>7, <2>1, <2>3
  <2>4. CASE c = Len(s) + 1
    BY <1>1, <1>2, <1>6, <2>1, <2>2, <2>4
  <2> QED BY <1>6, <2>3, <2>4
<1>10. \A b \in DOMAIN v : Own(v[b])
  BY <1>6, <1>7
<1>11. bubbles' = v
  BY <1>1, <1>5
<1>12. OwnSteps'
  <2>1. \A b : Own(b)' <=> Own(b)
    BY <1>2, <1>3 DEF Own
  <2>2. {j \in 1 .. at' : Closes(j)'} = {j \in 1 .. i : Closes(j)}
    BY <1>2, <1>3
  <2>3. \A b \in DOMAIN v : Own(v[b])'
    BY <1>10, <2>1
  <2> QED BY <1>8, <1>9, <1>11, <2>2, <2>3 DEF OwnSteps, Own, Increasing
<1>13. /\ tls' = <<>> /\ ths' = <<>> /\ tls' \in Seq(Nat) /\ ths' \in Seq(Marks)
       /\ Range(tls') = {} /\ Range(ths') = {} /\ Increasing(tls')
  BY DEF Forget, Range, Increasing
<1>14. at' + 1 = i + 1 /\ Steps(i + 1)' = {}
  BY <1>2, <1>3, <1>4
<1>15. Steps(at + 1)' = {}
  BY <1>2, <1>14 DEF Steps, Closes
<1>16. at' \in 0 .. Len(rows') /\ rows' \in Seq(Row)
  BY <1>2
<1> QED BY <1>6, <1>11, <1>12, <1>13, <1>15, <1>16 DEF CHInv

LEMMA UserRowStep == ASSUME CHInv, UserRow PROVE CHInv'
<1>1. PICK i : i = at + 1
  OBVIOUS
<1>2. i \in Nat /\ rows[i].role = "user"
  BY <1>1, LenProperties DEF UserRow, Take, CHInv
<1>3. PICK e : e = Bubble(i, <<>>, <<>>)
  OBVIOUS
<1>4. /\ e = [row |-> i, thoughts |-> <<>>, tools |-> <<>>]
      /\ e.row = i /\ e.thoughts = <<>> /\ e.tools = <<>> /\ <<>> \in Seq(Marks) /\ <<>> \in Seq(Nat)
  BY <1>3 DEF Bubble
<1>5. e \in Bubbles
  BY <1>2, <1>4 DEF Bubbles
<1>6. Own(e)
  BY <1>2, <1>4 DEF Own, Range, Increasing
<1> QED BY <1>1, <1>3, <1>4, <1>5, <1>6, RowShown DEF UserRow

LEMMA FinalRowStep == ASSUME CHInv, FinalRow PROVE CHInv'
<1>1. PICK i, h, s : i = at + 1 /\ h = ths /\ s = tls
  OBVIOUS
<1>2. i \in Nat /\ rows[i].role = "final" /\ h \in Seq(Marks) /\ s \in Seq(Nat)
  BY <1>1, LenProperties DEF FinalRow, Take, CHInv
<1>3. PICK m : m = IF thoughts THEN h \o Thought(i) ELSE <<>>
  OBVIOUS
<1>4. PICK e : e = Bubble(i, m, s)
  OBVIOUS
<1>5. m \in Seq(Marks) /\ \A t \in Range(m) : t[1] \in Steps(i) \union {i}
  <2>1. PICK q : q = Thought(i)
    OBVIOUS
  <2>2. q \in Seq(Marks) /\ \A t \in Range(q) : t[1] = i
    BY <1>2, <2>1, ThoughtOf
  <2>3. h \o q \in Seq(Marks) /\ Range(h \o q) \subseteq Range(h) \union Range(q)
    BY <1>2, <2>2, JoinedRange
  <2>4. \A t \in Range(h) : t[1] \in Steps(i)
    BY <1>1 DEF CHInv
  <2>5. CASE thoughts
    BY <1>3, <2>1, <2>2, <2>3, <2>4, <2>5
  <2>6. CASE ~thoughts
    BY <1>3, <2>6 DEF Range
  <2> QED BY <2>5, <2>6
<1>6. e = [row |-> i, thoughts |-> m, tools |-> s] /\ e.row = i /\ e.thoughts = m /\ e.tools = s
  BY <1>4 DEF Bubble
<1>7. e \in Bubbles
  BY <1>2, <1>5, <1>6 DEF Bubbles
<1>8. Own(e)
  BY <1>1, <1>2, <1>5, <1>6 DEF Own, CHInv
<1>9. bubbles' = Append(bubbles, e)
  BY <1>1, <1>3, <1>4 DEF FinalRow, Finished
<1> QED BY <1>1, <1>6, <1>7, <1>8, <1>9, RowShown DEF FinalRow

LEMMA HistoryStep == CHInv /\ [CHNext]_chVars => CHInv'
<1> SUFFICES ASSUME CHInv, [CHNext]_chVars PROVE CHInv'
  OBVIOUS
<1>1. CASE UNCHANGED chVars
  <2>1. UNCHANGED <<rows, at, bubbles, ths, tls>>
    BY <1>1 DEF chVars
  <2>2. OwnSteps'
    <3>1. \A j : Steps(j)' = Steps(j) /\ (Closes(j)' <=> Closes(j))
      BY <2>1 DEF Steps, Closes
    <3>2. OwnSteps
      BY DEF CHInv
    <3> QED BY <2>1, <3>1, <3>2 DEF OwnSteps
  <2>3. Range(tls)' = Steps(at + 1)' /\ Increasing(tls)' /\ \A t \in Range(ths)' : t[1] \in Steps(at + 1)'
    BY <2>1 DEF CHInv, Increasing, Steps, Closes
  <2> QED BY <2>1, <2>2, <2>3 DEF CHInv
<1>2. CASE ToolRow
  BY <1>2, RowPassed DEF ToolRow, Roles
<1>3. CASE CallsRow
  BY <1>3, RowPassed DEF CallsRow, Roles
<1>4. CASE OtherRow
  BY <1>4, RowPassed DEF OtherRow, Roles
<1> QED BY <1>1, <1>2, <1>3, <1>4, UserRowStep, FinalRowStep DEF CHNext

\* However long a history is and however the rows of its runs lie in it, an answer's bubble
\* shows the steps of its own run, each once and in their order, and those of a run that
\* was never answered are shown nowhere (_history_messages).
THEOREM OwnStepsCorrect == CHSpec => []OwnSteps
<1>1. CHInv => OwnSteps
  BY DEF CHInv
<1> QED BY HistoryStarts, HistoryStep, <1>1, PTL DEF CHSpec

-----------------------------------------------------------------------------
(* CallerToken.                                                            *)

\* The variable of a task holds the token of the one caller it serves.
TokensBound ==
    /\ stage \in [Callers -> {"new", "running", "over"}]
    /\ bearer = [t \in Tasks |-> bearer[t]]
    /\ \A r \in Callers : stage[r] = "running" => bearer[TaskOf[r]] = BearerOf(r)
    /\ \A r, o \in Callers :
         stage[r] = "running" /\ stage[o] = "running" /\ TaskOf[r] = TaskOf[o] => r = o

\* A call on its way, and a call in the worker, have the token of their caller.
Carried == \A c \in posted : c.of \in Callers /\ c.token = BearerOf(c.of)
Admitted == \A d \in DOMAIN scope : d.of \in Callers /\ scope[d] = BearerOf(d.of)

TokenInv == TokensBound /\ Carried /\ Admitted /\ TokenOfCaller

\* A token that was resolved is not blank: the worker resolves it again to itself.
LEMMA TokenResolved ==
  ASSUME NEW r \in Callers
  PROVE  Explicit(BearerOf(r)) = BearerOf(r)
<1>1. NoToken # Blank
  BY DEF NoToken, Blank
<1> QED BY <1>1 DEF BearerOf, Explicit

LEMMA TokenInit == CTInit => TokenInv
<1> SUFFICES ASSUME CTInit PROVE TokenInv
  OBVIOUS
<1>1. bearer = [t \in Tasks |-> bearer[t]]
  BY DEF CTInit
<1>2. TokensBound
  BY <1>1 DEF CTInit, TokensBound
<1> QED BY <1>2 DEF CTInit, TokenInv, Carried, Admitted, TokenOfCaller

\* Binding and unbinding disturb what one task holds, and no other.
LEMMA BindStep ==
  ASSUME TokenInv, NEW r \in Callers, Bind(r)
  PROVE  TokenInv'
<1>1. TaskOf[r] \in Tasks
  BY DEF Tasks
<1>2. stage' \in [Callers -> {"new", "running", "over"}] /\ bearer' = [t \in Tasks |-> bearer'[t]]
  BY <1>1 DEF TokenInv, TokensBound, Bind
<1>3. ASSUME NEW o \in Callers, stage'[o] = "running"
      PROVE  bearer'[TaskOf[o]] = BearerOf(o)
  <2>1. CASE o = r
    BY <2>1, <1>1 DEF TokenInv, TokensBound, Bind
  <2>2. CASE o # r
    <3>1. stage[o] = "running" /\ TaskOf[o] # TaskOf[r]
      BY <1>3, <2>2 DEF TokenInv, TokensBound, Bind
    <3>2. bearer'[TaskOf[o]] = bearer[TaskOf[o]]
      BY <3>1 DEF TokenInv, TokensBound, Bind, Tasks
    <3> QED BY <3>1, <3>2 DEF TokenInv, TokensBound
  <2> QED BY <2>1, <2>2
<1>4. \A o, q \in Callers :
        stage'[o] = "running" /\ stage'[q] = "running" /\ TaskOf[o] = TaskOf[q] => o = q
  BY DEF TokenInv, TokensBound, Bind
<1>5. TokensBound'
  BY <1>2, <1>3, <1>4 DEF TokensBound, BearerOf, Explicit, Tasks
<1> QED BY <1>5 DEF TokenInv, Bind, Carried, Admitted, TokenOfCaller, BearerOf, Explicit

LEMMA UnbindStep ==
  ASSUME TokenInv, NEW r \in Callers, Unbind(r)
  PROVE  TokenInv'
<1>1. stage' \in [Callers -> {"new", "running", "over"}] /\ bearer' = [t \in Tasks |-> bearer'[t]]
  BY DEF TokenInv, TokensBound, Unbind
<1>2. ASSUME NEW o \in Callers, stage'[o] = "running"
      PROVE  bearer'[TaskOf[o]] = BearerOf(o)
  <2>1. o # r /\ stage[o] = "running"
    BY <1>2 DEF TokenInv, TokensBound, Unbind
  <2>2. TaskOf[o] # TaskOf[r]
    BY <2>1 DEF TokenInv, TokensBound, Unbind
  <2>3. bearer'[TaskOf[o]] = bearer[TaskOf[o]]
    BY <2>2 DEF TokenInv, TokensBound, Unbind, Tasks
  <2> QED BY <2>1, <2>3 DEF TokenInv, TokensBound
<1>3. \A o, q \in Callers :
        stage'[o] = "running" /\ stage'[q] = "running" /\ TaskOf[o] = TaskOf[q] => o = q
  BY DEF TokenInv, TokensBound, Unbind
<1>4. TokensBound'
  BY <1>1, <1>2, <1>3 DEF TokensBound, BearerOf, Explicit, Tasks
<1> QED BY <1>4 DEF TokenInv, Unbind, Carried, Admitted, TokenOfCaller, BearerOf, Explicit

\* A call is posted with the token of the task that posts it, which is its caller's.
LEMMA CallStep ==
  ASSUME TokenInv, NEW r \in Callers, CallApi(r)
  PROVE  TokenInv'
<1>1. bearer[TaskOf[r]] = BearerOf(r)
  BY DEF TokenInv, TokensBound, CallApi
<1>2. Carried'
  BY <1>1 DEF TokenInv, Carried, CallApi, BearerOf, Explicit
<1> QED BY <1>2 DEF TokenInv, CallApi, TokensBound, Admitted, TokenOfCaller, BearerOf, Explicit, Tasks

\* A call that is admitted leaves the tokens of those already in the worker alone.
LEMMA AdmitStep ==
  ASSUME TokenInv, NEW c \in posted, Admit(c)
  PROVE  TokenInv'
<1>1. c.of \in Callers /\ Explicit(c.token) = BearerOf(c.of) /\ CallOf(c).of = c.of
  BY TokenResolved DEF TokenInv, Carried, CallOf
<1>2. ASSUME NEW d \in DOMAIN scope'
      PROVE  d.of \in Callers /\ scope'[d] = BearerOf(d.of)
  <2>1. CASE d = CallOf(c)
    BY <2>1, <1>1 DEF Admit
  <2>2. CASE d # CallOf(c)
    <3>1. d \in DOMAIN scope /\ scope'[d] = scope[d]
      BY <2>2, <1>2 DEF Admit
    <3> QED BY <3>1 DEF TokenInv, Admitted
  <2> QED BY <2>1, <2>2
<1>3. Admitted'
  BY <1>2 DEF Admitted, BearerOf, Explicit
<1> QED BY <1>3 DEF TokenInv, Admit, TokensBound, Carried, TokenOfCaller, BearerOf, Explicit, Tasks

\* The header is the token of the call, or an argument of it.
LEMMA SendStep ==
  ASSUME TokenInv, NEW d \in DOMAIN scope, SendAuthed(d)
  PROVE  TokenInv'
<1>1. d.of \in Callers /\ scope[d] = BearerOf(d.of)
  BY DEF TokenInv, Admitted
<1>2. PICK header \in {scope[d], "argument"} :
        received' = received \union {[of |-> d.of, nr |-> d.nr, header |-> header]}
  BY DEF SendAuthed
<1>3. TokenOfCaller'
  BY <1>1, <1>2 DEF TokenInv, TokenOfCaller, BearerOf, Explicit
<1>4. Admitted'
  BY DEF TokenInv, SendAuthed, Admitted, BearerOf, Explicit
<1> QED BY <1>3, <1>4 DEF TokenInv, SendAuthed, TokensBound, Carried, BearerOf, Explicit, Tasks

LEMMA TokenStep == TokenInv /\ [CTNext]_ctVars => TokenInv'
<1> SUFFICES ASSUME TokenInv, [CTNext]_ctVars PROVE TokenInv'
  OBVIOUS
<1>1. ASSUME NEW r \in Callers, Bind(r) \/ Unbind(r) \/ CallApi(r) PROVE TokenInv'
  BY <1>1, BindStep, UnbindStep, CallStep
<1>2. ASSUME NEW c \in posted, Admit(c) PROVE TokenInv'
  BY <1>2, AdmitStep
<1>3. ASSUME NEW d \in DOMAIN scope, SendAuthed(d) PROVE TokenInv'
  BY <1>3, SendStep
<1>4. CASE UNCHANGED ctVars
  BY <1>4 DEF ctVars, TokenInv, TokensBound, Carried, Admitted, TokenOfCaller, BearerOf, Explicit, Tasks
<1> QED BY <1>1, <1>2, <1>3, <1>4 DEF CTNext

\* Every call of the business API is made with the token of the request the agent runs
\* for, whatever shares the task, the client or the worker with it, and however late it
\* is performed (set_request_context, AuthPassthroughMiddleware, AuthedHttpClient.send).
THEOREM TokenCorrect == CTSpec => []TokenOfCaller
<1>1. TokenInv => TokenOfCaller
  BY DEF TokenInv
<1> QED BY TokenInit, TokenStep, <1>1, PTL DEF CTSpec

-----------------------------------------------------------------------------
(* Service: any number of runs and any number of attempts.                 *)

\* The lifespan before its end: a step that failed has ended it.
Under == {"config", "connect", "playbook", "store", "events", "wecom", "serving", "closing"}
States == Under \union {"stopping", "stores", "down"}

Tool == [st : {"idle"} \union Active \union Ended, att : Nat, on : Nat, wire : SUBSET Nat,
         did : SUBSET Nat, tracked : BOOLEAN, cancel : BOOLEAN]

ServiceType ==
    /\ pc \in States /\ open \subseteq Resources
    /\ setup \in BOOLEAN /\ closeErr \in {"none", "swallowed", "raised"}
    /\ client \in [loop : Nat, conn : BOOLEAN, made : Nat]
    /\ calls \in [Runs -> Tool]

\* What is open at a step has been opened by one before it.
Opening ==
    /\ pc # "down" => failedAt = "none"
    /\ pc \in Under => closeErr = "none"
    /\ pc = "stores" => closeErr # "raised"
    /\ pc \in {"config", "connect"} => open = {} /\ ~setup
    /\ pc = "closing" => setup
    /\ pc = "playbook" => open \subseteq {"worker"}
    /\ pc = "store" => open \subseteq {"worker", "redis"}
    /\ ~setup /\ pc \in Under => "worker" \notin open
    /\ pc \in {"stopping", "stores"} /\ closeErr = "none" => "worker" \notin open

\* What is left open at the end.
Leftover ==
    pc = "down" =>
      /\ "worker" \in open => closeErr # "none" \/ failedAt \in {"playbook", "store", "events", "wecom"}
      /\ "redis"  \in open => closeErr = "raised" \/ failedAt \in {"store", "events", "wecom"}
      /\ "store"  \in open => closeErr = "raised" \/ failedAt \in {"events", "wecom"}

\* Only the loop in use runs; there is none before the first connection or call; and
\* when it has been stopped, only a run the shutdown did not know of starts another.
LateRun == \E r \in Runs : ~calls[r].tracked /\ calls[r].att > 0
CallsMade == /\ failedAt = "none" /\ pc \notin Under \ {"serving", "closing"}
             /\ ~setup => pc \notin Under
Looping ==
    /\ up \subseteq {client.loop} \ {0}
    /\ ~setup /\ pc \in Under => client.made = 0 /\ up = {}
    /\ ~CallsMade => \A r \in Runs : calls[r].st = "idle"
    /\ \A r \in Runs : calls[r].st = "idle" => calls[r].att = 0 /\ calls[r].wire = {}
    /\ pc \notin Under \ {"closing"} =>
         \A r \in Runs : calls[r].tracked /\ calls[r].st \in Active => calls[r].cancel
    /\ pc \in {"stores", "down"} /\ failedAt = "none" => up = {} \/ LateRun

ServiceInv == ServiceType /\ Opening /\ Leftover /\ Looping

LEMMA ServiceInit == Init => ServiceInv
<1> SUFFICES ASSUME Init PROVE ServiceInv
  OBVIOUS
<1>1. NoCall \in Tool
  BY DEF NoCall, Tool
<1>2. ServiceType
  BY <1>1 DEF Init, ServiceType, States, Under, NoClient
<1>3. Opening /\ Leftover
  BY DEF Init, Opening, Leftover
<1>4. Looping
  BY DEF Init, Looping, NoClient, NoCall, Under, Active
<1> QED BY <1>2, <1>3, <1>4 DEF ServiceInv

LEMMA EnsuredType ==
  ASSUME ServiceInv
  PROVE  /\ Ensured \in [loop : Nat, conn : BOOLEAN, made : Nat]
         /\ Connected \in [loop : Nat, conn : BOOLEAN, made : Nat]
         /\ Ensured.loop = Loop /\ Connected.loop = Loop
         /\ up \union {Loop} \subseteq {Loop} \ {0}
<1>1. client \in [loop : Nat, conn : BOOLEAN, made : Nat] /\ up \subseteq {client.loop} \ {0}
  BY DEF ServiceInv, ServiceType, Looping
<1>2. Loop \in Nat \ {0} /\ (client.loop # 0 => Loop = client.loop)
  BY <1>1 DEF Loop
<1>3. Ensured \in [loop : Nat, conn : BOOLEAN, made : Nat] /\ Ensured.loop = Loop
  BY <1>1, <1>2 DEF Ensured
<1>4. Connected \in [loop : Nat, conn : BOOLEAN, made : Nat] /\ Connected.loop = Loop
  BY <1>3 DEF Connected
<1> QED BY <1>1, <1>2, <1>3, <1>4

\* The start: each step opens one thing more, or fails.
LEMMA StartStep ==
  ASSUME ServiceInv,
         Configure \/ Connect \/ OpenRedis \/ OpenStore \/ BuildDispatcher \/ BuildWeCom
  PROVE  ServiceInv'
<1>1. ServiceType'
  <2>1. CASE Connect
    <3>1. client' \in [loop : Nat, conn : BOOLEAN, made : Nat]
      BY <2>1, EnsuredType DEF Connect, Bound, Connected
    <3> QED BY <2>1, <3>1 DEF ServiceInv, ServiceType, States, Under, Resources, Fails, Connect, Bound
  <2>2. CASE Configure \/ BuildDispatcher \/ BuildWeCom
    BY <2>2 DEF ServiceInv, ServiceType, States, Under, Fails, Configure, BuildDispatcher, BuildWeCom
  <2>3. CASE OpenRedis \/ OpenStore
    BY <2>3 DEF ServiceInv, ServiceType, States, Under, Resources, Fails, OpenRedis, OpenStore
  <2> QED BY <2>1, <2>2, <2>3
<1>2. Opening' /\ Leftover'
  <2>1. CASE Configure
    BY <2>1 DEF ServiceInv, ServiceType, Opening, Leftover, Under, Resources, Fails, Configure
  <2>2. CASE Connect
    BY <2>2 DEF ServiceInv, ServiceType, Opening, Leftover, Under, Resources, Fails, Connect, Bound
  <2>3. CASE OpenRedis
    BY <2>3 DEF ServiceInv, ServiceType, Opening, Leftover, Under, Resources, Fails, OpenRedis
  <2>4. CASE OpenStore
    BY <2>4 DEF ServiceInv, ServiceType, Opening, Leftover, Under, Resources, Fails, OpenStore
  <2>5. CASE BuildDispatcher
    BY <2>5 DEF ServiceInv, ServiceType, Opening, Leftover, Under, Resources, Fails, BuildDispatcher
  <2>6. CASE BuildWeCom
    BY <2>6 DEF ServiceInv, ServiceType, Opening, Leftover, Under, Resources, Fails, BuildWeCom
  <2> QED BY <2>1, <2>2, <2>3, <2>4, <2>5, <2>6
<1>3. calls' = calls
  BY DEF Configure, Connect, OpenRedis, OpenStore, BuildDispatcher, BuildWeCom
<1>4. \A r \in Runs : calls[r].st = "idle" /\ calls[r].st \notin Active
  <2>1. ~CallsMade
    BY DEF CallsMade, Under, Configure, Connect, OpenRedis, OpenStore, BuildDispatcher, BuildWeCom
  <2>2. \A r \in Runs : calls[r].st = "idle"
    BY <2>1 DEF ServiceInv, Looping
  <2> QED BY <2>1, <2>2, <1>3 DEF Active
<1>5. ASSUME Connect PROVE Looping'
  <2>1. ~setup /\ up = {} /\ client.made = 0
    BY <1>5 DEF Connect, ServiceInv, Opening, Looping, Under
  <2>2. up' = {Loop} /\ client'.loop = Loop /\ Loop # 0
    BY <1>5, <2>1, EnsuredType DEF Connect, Bound
  <2>3. \/ pc' = "down" /\ failedAt' = "connect"
        \/ pc' = "playbook" /\ setup' = TRUE
    BY <1>5 DEF Connect, Fails, Bound
  <2> QED BY <2>2, <2>3, <1>3, <1>4 DEF Looping, ServiceInv, Under
<1>6. ASSUME Configure \/ OpenRedis \/ OpenStore \/ BuildDispatcher \/ BuildWeCom PROVE Looping'
  <2>1. UNCHANGED <<up, client, setup>>
    BY <1>6 DEF Configure, OpenRedis, OpenStore, BuildDispatcher, BuildWeCom
  <2>2. pc \in Under \ {"closing"}
    BY <1>6 DEF Configure, OpenRedis, OpenStore, BuildDispatcher, BuildWeCom, Under
  <2>3. pc' \in Under \ {"closing"} \/ (pc' = "down" /\ failedAt' # "none")
    BY <1>6 DEF Configure, OpenRedis, OpenStore, BuildDispatcher, BuildWeCom, Fails, Under
  <2> QED BY <2>1, <2>2, <2>3, <1>3, <1>4 DEF Looping, ServiceInv, Under
<1> QED BY <1>1, <1>2, <1>5, <1>6 DEF ServiceInv

\* The end: the loop is stopped last, and what keeps running is not known to anybody.
LEMMA LifeEnds ==
  ASSUME ServiceInv, Shutdown \/ CloseSession \/ StopLoop \/ CloseStores \/ WorkerDies
  PROVE  ServiceInv'
<1>1. CASE Shutdown
  <2>1. \A r \in Runs : [calls[r] EXCEPT !.cancel = calls[r].tracked /\ calls[r].st \in Active] \in Tool
    BY DEF ServiceInv, ServiceType, Tool
  <2>2. ServiceType' /\ Opening' /\ Leftover'
    BY <1>1, <2>1 DEF Shutdown, ServiceInv, ServiceType, Opening, Leftover, States, Under
  <2>3. \A r \in Runs : /\ calls'[r].st = calls[r].st /\ calls'[r].att = calls[r].att
                        /\ calls'[r].tracked = calls[r].tracked /\ calls'[r].wire = calls[r].wire
                        /\ calls'[r].cancel = (calls[r].tracked /\ calls[r].st \in Active)
    BY <1>1 DEF Shutdown, ServiceInv, ServiceType, Tool
  <2>4. /\ pc = "serving" /\ UNCHANGED <<up, client, setup, failedAt>>
        /\ IF setup THEN pc' = "closing" ELSE pc' = "stores"
    BY <1>1 DEF Shutdown
  <2>5. CallsMade'
    <3>1. failedAt = "none"
      BY <2>4 DEF ServiceInv, Opening
    <3> QED BY <2>4, <3>1 DEF CallsMade, Under
  <2>6. /\ up' \subseteq {client'.loop} \ {0}
        /\ ~setup' => up' = {}
        /\ pc' \in {"closing", "stores"} /\ (pc' = "stores" => ~setup')
        /\ ~setup => client.made = 0
    BY <2>4 DEF ServiceInv, Looping, Under
  <2>7. \A r \in Runs : calls'[r].st = "idle" => calls'[r].att = 0 /\ calls'[r].wire = {}
    BY <2>3 DEF ServiceInv, Looping
  <2>8. \A r \in Runs : calls'[r].tracked /\ calls'[r].st \in Active => calls'[r].cancel
    BY <2>3
  <2>9. ~setup' /\ pc' \in Under => client'.made = 0 /\ up' = {}
    BY <2>4, <2>6
  <2>10. Looping'
    BY <2>5, <2>6, <2>7, <2>8, <2>9 DEF Looping
  <2> QED BY <2>2, <2>10 DEF ServiceInv
<1>2. CASE CloseSession
  <2>1. ServiceType' /\ Opening' /\ Leftover'
    BY <1>2 DEF CloseSession, ServiceInv, ServiceType, Opening, Leftover, States, Under, Resources
  <2>2. Looping'
    BY <1>2 DEF CloseSession, ServiceInv, ServiceType, Looping, CallsMade, Under
  <2> QED BY <2>1, <2>2 DEF ServiceInv
<1>3. CASE StopLoop
  <2>1. ServiceType' /\ Opening' /\ Leftover'
    BY <1>3 DEF StopLoop, ServiceInv, ServiceType, Opening, Leftover, States, Under
  <2>2. up' = {}
    BY <1>3 DEF StopLoop, ServiceInv, Looping
  <2>3. Looping'
    BY <1>3, <2>2 DEF StopLoop, ServiceInv, Looping, CallsMade, LateRun, Under
  <2> QED BY <2>1, <2>3 DEF ServiceInv
<1>4. CASE CloseStores
  <2>1. ServiceType' /\ Opening' /\ Leftover'
    BY <1>4 DEF CloseStores, ServiceInv, ServiceType, Opening, Leftover, States, Under
  <2>2. Looping'
    BY <1>4 DEF CloseStores, ServiceInv, Looping, CallsMade, LateRun, Under
  <2> QED BY <2>1, <2>2 DEF ServiceInv
<1>5. CASE WorkerDies
  BY <1>5 DEF WorkerDies, ServiceInv, ServiceType, Opening, Leftover, Looping, CallsMade, LateRun, Under
<1> QED BY <1>1, <1>2, <1>3, <1>4, <1>5

\* What a step of a call owes the invariant: it may start a loop when none is in use, but
\* for a call that was cancelled; and it never becomes idle or forgets an attempt.
LEMMA RunStep ==
  ASSUME ServiceInv, NEW r \in Runs, UNCHANGED Held, CallsMade, NEW c \in Tool,
         calls' = [calls EXCEPT ![r] = c], c.st # "idle",
         c.tracked = calls[r].tracked, c.cancel = calls[r].cancel, c.att >= calls[r].att,
         c.st \in Active => calls[r].st \in Active,
         \/ UNCHANGED <<client, up>>
         \/ /\ client' = Ensured /\ up' = up \union {Loop}
            /\ calls[r].st \in Active /\ ~calls[r].cancel /\ c.att > 0
  PROVE  ServiceInv'
<1>1. /\ calls' \in [Runs -> Tool] /\ calls'[r] = c
      /\ \A s \in Runs : s # r => calls'[s] = calls[s]
  BY DEF ServiceInv, ServiceType
<1>2. ServiceType' /\ Opening' /\ Leftover'
  BY <1>1, EnsuredType DEF ServiceInv, ServiceType, Opening, Leftover, Held
<1>3. LateRun => LateRun'
  <2>1. ASSUME NEW s \in Runs, ~calls[s].tracked /\ calls[s].att > 0
        PROVE  ~calls'[s].tracked /\ calls'[s].att > 0
    BY <1>1, <2>1 DEF ServiceInv, ServiceType, Tool
  <2> QED BY <2>1 DEF LateRun
<1>4. up' \subseteq {client'.loop} \ {0}
  BY EnsuredType DEF ServiceInv, Looping
<1>5. pc \in {"stores", "down"} /\ failedAt = "none" => up' = {} \/ LateRun'
  <2>1. CASE UNCHANGED <<client, up>>
    BY <2>1, <1>3 DEF ServiceInv, Looping
  <2>2. CASE calls[r].st \in Active /\ ~calls[r].cancel /\ c.att > 0
    <3>1. pc \in {"stores", "down"} => ~c.tracked
      BY <2>2 DEF ServiceInv, Looping, Under
    <3> QED BY <3>1, <2>2, <1>1 DEF LateRun
  <2> QED BY <2>1, <2>2
<1>6. Looping'
  BY <1>1, <1>4, <1>5 DEF ServiceInv, Looping, CallsMade, Held, Under
<1> QED BY <1>2, <1>6 DEF ServiceInv

LEMMA RaisedType ==
  ASSUME NEW c \in Tool
  PROVE  /\ Raised(c) \in Tool /\ Raised(c).st \in {"ready", "failed"}
         /\ Raised(c).tracked = c.tracked /\ Raised(c).cancel = c.cancel /\ Raised(c).att = c.att
BY DEF Raised, Tool, Active, Ended

\* The steps of a call.
LEMMA ToolSteps ==
  ASSUME ServiceInv, NEW r \in Runs,
         \/ Kick(r) \/ Attempt(r) \/ Enter(r) \/ Perform(r)
         \/ Answer(r) \/ Refused(r) \/ Timeout(r) \/ Cancelled(r)
  PROVE  ServiceInv'
<1>1. calls[r] \in Tool
  BY DEF ServiceInv, ServiceType
<1>2. CASE Kick(r)
  <2> DEFINE c == [calls[r] EXCEPT !.st = "ready", !.tracked = pc = "serving"]
  <2>1. /\ c \in Tool /\ calls' = [calls EXCEPT ![r] = c]
        /\ c.st = "ready" /\ c.att = calls[r].att /\ c.tracked = (pc = "serving")
    BY <1>1, <1>2 DEF Kick, Tool, Active
  <2>2. /\ calls' \in [Runs -> Tool] /\ calls'[r] = c
        /\ \A s \in Runs : s # r => calls'[s] = calls[s]
    BY <2>1 DEF ServiceInv, ServiceType
  <2>3. ServiceType' /\ Opening' /\ Leftover'
    BY <1>2, <2>2 DEF ServiceInv, ServiceType, Opening, Leftover, Kick, Held
  <2>4. LateRun => LateRun'
    <3>1. calls[r].att = 0
      BY <1>2 DEF Kick, ServiceInv, Looping
    <3> QED BY <3>1, <2>2 DEF LateRun
  <2>5. CallsMade
    BY <1>2 DEF Kick, CallsMade, ServiceInv, Opening, Looping, Under
  <2>6. UNCHANGED <<pc, failedAt, setup, client, up>> /\ CallsMade'
    BY <1>2, <2>5 DEF Kick, Held, CallsMade
  <2>7. pc \notin Under \ {"closing"} => ~c.tracked
    BY <2>1 DEF Under
  <2>8. Looping'
    BY <2>1, <2>2, <2>4, <2>6, <2>7 DEF ServiceInv, Looping
  <2> QED BY <2>3, <2>8 DEF ServiceInv
<1>3. calls[r].st # "idle" => CallsMade
  BY DEF ServiceInv, Looping
<1>4. ASSUME NEW c \in Tool, UNCHANGED <<Held, client, up>>, calls' = [calls EXCEPT ![r] = c],
             calls[r].st # "idle", c.st # "idle", c.st \in Active => calls[r].st \in Active,
             c.tracked = calls[r].tracked, c.cancel = calls[r].cancel, c.att = calls[r].att
      PROVE  ServiceInv'
  <2>1. c.att >= calls[r].att
    BY <1>4, <1>1 DEF Tool
  <2> QED BY <1>4, <1>3, <2>1, RunStep
<1>5. CASE Attempt(r)
  <2> DEFINE b == [calls[r] EXCEPT !.att = @ + 1]
  <2>1. calls[r].st = "ready" /\ ~calls[r].cancel /\ UNCHANGED Held
    BY <1>5 DEF Attempt
  <2>2. b \in Tool /\ b.att > 0 /\ b.att >= calls[r].att /\ b.st = "ready"
        /\ b.tracked = calls[r].tracked /\ b.cancel = calls[r].cancel
    BY <1>1, <2>1 DEF Tool
  <2>3. CASE calls' = [calls EXCEPT ![r] = Raised(b)] /\ UNCHANGED <<client, up>>
    <3>1. /\ Raised(b) \in Tool /\ Raised(b).st # "idle" /\ Raised(b).att = b.att
          /\ Raised(b).tracked = b.tracked /\ Raised(b).cancel = b.cancel
      BY <2>2, RaisedType
    <3> QED BY <1>3, <2>1, <2>2, <2>3, <3>1, RunStep DEF Active
  <2>4. CASE /\ calls' = [calls EXCEPT ![r] = [b EXCEPT !.st = "posted", !.on = Loop]]
             /\ client' = Ensured /\ up' = up \union {Loop}
    <3> DEFINE c == [b EXCEPT !.st = "posted", !.on = Loop]
    <3>1. Loop \in Nat
      BY DEF ServiceInv, ServiceType, Loop
    <3>2. /\ c \in Tool /\ c.st = "posted" /\ c.att = b.att
          /\ c.tracked = b.tracked /\ c.cancel = b.cancel
      BY <2>2, <3>1 DEF Tool, Active
    <3> QED BY <1>3, <2>1, <2>2, <2>4, <3>2, RunStep DEF Active
  <2> QED BY <1>5, <2>3, <2>4 DEF Attempt
<1>6. CASE Enter(r)
  <2> DEFINE c == Sent(calls[r])
  <2>1. /\ c \in Tool /\ c.st = "sent" /\ c.tracked = calls[r].tracked
        /\ c.cancel = calls[r].cancel /\ c.att = calls[r].att
    BY <1>1 DEF Sent, Tool, Active
  <2>2. calls[r].st = "posted" /\ UNCHANGED <<Held, client, up>>
    BY <1>6 DEF Enter
  <2>3. calls' = [calls EXCEPT ![r] = c] \/ calls' = [calls EXCEPT ![r] = Raised(calls[r])]
    BY <1>6 DEF Enter
  <2> QED BY <1>1, <1>4, <2>1, <2>2, <2>3, RaisedType DEF Active
<1>7. CASE Perform(r)
  <2>1. PICK a \in calls[r].wire :
          calls' = [calls EXCEPT ![r].wire = @ \ {a}, ![r].did = @ \union {a}]
    BY <1>7 DEF Perform
  <2> DEFINE c == [calls[r] EXCEPT !.wire = @ \ {a}, !.did = @ \union {a}]
  <2>2. /\ c \in Tool /\ c.st = calls[r].st /\ c.tracked = calls[r].tracked
        /\ c.cancel = calls[r].cancel /\ c.att = calls[r].att
    BY <1>1, <2>1 DEF Tool
  <2>3. calls' = [calls EXCEPT ![r] = c]
    BY <1>1, <2>1 DEF ServiceInv, ServiceType, Tool
  <2>4. calls[r].st # "idle"
    BY <2>1 DEF ServiceInv, Looping
  <2> QED BY <1>4, <1>7, <2>2, <2>3, <2>4 DEF Perform
<1>8. CASE Answer(r) \/ Cancelled(r)
  <2>1. PICK l \in Ended : calls' = [calls EXCEPT ![r].st = l]
    BY <1>8 DEF Answer, Cancelled, Ended
  <2> DEFINE c == [calls[r] EXCEPT !.st = l]
  <2>2. /\ c \in Tool /\ c.st = l /\ c.tracked = calls[r].tracked
        /\ c.cancel = calls[r].cancel /\ c.att = calls[r].att
    BY <1>1 DEF Tool
  <2>3. calls' = [calls EXCEPT ![r] = c] /\ calls[r].st # "idle" /\ UNCHANGED <<Held, client, up>>
    BY <1>8, <2>1 DEF Answer, Cancelled, Active
  <2>4. l # "idle" /\ l \notin Active
    BY DEF Ended, Active
  <2> QED BY <1>4, <2>2, <2>3, <2>4
<1>9. CASE Refused(r) \/ Timeout(r)
  <2>1. /\ calls' = [calls EXCEPT ![r] = Raised(calls[r])] /\ calls[r].st = "sent"
        /\ UNCHANGED <<Held, client, up>>
    BY <1>9 DEF Refused, Timeout
  <2> QED BY <1>1, <1>4, <2>1, RaisedType DEF Active
<1> QED BY <1>2, <1>5, <1>6, <1>7, <1>8, <1>9

LEMMA ServiceStep == ServiceInv /\ [Next]_vars => ServiceInv'
<1> SUFFICES ASSUME ServiceInv, [Next]_vars PROVE ServiceInv'
  OBVIOUS
<1>1. CASE Lifespan \/ WorkerDies
  BY <1>1, StartStep, LifeEnds DEF Lifespan
<1>2. CASE \E r \in Runs : \/ Kick(r) \/ Attempt(r) \/ Enter(r) \/ Perform(r) \/ Answer(r)
                           \/ Refused(r) \/ Timeout(r) \/ Cancelled(r)
  BY <1>2, ToolSteps
<1>3. CASE UNCHANGED vars
  BY <1>3 DEF vars, ServiceInv, ServiceType, Opening, Leftover, Looping, CallsMade, LateRun
<1> QED BY <1>1, <1>2, <1>3 DEF Next

\* What a process that is down still holds is the work of a failed start, of an error of
\* the MCP client's close, or of a run the shutdown did not know of (the finally of the
\* lifespan, HubloomRuntime.aclose, MCPToolClient.close), however many runs there are.
THEOREM LeftOpenCorrect == Spec => []LeftOpen
<1>1. ServiceInv => LeftOpen
  BY DEF ServiceInv, ServiceType, Leftover, Looping, LateRun, LeftOpen
<1> QED BY ServiceInit, ServiceStep, <1>1, PTL DEF Spec

=============================================================================
