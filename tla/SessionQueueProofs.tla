-------------------------- MODULE SessionQueueProofs --------------------------
(* Theorems of SessionQueue for any number of messages, processes,           *)
(* deliveries and incidents.                                                 *)
EXTENDS SessionQueue, SequenceTheorems, FiniteSetTheorems, TLAPS

-------------------------------------------------------------------------------
(* The lists.                                                                *)

(* Where LPUSH puts its entry, and RPUSH, and what RPOP leaves.              *)
LEMMA AppendAt ==
  ASSUME NEW S, NEW s \in Seq(S), NEW e \in S
  PROVE  /\ Len(s) \in Nat /\ DOMAIN s = 1..Len(s) /\ DOMAIN Append(s, e) = 1..(Len(s) + 1)
         /\ \A i \in 1..Len(s) : Append(s, e)[i] = s[i]
         /\ Append(s, e)[Len(s) + 1] = e
<1>1. /\ Append(s, e) \in Seq(S) /\ Len(Append(s, e)) = Len(s) + 1
      /\ \A i \in 1..Len(s) : Append(s, e)[i] = s[i]
      /\ Append(s, e)[Len(s) + 1] = e
  BY AppendProperties
<1> QED BY <1>1, LenProperties

LEMMA TailAt ==
  ASSUME NEW S, NEW s \in Seq(S), s # <<>>
  PROVE  /\ Len(s) \in Nat \ {0} /\ DOMAIN s = 1..Len(s) /\ Head(s) = s[1]
         /\ DOMAIN Tail(s) = 1..(Len(s) - 1)
         /\ \A i \in 1..(Len(s) - 1) : Tail(s)[i] = s[i + 1]
<1>1. /\ Tail(s) \in Seq(S) /\ Len(Tail(s)) = Len(s) - 1
      /\ \A i \in 1..Len(Tail(s)) : Tail(s)[i] = s[i + 1]
      /\ Len(s) \in Nat \ {0}
  BY HeadTailProperties, EmptySeq
<1> QED BY <1>1, LenProperties

LEMMA PushAt ==
  ASSUME NEW S, NEW s \in Seq(S), NEW e \in S
  PROVE  /\ Len(s) \in Nat /\ DOMAIN s = 1..Len(s) /\ DOMAIN (<<e>> \o s) = 1..(Len(s) + 1)
         /\ (<<e>> \o s)[1] = e
         /\ \A i \in 2..(Len(s) + 1) : (<<e>> \o s)[i] = s[i - 1]
<1>1. <<e>> \in Seq(S) /\ Len(<<e>>) = 1 /\ <<e>>[1] = e
  OBVIOUS
<1> DEFINE es == <<e>> \o s
<1>2. /\ es \in Seq(S) /\ Len(es) = 1 + Len(s)
      /\ \A i \in 1..(1 + Len(s)) : es[i] = IF i <= 1 THEN <<e>>[i] ELSE s[i - 1]
  BY <1>1, ConcatProperties
<1> HIDE DEF es
<1>3. Len(s) \in Nat /\ DOMAIN s = 1..Len(s) /\ DOMAIN es = 1..(Len(s) + 1)
  BY <1>2, LenProperties
<1>4. es[1] = e
  BY <1>1, <1>2, <1>3
<1>5. ASSUME NEW i \in 2..(Len(s) + 1) PROVE es[i] = s[i - 1]
  <2>1. i \in 1..(1 + Len(s)) /\ ~(i <= 1)
    BY <1>3
  <2> QED BY <1>2, <2>1
<1> QED BY <1>3, <1>4, <1>5 DEF es

(* LPUSH adds its entry.                                                     *)
LEMMA AppendElems ==
  ASSUME NEW S, NEW s \in Seq(S), NEW e \in S
  PROVE  /\ Append(s, e) \in Seq(S)
         /\ Elems(Append(s, e)) = Elems(s) \cup {e}
<1>1. /\ Append(s, e) \in Seq(S) /\ Len(Append(s, e)) = Len(s) + 1
      /\ \A i \in 1..Len(s) : Append(s, e)[i] = s[i]
      /\ Append(s, e)[Len(s) + 1] = e
  BY AppendProperties
<1>2. /\ DOMAIN Append(s, e) = 1..(Len(s) + 1) /\ DOMAIN s = 1..Len(s)
      /\ Len(s) \in Nat
  BY <1>1, LenProperties
<1>3. ASSUME NEW x \in Elems(Append(s, e)) PROVE x \in Elems(s) \cup {e}
  <2>1. PICK i \in 1..(Len(s) + 1) : Append(s, e)[i] = x
    BY <1>2 DEF Elems
  <2>2. i \in 1..Len(s) \/ i = Len(s) + 1
    BY <1>2
  <2> QED BY <1>1, <1>2, <2>1, <2>2 DEF Elems
<1>4. ASSUME NEW x \in Elems(s) PROVE x \in Elems(Append(s, e))
  <2>1. PICK i \in 1..Len(s) : s[i] = x
    BY <1>2 DEF Elems
  <2>2. i \in 1..(Len(s) + 1) /\ Append(s, e)[i] = x
    BY <1>1, <1>2, <2>1
  <2> QED BY <1>2, <2>2 DEF Elems
<1>5. e \in Elems(Append(s, e))
  <2>1. Len(s) + 1 \in 1..(Len(s) + 1)
    BY <1>2
  <2> QED BY <1>1, <1>2, <2>1 DEF Elems
<1> QED BY <1>1, <1>3, <1>4, <1>5

(* RPOP takes out its entry and no other.                                    *)
LEMMA TailElems ==
  ASSUME NEW S, NEW s \in Seq(S), s # <<>>
  PROVE  /\ Head(s) \in S /\ Tail(s) \in Seq(S)
         /\ Elems(s) = Elems(Tail(s)) \cup {Head(s)}
<1>1. /\ Head(s) \in S /\ Tail(s) \in Seq(S) /\ Len(Tail(s)) = Len(s) - 1
      /\ \A i \in 1..Len(Tail(s)) : Tail(s)[i] = s[i + 1]
      /\ Len(s) \in Nat \ {0}
  BY HeadTailProperties, EmptySeq
<1>2. /\ DOMAIN s = 1..Len(s) /\ DOMAIN Tail(s) = 1..(Len(s) - 1)
      /\ Head(s) = s[1]
  BY <1>1, LenProperties
<1>3. ASSUME NEW x \in Elems(s) PROVE x \in Elems(Tail(s)) \cup {Head(s)}
  <2>1. PICK i \in 1..Len(s) : s[i] = x
    BY <1>2 DEF Elems
  <2>2. CASE i = 1
    BY <1>2, <2>1, <2>2
  <2>3. CASE i # 1
    <3>1. i - 1 \in 1..(Len(s) - 1) /\ Tail(s)[i - 1] = s[i]
      BY <1>1, <2>3
    <3> QED BY <1>2, <2>1, <3>1 DEF Elems
  <2> QED BY <2>2, <2>3
<1>4. ASSUME NEW x \in Elems(Tail(s)) PROVE x \in Elems(s)
  <2>1. PICK i \in 1..(Len(s) - 1) : Tail(s)[i] = x
    BY <1>2 DEF Elems
  <2>2. i + 1 \in 1..Len(s) /\ s[i + 1] = x
    BY <1>1, <2>1
  <2> QED BY <1>2, <2>2 DEF Elems
<1>5. Head(s) \in Elems(s)
  BY <1>1, <1>2 DEF Elems
<1> QED BY <1>1, <1>3, <1>4, <1>5

(* RPUSH adds its entry.                                                     *)
LEMMA PushElems ==
  ASSUME NEW S, NEW s \in Seq(S), NEW e \in S
  PROVE  /\ <<e>> \o s \in Seq(S)
         /\ Elems(<<e>> \o s) = Elems(s) \cup {e}
<1>1. <<e>> \in Seq(S) /\ Len(<<e>>) = 1 /\ <<e>>[1] = e
  OBVIOUS
<1>2. /\ <<e>> \o s \in Seq(S) /\ Len(<<e>> \o s) = 1 + Len(s)
      /\ \A i \in 1..(1 + Len(s)) : (<<e>> \o s)[i] = IF i <= 1 THEN <<e>>[i] ELSE s[i - 1]
  BY <1>1, ConcatProperties
<1>3. /\ DOMAIN (<<e>> \o s) = 1..(1 + Len(s)) /\ DOMAIN s = 1..Len(s)
      /\ Len(s) \in Nat
  BY <1>2, LenProperties
<1> DEFINE es == <<e>> \o s
<1>9. es \in Seq(S)
  BY <1>2
<1> HIDE DEF es
<1>4. /\ es[1] = e /\ 1 \in 1..(1 + Len(s))
      /\ \A i \in 1..Len(s) : i + 1 \in 1..(1 + Len(s)) /\ es[i + 1] = s[i]
      /\ \A i \in 1..(1 + Len(s)) : i = 1 \/ (i - 1 \in 1..Len(s) /\ es[i] = s[i - 1])
  <2>1. 1 \in 1..(1 + Len(s))
    BY <1>3
  <2>2. es[1] = e
    BY <1>1, <1>2, <2>1 DEF es
  <2>3. ASSUME NEW i \in 1..Len(s)
        PROVE  i + 1 \in 1..(1 + Len(s)) /\ es[i + 1] = s[i]
    <3>1. i + 1 \in 1..(1 + Len(s)) /\ ~(i + 1 <= 1) /\ (i + 1) - 1 = i
      BY <1>3
    <3> QED BY <1>2, <3>1 DEF es
  <2>4. ASSUME NEW i \in 1..(1 + Len(s))
        PROVE  i = 1 \/ (i - 1 \in 1..Len(s) /\ es[i] = s[i - 1])
    <3>1. CASE i = 1
      BY <3>1
    <3>2. CASE i # 1
      <4>1. i - 1 \in 1..Len(s) /\ ~(i <= 1)
        BY <1>3, <3>2
      <4> QED BY <1>2, <4>1 DEF es
    <3> QED BY <3>1, <3>2
  <2> QED BY <2>1, <2>2, <2>3, <2>4
<1>8. DOMAIN es = 1..(1 + Len(s)) /\ DOMAIN s = 1..Len(s)
  BY <1>3 DEF es
<1>5. ASSUME NEW x \in Elems(es) PROVE x \in Elems(s) \cup {e}
  <2>1. PICK i \in 1..(1 + Len(s)) : es[i] = x
    BY <1>8 DEF Elems
  <2> QED BY <1>8, <1>4, <2>1 DEF Elems
<1>6. ASSUME NEW x \in Elems(s) PROVE x \in Elems(es)
  <2>1. PICK i \in 1..Len(s) : s[i] = x
    BY <1>8 DEF Elems
  <2>2. i + 1 \in DOMAIN es /\ es[i + 1] = x
    BY <1>8, <1>4, <2>1
  <2> QED BY <2>2 DEF Elems
<1>7. e \in Elems(es)
  BY <1>8, <1>4 DEF Elems
<1> QED BY <1>9, <1>5, <1>6, <1>7 DEF es

(* LREM leaves every entry but the one it removes, and adds none.            *)
LEMMA WithoutElems ==
  ASSUME NEW S, NEW s \in Seq(S), NEW m
  PROVE  /\ Without(s, m) \in Seq(S)
         /\ Elems(s) \subseteq Elems(Without(s, m)) \cup {m}
         /\ Elems(Without(s, m)) \subseteq Elems(s)
<1>1. CASE m \in Elems(s)
  <2> DEFINE i == CHOOSE j \in DOMAIN s : s[j] = m
             a == SubSeq(s, 1, i - 1)
             b == SubSeq(s, i + 1, Len(s))
  <2>1. i \in DOMAIN s /\ s[i] = m
    BY <1>1 DEF Elems
  <2>2. DOMAIN s = 1..Len(s) /\ Len(s) \in Nat /\ i \in 1..Len(s)
    BY <2>1, LenProperties
  <2>6. Without(s, m) = a \o b
    BY <1>1 DEF Without
  <2> HIDE DEF i
  <2>3. /\ a \in Seq(S) /\ Len(a) = i - 1
        /\ \A k \in 1..(i - 1) : a[k] = s[k]
    <3>1. \A k \in 1..(i - 1) : s[k] \in S
      BY <2>2, ElementOfSeq
    <3>2. 1 \in Int /\ i - 1 \in Int
      BY <2>2
    <3>3. /\ a \in Seq(S) /\ Len(a) = IF 1 <= i - 1 THEN i - 1 - 1 + 1 ELSE 0
          /\ \A k \in 1..(i - 1 - 1 + 1) : a[k] = s[1 + k - 1]
      BY <3>1, <3>2, SubSeqProperties
    <3> HIDE DEF a
    <3> QED BY <2>2, <3>3
  <2>4. /\ b \in Seq(S) /\ Len(b) = Len(s) - i
        /\ \A k \in 1..(Len(s) - i) : b[k] = s[i + k]
    <3>1. \A k \in (i + 1)..Len(s) : s[k] \in S
      BY <2>2, ElementOfSeq
    <3>2. i + 1 \in Int /\ Len(s) \in Int
      BY <2>2
    <3>3. /\ b \in Seq(S)
          /\ Len(b) = IF i + 1 <= Len(s) THEN Len(s) - (i + 1) + 1 ELSE 0
          /\ \A k \in 1..(Len(s) - (i + 1) + 1) : b[k] = s[(i + 1) + k - 1]
      BY <3>1, <3>2, SubSeqProperties
    <3> HIDE DEF b
    <3>4. Len(s) - (i + 1) + 1 = Len(s) - i
      BY <2>2
    <3>5. Len(b) = Len(s) - i
      <4>1. CASE i = Len(s)
        BY <2>2, <3>3, <4>1
      <4>2. CASE i < Len(s)
        <5>1. i + 1 <= Len(s)
          BY <2>2, <4>2
        <5> QED BY <3>3, <3>4, <5>1
      <4>3. i = Len(s) \/ i < Len(s)
        <5>1. i \in Int /\ Len(s) \in Int /\ i <= Len(s)
          BY <2>2
        <5> QED BY <5>1
      <4> QED BY <4>1, <4>2, <4>3
    <3>6. ASSUME NEW k \in 1..(Len(s) - i) PROVE b[k] = s[i + k]
      <4>1. (i + 1) + k - 1 = i + k
        BY <2>2
      <4> QED BY <3>3, <3>4, <4>1
    <3> QED BY <3>3, <3>5, <3>6
  <2> HIDE DEF a, b
  <2>8. /\ a \o b \in Seq(S) /\ Len(a \o b) = Len(a) + Len(b)
        /\ \A k \in 1..(Len(a) + Len(b)) : (a \o b)[k] = IF k <= Len(a) THEN a[k] ELSE b[k - Len(a)]
    BY <2>3, <2>4, ConcatProperties
  <2>5. /\ DOMAIN (a \o b) = 1..(Len(s) - 1)
        /\ \A k \in 1..(i - 1) : (a \o b)[k] = s[k]
        /\ \A k \in (i + 1)..Len(s) : (a \o b)[k - 1] = s[k]
    <3>1. DOMAIN (a \o b) = 1..(Len(s) - 1)
      <4>1. DOMAIN (a \o b) = 1..Len(a \o b)
        BY <2>8, LenProperties
      <4>2. Len(a \o b) = Len(s) - 1
        BY <2>2, <2>3, <2>4, <2>8
      <4> QED BY <4>1, <4>2
    <3>2. ASSUME NEW k \in 1..(i - 1) PROVE (a \o b)[k] = s[k]
      <4>1. k \in 1..(Len(a) + Len(b)) /\ k <= Len(a)
        BY <2>2, <2>3, <2>4
      <4> QED BY <2>3, <2>8, <4>1
    <3>3. ASSUME NEW k \in (i + 1)..Len(s) PROVE (a \o b)[k - 1] = s[k]
      <4>1. /\ k - 1 \in 1..(Len(a) + Len(b)) /\ ~(k - 1 <= Len(a))
            /\ k - 1 - Len(a) \in 1..(Len(s) - i) /\ i + (k - 1 - Len(a)) = k
        BY <2>2, <2>3, <2>4
      <4> QED BY <2>4, <2>8, <4>1
    <3> QED BY <3>1, <3>2, <3>3
  <2>7. ASSUME NEW x \in Elems(s), x # m
        PROVE  x \in Elems(a \o b)
    <3>1. PICK k \in 1..Len(s) : s[k] = x
      BY <2>2 DEF Elems
    <3>2. k # i
      BY <2>1, <2>7, <3>1
    <3>3. \E j \in 1..(Len(s) - 1) : (a \o b)[j] = x
      <4>1. CASE k < i
        <5>1. k \in 1..(i - 1) /\ k \in 1..(Len(s) - 1)
          BY <2>2, <4>1
        <5> QED BY <2>5, <3>1, <5>1
      <4>2. CASE k > i
        <5>1. k \in (i + 1)..Len(s) /\ k - 1 \in 1..(Len(s) - 1)
          BY <2>2, <4>2
        <5> QED BY <2>5, <3>1, <5>1
      <4>3. k < i \/ k > i
        BY <2>2, <3>2
      <4> QED BY <4>1, <4>2, <4>3
    <3> QED BY <2>5, <3>3 DEF Elems
  <2> DEFINE ab == a \o b
  <2>9. /\ DOMAIN ab = 1..(Len(s) - 1)
        /\ \A k \in 1..(i - 1) : ab[k] = s[k]
        /\ \A k \in (i + 1)..Len(s) : ab[k - 1] = s[k]
    BY <2>5
  <2> HIDE DEF ab
  <2>10. ASSUME NEW x \in Elems(ab)
        PROVE  x \in Elems(s)
    <3>1. PICK k \in 1..(Len(s) - 1) : ab[k] = x
      BY <2>9 DEF Elems
    <3>4. \E j \in 1..Len(s) : s[j] = x
      <4>1. CASE k < i
        <5>1. k \in 1..(i - 1) /\ k \in 1..Len(s)
          BY <2>2, <4>1
        <5> QED BY <2>9, <3>1, <5>1
      <4>2. CASE ~(k < i)
        <5>1. k + 1 \in (i + 1)..Len(s) /\ k + 1 \in 1..Len(s) /\ (k + 1) - 1 = k
          BY <2>2, <4>2
        <5>2. s[k + 1] = x
          BY <2>9, <3>1, <5>1
        <5> QED BY <5>1, <5>2
      <4> QED BY <4>1, <4>2
    <3> QED BY <2>2, <3>4 DEF Elems
  <2>11. /\ ab \in Seq(S) /\ Without(s, m) = ab
         /\ \A x \in Elems(s) : x # m => x \in Elems(ab)
    <3>1. ab \in Seq(S) /\ Without(s, m) = ab
      BY <2>6, <2>8 DEF ab
    <3> QED BY <2>7, <3>1 DEF ab
  <2> QED BY <2>10, <2>11
<1>2. CASE m \notin Elems(s)
  BY <1>2 DEF Without
<1> QED BY <1>1, <1>2

-------------------------------------------------------------------------------
(* The types.                                                                *)

(* A step of one program counter.                                            *)
LEMMA GotoType ==
  ASSUME NEW p \in Procs, NEW pc \in PC, w \in [Procs -> PC], Goto(p, pc)
  PROVE  w' \in [Procs -> PC]
BY DEF Goto

LEMMA Labels ==
  /\ {"none", "top", "expire", "take", "start", "handle", "ack", "clear",
      "sleep", "len", "get", "del", "len2", "rekick"} \subseteq PC
  /\ {"none", "push", "kick"} \subseteq Stages
  /\ {"crash", "stop", "fault", "long"} \subseteq Kinds
BY DEF PC, Stages, Kinds

LEMMA CountType ==
  ASSUME NEW k \in Kinds, n \in [Kinds -> Nat], Count(k)
  PROVE  n' \in [Kinds -> Nat]
BY DEF Count

(* An incident is counted in the step in which it happens.                   *)
LEMMA CountStep == [Next]_vars => n' = n \/ \E k \in Kinds : Count(k)
<1> SUFFICES ASSUME [Next]_vars PROVE n' = n \/ \E k \in Kinds : Count(k)
  OBVIOUS
<1>1. ASSUME NEW p \in Procs, NEW m \in Msgs, Deliver(p, m) \/ Push(p, m) \/ Kick(p, m)
      PROVE  n' = n
  BY <1>1 DEF Deliver, Push, Kick
<1>2. ASSUME NEW p \in Procs, Reclaim(p) PROVE n' = n
  BY <1>2 DEF Reclaim, ReclaimPop, ReclaimPush, Spawn
<1>3. ASSUME NEW p \in Procs, Consume(p) PROVE n' = n
  BY <1>3 DEF Consume, RefreshGet, RefreshExpire, Take, Start, Finish, Ack, Clear, Wake,
              CheckLen, ReleaseGet, ReleaseDel, CheckBacklog, Rekick
<1>4. ASSUME NEW p \in Procs, Overrun(p) \/ Crash(p) \/ Shutdown(p) \/ Fault(p)
      PROVE  \E k \in Kinds : Count(k)
  BY <1>4, Labels DEF Overrun, Crash, Shutdown, Fault
<1>5. ASSUME NEW p \in Procs, Exit(p) PROVE n' = n
  BY <1>5 DEF Exit
<1>6. CASE Lapse \/ ActiveLapse \/ UNCHANGED vars
  BY <1>6 DEF Lapse, ActiveLapse, vars
<1> QED BY <1>1, <1>2, <1>3, <1>4, <1>5, <1>6 DEF Next, Callback

LEMMA ForgetType ==
  ASSUME TypeOK, NEW p \in Procs, Forget(p), n' \in [Kinds -> Nat]
  PROVE  TypeOK'
<1>1. /\ cb' \in [Procs -> [Msgs -> Stages]]
      /\ guard' \in [Procs -> Msgs \cup {None}] /\ hand' \in [Procs -> Msgs \cup {None}]
      /\ w' \in [Procs -> PC] /\ job' \in [Procs -> Msgs \cup {None}]
  <2>1. [m \in Msgs |-> "none"] \in [Msgs -> Stages]
    BY Labels
  <2>2. cb' \in [Procs -> [Msgs -> Stages]]
    BY <2>1 DEF TypeOK, Forget
  <2> QED BY <2>2, Labels DEF TypeOK, Forget
<1>2. due' \subseteq Procs /\ cancelled' \subseteq Procs /\ stopping' \subseteq Procs
  BY DEF TypeOK, Forget
<1>3. UNCHANGED <<redis, sent, aged, hist>>
  BY DEF Forget
<1> QED BY <1>1, <1>2, <1>3 DEF TypeOK, redis, hist

LEMMA TypeInit == Init => TypeOK
<1> SUFFICES ASSUME Init PROVE TypeOK
  OBVIOUS
<1>1. q \in Seq(Msgs) /\ proc \in Seq(Msgs) /\ pushed \in Seq(Msgs)
  BY EmptySeq DEF Init
<1>2. cb \in [Procs -> [Msgs -> Stages]] /\ w \in [Procs -> PC]
  BY Labels DEF Init
<1>3. n \in [Kinds -> Nat] /\ sent \in [Msgs -> 0..Sends] /\ starts \in [Msgs -> 0..Cap]
  BY QueueAssumption DEF Init
<1>4. /\ guard \in [Procs -> Msgs \cup {None}] /\ hand \in [Procs -> Msgs \cup {None}]
      /\ job \in [Procs -> Msgs \cup {None}]
  BY DEF Init
<1> QED BY <1>1, <1>2, <1>3, <1>4 DEF Init, TypeOK

LEMMA TypeStep == TypeOK /\ JobHeld /\ [Next]_vars => TypeOK'
<1> SUFFICES ASSUME TypeOK, JobHeld, [Next]_vars PROVE TypeOK'
  OBVIOUS
<1> USE DEF redis, local, hist
<1>1. ASSUME NEW p \in Procs, NEW m \in Msgs, Deliver(p, m) PROVE TypeOK'
  <2>1. sent' \in [Msgs -> 0..Sends]
    BY <1>1, QueueAssumption DEF TypeOK, Deliver
  <2>2. cb' \in [Procs -> [Msgs -> Stages]]
    BY <1>1, Labels DEF TypeOK, Deliver
  <2> QED BY <1>1, <2>1, <2>2 DEF TypeOK, Deliver
<1>2. ASSUME NEW p \in Procs, NEW m \in Msgs, Push(p, m) PROVE TypeOK'
  <2>1. cb' \in [Procs -> [Msgs -> Stages]]
    BY <1>2, Labels DEF TypeOK, Push
  <2>2. q' \in Seq(Msgs) /\ pushed' \in Seq(Msgs)
    BY <1>2, AppendElems DEF TypeOK, Push
  <2> QED BY <1>2, <2>1, <2>2 DEF TypeOK, Push
<1>3. ASSUME NEW p \in Procs, NEW m \in Msgs, Kick(p, m) PROVE TypeOK'
  <2>1. cb' \in [Procs -> [Msgs -> Stages]]
    BY <1>3, Labels DEF TypeOK, Kick
  <2>2. /\ lock' \in Procs \cup {None} /\ aged' \in BOOLEAN
        /\ guard' \in [Procs -> Msgs \cup {None}]
    BY <1>3 DEF TypeOK, Kick
  <2> QED BY <1>3, <2>1, <2>2 DEF TypeOK, Kick
<1>4. ASSUME NEW p \in Procs, ReclaimPop(p) PROVE TypeOK'
  <2>1. Head(proc) \in Msgs /\ Tail(proc) \in Seq(Msgs)
    BY <1>4, TailElems DEF TypeOK, ReclaimPop
  <2> QED BY <1>4, <2>1 DEF TypeOK, ReclaimPop
<1>5. ASSUME NEW p \in Procs, ReclaimPush(p) PROVE TypeOK'
  <2>1. hand[p] \in Msgs
    BY <1>5 DEF TypeOK, ReclaimPush
  <2>2. q' \in Seq(Msgs)
    BY <1>5, <2>1, PushElems DEF TypeOK, ReclaimPush
  <2> QED BY <1>5, <2>2 DEF TypeOK, ReclaimPush
<1>6. ASSUME NEW p \in Procs, Spawn(p) PROVE TypeOK'
  <2>1. w' \in [Procs -> PC]
    BY <1>6, Labels DEF TypeOK, Spawn
  <2> QED BY <1>6, <2>1 DEF TypeOK, Spawn
<1>7. ASSUME NEW p \in Procs,
             RefreshGet(p) \/ RefreshExpire(p) \/ Finish(p) \/ Wake(p) \/ CheckLen(p)
               \/ ReleaseGet(p) \/ ReleaseDel(p) \/ CheckBacklog(p) \/ Rekick(p)
      PROVE TypeOK'
  <2>1. w' \in [Procs -> PC]
    <3>1. PICK pc \in PC : Goto(p, pc)
      BY <1>7, Labels DEF RefreshGet, RefreshExpire, Finish, Wake, CheckLen, ReleaseGet,
                          ReleaseDel, CheckBacklog, Rekick
    <3> QED BY <3>1, GotoType DEF TypeOK
  <2>2. CASE Finish(p)
    <3>1. job[p] \in Msgs
      BY <2>2 DEF JobHeld, Finish
    <3> QED BY <2>1, <2>2, <3>1 DEF TypeOK, Finish
  <2>3. CASE RefreshExpire(p) \/ ReleaseDel(p)
    BY <2>1, <2>3 DEF TypeOK, RefreshExpire, ReleaseDel
  <2> QED
    BY <1>7, <2>1, <2>2, <2>3 DEF TypeOK, RefreshGet, Wake, CheckLen, ReleaseGet,
                          CheckBacklog, Rekick
<1>8. ASSUME NEW p \in Procs, Take(p) PROVE TypeOK'
  <2>1. CASE q = <<>>
    <3>1. w' \in [Procs -> PC]
      BY <1>8, <2>1, Labels, GotoType DEF TypeOK, Take
    <3> QED BY <1>8, <2>1, <3>1 DEF TypeOK, Take
  <2>2. CASE q # <<>>
    <3>1. w' \in [Procs -> PC]
      BY <1>8, <2>2, Labels, GotoType DEF TypeOK, Take
    <3>2. Head(q) \in Msgs /\ Tail(q) \in Seq(Msgs) /\ Append(proc, Head(q)) \in Seq(Msgs)
      BY <2>2, TailElems, AppendElems DEF TypeOK
    <3>3. job' \in [Procs -> Msgs \cup {None}]
      BY <1>8, <2>2, <3>2 DEF TypeOK, Take
    <3> QED BY <1>8, <2>2, <3>1, <3>2, <3>3 DEF TypeOK, Take
  <2> QED BY <2>1, <2>2
<1>9. ASSUME NEW p \in Procs, Start(p) PROVE TypeOK'
  <2>1. w' \in [Procs -> PC]
    BY <1>9, Labels, GotoType DEF TypeOK, Start
  <2>2. starts' \in [Msgs -> 0..Cap]
    <3>1. job[p] \in Msgs /\ starts[job[p]] \in 0..Cap /\ Cap \in Nat
      BY <1>9, QueueAssumption DEF TypeOK, JobHeld, Start
    <3>2. (IF starts[job[p]] < Cap THEN starts[job[p]] + 1 ELSE starts[job[p]]) \in 0..Cap
      BY <3>1
    <3> QED BY <1>9, <3>2 DEF TypeOK, Start
  <2> QED BY <1>9, <2>1, <2>2 DEF TypeOK, Start
<1>10. ASSUME NEW p \in Procs, Overrun(p) PROVE TypeOK'
  <2>1. n' \in [Kinds -> Nat]
    BY <1>10, Labels, CountType DEF TypeOK, Overrun
  <2> QED BY <1>10, <2>1 DEF TypeOK, Overrun
<1>11. ASSUME NEW p \in Procs, Ack(p) PROVE TypeOK'
  <2>1. w' \in [Procs -> PC]
    BY <1>11, Labels, GotoType DEF TypeOK, Ack
  <2>2. proc' \in Seq(Msgs)
    BY <1>11, WithoutElems DEF TypeOK, Ack
  <2> QED BY <1>11, <2>1, <2>2 DEF TypeOK, Ack
<1>12. ASSUME NEW p \in Procs, Clear(p) PROVE TypeOK'
  <2>1. w' \in [Procs -> PC]
    BY <1>12, Labels, GotoType DEF TypeOK, Clear
  <2> QED BY <1>12, <2>1 DEF TypeOK, Clear
<1>13. ASSUME NEW p \in Procs, Crash(p) \/ Exit(p) PROVE TypeOK'
  <2>1. n' \in [Kinds -> Nat]
    BY <1>13, Labels, CountType DEF TypeOK, Crash, Exit
  <2> QED BY <1>13, <2>1, ForgetType DEF Crash, Exit
<1>14. ASSUME NEW p \in Procs, Shutdown(p) PROVE TypeOK'
  <2>1. n' \in [Kinds -> Nat]
    BY <1>14, Labels, CountType DEF TypeOK, Shutdown
  <2>2. w' \in [Procs -> PC]
    <3>1. Cancelled(w[p]) \in PC
      BY Labels DEF Cancelled
    <3> QED BY <1>14, <3>1, GotoType DEF TypeOK, Shutdown
  <2>3. q' \in Seq(Msgs) /\ proc' \in Seq(Msgs)
    <3>1. CASE UNCHANGED <<q, proc>>
      BY <3>1 DEF TypeOK
    <3>2. CASE q # <<>> /\ q' = Tail(q) /\ proc' = Append(proc, Head(q))
      BY <3>2, TailElems, AppendElems DEF TypeOK
    <3> QED BY <1>14, <3>1, <3>2 DEF Shutdown
  <2>4. job' \in [Procs -> Msgs \cup {None}]
    BY <1>14 DEF TypeOK, Shutdown
  <2>5. /\ due' \subseteq Procs /\ cancelled' \subseteq Procs /\ stopping' \subseteq Procs
        /\ UNCHANGED <<lock, dedupe, active, sent, cb, guard, hand, aged, hist>>
    BY <1>14 DEF TypeOK, Shutdown
  <2> QED BY <2>1, <2>2, <2>3, <2>4, <2>5 DEF TypeOK
<1>15. ASSUME NEW p \in Procs, Fault(p) PROVE TypeOK'
  <2>1. n' \in [Kinds -> Nat]
    BY <1>15, Labels, CountType DEF TypeOK, Fault
  <2>2. w' \in [Procs -> PC]
    BY <1>15, Labels, GotoType DEF TypeOK, Fault
  <2>3. cb' \in [Procs -> [Msgs -> Stages]]
    <3>1. ASSUME NEW m \in Msgs PROVE [cb EXCEPT ![p][m] = "none"] \in [Procs -> [Msgs -> Stages]]
      BY Labels DEF TypeOK
    <3>2. cb' = cb \/ \E m \in Msgs : cb' = [cb EXCEPT ![p][m] = "none"]
      BY <1>15 DEF Fault
    <3> QED BY <3>1, <3>2 DEF TypeOK
  <2>4. /\ guard' \in [Procs -> Msgs \cup {None}] /\ hand' \in [Procs -> Msgs \cup {None}]
        /\ job' \in [Procs -> Msgs \cup {None}]
    BY <1>15 DEF TypeOK, Fault
  <2>5. UNCHANGED <<redis, sent, due, cancelled, stopping, aged, hist>>
    BY <1>15 DEF Fault
  <2> QED BY <2>1, <2>2, <2>3, <2>4, <2>5 DEF TypeOK
<1>16. CASE Lapse \/ ActiveLapse
  BY <1>16 DEF TypeOK, Lapse, ActiveLapse
<1>17. CASE UNCHANGED vars
  BY <1>17 DEF TypeOK, vars
<1> QED
  BY <1>1, <1>2, <1>3, <1>4, <1>5, <1>6, <1>7, <1>8, <1>9, <1>10, <1>11, <1>12,
     <1>13, <1>14, <1>15, <1>16, <1>17 DEF Next, Callback, Reclaim, Consume

LEMMA JobStep == TypeOK /\ JobHeld /\ [Next]_vars => JobHeld'
<1> SUFFICES ASSUME TypeOK, JobHeld, [Next]_vars,
                    NEW r \in Procs, w'[r] \in {"start", "handle", "ack", "clear"}
             PROVE  job'[r] \in Msgs
  BY DEF JobHeld
<1>0. /\ w \in [Procs -> PC] /\ job \in [Procs -> Msgs \cup {None}]
      /\ w[r] \in {"start", "handle", "ack", "clear"} => job[r] \in Msgs
  BY DEF TypeOK, JobHeld
<1> USE DEF redis, local, hist, Goto
<1>1. CASE w'[r] = w[r] /\ job'[r] = job[r]
  BY <1>0, <1>1
<1>2. ASSUME NEW p \in Procs, Take(p) PROVE job'[r] \in Msgs
  <2>1. q # <<>> => Head(q) \in Msgs
    BY TailElems DEF TypeOK
  <2> QED BY <1>0, <1>2, <2>1 DEF Take
<1>3. ASSUME NEW p \in Procs, Start(p) \/ Finish(p) \/ Ack(p) PROVE job'[r] \in Msgs
  BY <1>0, <1>3 DEF Start, Finish, Ack
<1>4. ASSUME NEW p \in Procs,
             Clear(p) \/ Spawn(p) \/ RefreshGet(p) \/ RefreshExpire(p) \/ Wake(p)
               \/ CheckLen(p) \/ ReleaseGet(p) \/ ReleaseDel(p) \/ CheckBacklog(p) \/ Rekick(p)
      PROVE job'[r] \in Msgs
  BY <1>0, <1>4 DEF Clear, Spawn, RefreshGet, RefreshExpire, Wake, CheckLen, ReleaseGet,
                    ReleaseDel, CheckBacklog, Rekick
<1>5. ASSUME NEW p \in Procs, Shutdown(p) PROVE job'[r] \in Msgs
  BY <1>0, <1>5 DEF Shutdown, Cancelled, Owning
<1>6. ASSUME NEW p \in Procs, Fault(p) PROVE job'[r] \in Msgs
  BY <1>0, <1>6 DEF Fault
<1>7. ASSUME NEW p \in Procs, Crash(p) \/ Exit(p) PROVE job'[r] \in Msgs
  BY <1>0, <1>7 DEF Crash, Exit, Forget
<1>8. ASSUME NEW p \in Procs, NEW m \in Msgs, Deliver(p, m) \/ Push(p, m) \/ Kick(p, m)
      PROVE job'[r] \in Msgs
  BY <1>0, <1>8 DEF Deliver, Push, Kick
<1>9. ASSUME NEW p \in Procs, ReclaimPop(p) \/ ReclaimPush(p) \/ Overrun(p)
      PROVE job'[r] \in Msgs
  BY <1>0, <1>9 DEF ReclaimPop, ReclaimPush, Overrun
<1>10. CASE Lapse \/ ActiveLapse \/ UNCHANGED vars
  BY <1>0, <1>10 DEF Lapse, ActiveLapse, vars
<1> QED
  BY <1>2, <1>3, <1>4, <1>5, <1>6, <1>7, <1>8, <1>9, <1>10
     DEF Next, Callback, Reclaim, Consume

(* Every variable keeps to its type, whatever the processes do.              *)
THEOREM TypeCorrect == Spec => []TypeInv
<1>1. Init => TypeInv
  BY TypeInit DEF Init, JobHeld, TypeInv
<1>2. TypeInv /\ [Next]_vars => TypeInv'
  BY TypeStep, JobStep DEF TypeInv
<1> QED BY <1>1, <1>2, PTL DEF Spec

-------------------------------------------------------------------------------
(* The lock.                                                                 *)

LEMMA LockInit == Init => LockInv
BY DEF Init, LockInv, Reclaiming, Owning

LEMMA LockStep == TypeOK /\ LockInv /\ [Next]_vars => LockInv'
<1> SUFFICES ASSUME TypeOK, LockInv, [Next]_vars PROVE LockInv'
  OBVIOUS
<1> USE QueueAssumption DEF redis, local, hist, Goto, Reclaiming, Owning
<1>0. /\ w \in [Procs -> PC] /\ guard \in [Procs -> Msgs \cup {None}]
      /\ n \in [Kinds -> Nat] /\ lock \in Procs \cup {None} /\ None \notin Procs
  BY DEF TypeOK
<1>1. ASSUME NEW p \in Procs, NEW m \in Msgs, Deliver(p, m) \/ Push(p, m)
      PROVE LockInv'
  BY <1>0, <1>1 DEF LockInv, Deliver, Push
<1>2. ASSUME NEW p \in Procs, NEW m \in Msgs, Kick(p, m) PROVE LockInv'
  BY <1>0, <1>2 DEF LockInv, Kick
<1>3. ASSUME NEW p \in Procs, ReclaimPop(p) \/ ReclaimPush(p) PROVE LockInv'
  BY <1>0, <1>3 DEF LockInv, ReclaimPop, ReclaimPush
<1>4. ASSUME NEW p \in Procs, Spawn(p) PROVE LockInv'
  BY <1>0, <1>4 DEF LockInv, Spawn
<1>5. ASSUME NEW p \in Procs, RefreshGet(p) \/ RefreshExpire(p) PROVE LockInv'
  BY <1>0, <1>5 DEF LockInv, RefreshGet, RefreshExpire
<1>6. ASSUME NEW p \in Procs, Take(p) PROVE LockInv'
  BY <1>0, <1>6 DEF LockInv, Take
<1>7. ASSUME NEW p \in Procs,
             Start(p) \/ Finish(p) \/ Ack(p) \/ Clear(p) \/ Wake(p) \/ CheckLen(p)
      PROVE LockInv'
  BY <1>0, <1>7 DEF LockInv, Start, Finish, Ack, Clear, Wake, CheckLen
<1>8. ASSUME NEW p \in Procs,
             ReleaseGet(p) \/ ReleaseDel(p) \/ CheckBacklog(p) \/ Rekick(p)
      PROVE LockInv'
  BY <1>0, <1>8 DEF LockInv, ReleaseGet, ReleaseDel, CheckBacklog, Rekick
<1>9. ASSUME NEW p \in Procs, Overrun(p) PROVE LockInv'
  BY <1>0, <1>9 DEF LockInv, Overrun, Count, Kinds
<1>10. ASSUME NEW p \in Procs, Crash(p) \/ Exit(p) PROVE LockInv'
  <2>1. n'["long"] = n["long"]
    BY <1>0, <1>10 DEF Crash, Exit, Count, Kinds
  <2> QED BY <1>0, <1>10, <2>1 DEF LockInv, Crash, Exit, Forget
<1>11. ASSUME NEW p \in Procs, Shutdown(p) PROVE LockInv'
  <2>1. n'["long"] = n["long"]
    BY <1>0, <1>11 DEF Shutdown, Count, Kinds
  <2> QED BY <1>0, <1>11, <2>1 DEF LockInv, Shutdown, Cancelled
<1>12. ASSUME NEW p \in Procs, Fault(p) PROVE LockInv'
  <2>1. n'["long"] = n["long"]
    BY <1>0, <1>12 DEF Fault, Count, Kinds
  <2> QED BY <1>0, <1>12, <2>1 DEF LockInv, Fault
<1>13. CASE Lapse
  BY <1>0, <1>13 DEF LockInv, Lapse, Orphaned
<1>14. CASE ActiveLapse \/ UNCHANGED vars
  BY <1>0, <1>14 DEF LockInv, ActiveLapse, vars
<1> QED
  BY <1>1, <1>2, <1>3, <1>4, <1>5, <1>6, <1>7, <1>8, <1>9, <1>10, <1>11, <1>12,
     <1>13, <1>14 DEF Next, Callback, Reclaim, Consume

(* Two consumers, or a consumer and a reclaimer, never work at the same time *)
(* as long as no handler outlives the TTL of the lock: everybody who works   *)
(* owns the lock, and a lock has one owner.                                  *)
THEOREM OneConsumerCorrect == Spec => []OneConsumer
<1>1. LockInv => OneConsumer
  BY DEF LockInv, OneConsumer, Working
<1>2. TypeInv => TypeOK
  BY DEF TypeInv
<1> QED
  BY <1>1, <1>2, LockInit, LockStep, TypeCorrect, PTL DEF Spec

-------------------------------------------------------------------------------
(* The jobs.                                                                 *)

Hands == {hand[p] : p \in Procs}

LEMMA KeptInit == Init => KeptInv
<1> SUFFICES ASSUME Init PROVE KeptInv
  OBVIOUS
<1>1. Elems(pushed) = {}
  BY DEF Init, Elems
<1>2. stopping = {} /\ \A p \in Procs : w[p] # "ack"
  BY DEF Init
<1> QED BY <1>1, <1>2 DEF KeptInv, Missing

LEMMA KeptStep == TypeOK /\ TypeOK' /\ KeptInv /\ [Next]_vars => KeptInv'
<1> SUFFICES ASSUME TypeOK, TypeOK', KeptInv, [Next]_vars, Mishaps' = 0
             PROVE  /\ Missing' = {}
                    /\ stopping' = {}
                    /\ \A p \in Procs : w'[p] = "ack" => job'[p] \in handled'
  BY DEF KeptInv
<1> DEFINE Goal == /\ Missing' = {}
                   /\ stopping' = {}
                   /\ \A p \in Procs : w'[p] = "ack" => job'[p] \in handled'
           Kept == Elems(pushed)' \subseteq (handled \cup Elems(q) \cup Elems(proc) \cup Hands)'
<1> USE DEF redis, local, hist, Goto
<1>0. /\ n \in [Kinds -> Nat] /\ n' \in [Kinds -> Nat]
      /\ w \in [Procs -> PC] /\ hand \in [Procs -> Msgs \cup {None}]
      /\ job \in [Procs -> Msgs \cup {None}]
      /\ q \in Seq(Msgs) /\ proc \in Seq(Msgs) /\ pushed \in Seq(Msgs)
  BY DEF TypeOK
<1>1. n'["crash"] = 0 /\ n'["stop"] = 0 /\ n'["fault"] = 0
  <2>1. n'["crash"] \in Nat /\ n'["stop"] \in Nat /\ n'["fault"] \in Nat
    BY <1>0, Labels
  <2>2. n'["crash"] + 2 * n'["stop"] + n'["fault"] = 0
    BY DEF Mishaps
  <2> QED BY <2>1, <2>2
(* Nothing of the kind has happened before, and does not happen now.         *)
<1>2. ASSUME NEW k \in {"crash", "stop", "fault"}, Count(k) PROVE FALSE
  BY <1>0, <1>1, <1>2 DEF Count, Kinds
<1>3. Mishaps = 0
  <2>1. n' = n \/ \E k \in Kinds : Count(k)
    BY CountStep
  <2>2. CASE n' = n
    BY <2>2 DEF Mishaps
  <2>3. ASSUME NEW k \in Kinds, Count(k) PROVE Mishaps = 0
    <3>1. k = "long"
      BY <1>2, <2>3 DEF Kinds
    <3>2. n["crash"] = 0 /\ n["stop"] = 0 /\ n["fault"] = 0
      BY <1>0, <1>1, <2>3, <3>1 DEF Count, Kinds
    <3> QED BY <3>2 DEF Mishaps
  <2> QED BY <2>1, <2>2, <2>3
<1>4. /\ Elems(pushed) \subseteq handled \cup Elems(q) \cup Elems(proc) \cup Hands
      /\ stopping = {}
      /\ \A p \in Procs : w[p] = "ack" => job[p] \in handled
  BY <1>3 DEF KeptInv, Missing, InRedis, Hands
<1>5. ASSUME Kept, stopping' = {}, \A p \in Procs : w'[p] = "ack" => job'[p] \in handled'
      PROVE  Goal
  BY <1>5 DEF Missing, InRedis, Hands
<1>6. ASSUME UNCHANGED <<q, proc, pushed, handled, hand, stopping>>,
             \A p \in Procs : w'[p] = "ack" => w[p] = "ack" /\ job'[p] = job[p]
      PROVE  Goal
  <2>1. Kept
    BY <1>4, <1>6 DEF Elems, Hands
  <2> QED BY <1>4, <1>5, <1>6, <2>1
<1>7. ASSUME NEW p \in Procs, NEW m \in Msgs, Push(p, m) PROVE Goal
  <2>1. Elems(pushed') = Elems(pushed) \cup {m} /\ Elems(q') = Elems(q) \cup {m}
    BY <1>0, <1>7, AppendElems DEF Push
  <2>2. Elems(proc') = Elems(proc) /\ Hands' = Hands /\ handled' = handled
    BY <1>7 DEF Push, Hands
  <2>3. Kept
    BY <1>4, <2>1, <2>2 DEF Elems
  <2> QED BY <1>4, <1>5, <1>7, <2>3 DEF Push
<1>8. ASSUME NEW p \in Procs, ReclaimPop(p) PROVE Goal
  <2>1. Elems(proc) = Elems(proc') \cup {Head(proc)}
    BY <1>0, <1>8, TailElems DEF ReclaimPop
  <2>2. Hands \subseteq Hands' \cup {None} /\ Head(proc) \in Hands'
    BY <1>0, <1>8 DEF ReclaimPop, Hands
  <2>3. None \notin Elems(pushed)
    BY <1>0, QueueAssumption, ElementOfSeq, LenProperties DEF Elems
  <2>4. Elems(q') = Elems(q) /\ Elems(pushed') = Elems(pushed) /\ handled' = handled
    BY <1>8 DEF ReclaimPop
  <2>5. Kept
    BY <1>4, <2>1, <2>2, <2>3, <2>4 DEF Elems
  <2> QED BY <1>4, <1>5, <1>8, <2>5 DEF ReclaimPop
<1>9. ASSUME NEW p \in Procs, ReclaimPush(p) PROVE Goal
  <2>1. hand[p] \in Msgs
    BY <1>0, <1>9 DEF ReclaimPush
  <2>2. Elems(q') = Elems(q) \cup {hand[p]}
    BY <1>0, <1>9, <2>1, PushElems DEF ReclaimPush
  <2>3. Hands \subseteq Hands' \cup {hand[p]}
    BY <1>0, <1>9 DEF ReclaimPush, Hands
  <2>4. Elems(proc') = Elems(proc) /\ Elems(pushed') = Elems(pushed) /\ handled' = handled
    BY <1>9 DEF ReclaimPush
  <2>5. Kept
    BY <1>4, <2>2, <2>3, <2>4 DEF Elems
  <2> QED BY <1>4, <1>5, <1>9, <2>5 DEF ReclaimPush
<1>10. ASSUME NEW p \in Procs, Take(p), q # <<>> PROVE Goal
  <2>1. Head(q) \in Msgs /\ Elems(q) = Elems(q') \cup {Head(q)}
    BY <1>0, <1>10, TailElems DEF Take
  <2>2. Elems(proc') = Elems(proc) \cup {Head(q)}
    <3>1. proc' = Append(proc, Head(q))
      BY <1>10 DEF Take
    <3> QED BY <1>0, <2>1, <3>1, AppendElems
  <2>3. Hands' = Hands /\ Elems(pushed') = Elems(pushed) /\ handled' = handled
    BY <1>10 DEF Take, Hands
  <2>4. Kept
    BY <1>4, <2>1, <2>2, <2>3 DEF Elems
  <2>5. \A r \in Procs : w'[r] = "ack" => w[r] = "ack" /\ job'[r] = job[r]
    BY <1>0, <1>10 DEF Take, TypeOK
  <2> QED BY <1>4, <1>5, <1>10, <2>4, <2>5 DEF Take
<1>11. ASSUME NEW p \in Procs, Finish(p) PROVE Goal
  <2>1. Kept
    BY <1>4, <1>11 DEF Finish, Hands, Elems
  <2> QED BY <1>0, <1>4, <1>5, <1>11, <2>1 DEF Finish
<1>12. ASSUME NEW p \in Procs, Ack(p) PROVE Goal
  <2>1. job[p] \in handled
    BY <1>4, <1>12 DEF Ack
  <2>2. Elems(proc) \subseteq Elems(proc') \cup {job[p]}
    BY <1>0, <1>12, WithoutElems DEF Ack
  <2>3. Elems(q') = Elems(q) /\ Hands' = Hands /\ Elems(pushed') = Elems(pushed) /\ handled' = handled
    BY <1>12 DEF Ack, Hands
  <2>4. Kept
    BY <1>4, <2>1, <2>2, <2>3 DEF Elems
  <2> QED BY <1>0, <1>4, <1>5, <1>12, <2>4 DEF Ack
<1>13. ASSUME NEW p \in Procs, NEW m \in Msgs, Deliver(p, m) \/ Kick(p, m) PROVE Goal
  BY <1>6, <1>13 DEF Deliver, Kick
<1>14. ASSUME NEW p \in Procs,
              Spawn(p) \/ RefreshGet(p) \/ RefreshExpire(p) \/ Start(p) \/ Clear(p) \/ Wake(p)
                \/ CheckLen(p) \/ ReleaseGet(p) \/ ReleaseDel(p) \/ CheckBacklog(p) \/ Rekick(p)
       PROVE Goal
  <2>1. UNCHANGED <<q, proc, pushed, handled, hand, stopping>>
    BY <1>14 DEF Spawn, RefreshGet, RefreshExpire, Start, Clear, Wake, CheckLen, ReleaseGet,
                 ReleaseDel, CheckBacklog, Rekick
  <2>2. \A r \in Procs : w'[r] = "ack" => w[r] = "ack" /\ job'[r] = job[r]
    BY <1>0, <1>14 DEF Spawn, RefreshGet, RefreshExpire, Start, Clear, Wake, CheckLen,
                 ReleaseGet, ReleaseDel, CheckBacklog, Rekick
  <2> QED BY <1>6, <2>1, <2>2
<1>15. ASSUME NEW p \in Procs, Take(p), q = <<>> PROVE Goal
  <2>1. UNCHANGED <<q, proc, pushed, handled, hand, stopping>>
    BY <1>15 DEF Take
  <2>2. \A r \in Procs : w'[r] = "ack" => w[r] = "ack" /\ job'[r] = job[r]
    BY <1>0, <1>15 DEF Take
  <2> QED BY <1>6, <2>1, <2>2
<1>16. ASSUME NEW p \in Procs, Overrun(p) PROVE Goal
  BY <1>6, <1>16 DEF Overrun
<1>17. ASSUME NEW p \in Procs, Crash(p) \/ Shutdown(p) \/ Fault(p) PROVE FALSE
  BY <1>2, <1>17 DEF Crash, Shutdown, Fault
<1>18. ASSUME NEW p \in Procs, Exit(p) PROVE FALSE
  BY <1>4, <1>18 DEF Exit
<1>19. CASE Lapse \/ ActiveLapse \/ UNCHANGED vars
  BY <1>6, <1>19 DEF Lapse, ActiveLapse, vars
<1> QED
  BY <1>7, <1>8, <1>9, <1>10, <1>11, <1>12, <1>13, <1>14, <1>15, <1>16, <1>17, <1>18, <1>19
     DEF Next, Callback, Reclaim, Consume

(* An accepted job is handled, or in Redis, or in the hands of a reclaimer,  *)
(* as long as no process crashes, is shut down or has a command fail -- also *)
(* when the lock lapses and consumers overlap.                               *)
THEOREM NothingLostCorrect == Spec => []NothingLost
<1>1. KeptInv => NothingLost
  BY DEF KeptInv, NothingLost
<1>2. TypeInv => TypeOK
  BY DEF TypeInv
<1> QED
  BY <1>1, <1>2, KeptInit, KeptStep, TypeCorrect, PTL DEF Spec

-------------------------------------------------------------------------------
(* What is lost.                                                             *)

(* How a finite set grows and shrinks by one element.                        *)
LEMMA CardinalityUp ==
  ASSUME NEW A, IsFiniteSet(A), NEW x, NEW B, B \subseteq A \cup {x}
  PROVE  /\ IsFiniteSet(B) /\ Cardinality(B) \in Nat /\ Cardinality(A) \in Nat
         /\ Cardinality(B) <= Cardinality(A) + 1
<1>1. IsFiniteSet(A \cup {x}) /\ Cardinality(A \cup {x}) <= Cardinality(A) + 1
  <2>1. /\ IsFiniteSet(A \cup {x})
        /\ Cardinality(A \cup {x}) = IF x \in A THEN Cardinality(A) ELSE Cardinality(A) + 1
    BY FS_AddElement
  <2>2. Cardinality(A) \in Nat
    BY FS_CardinalityType
  <2> QED BY <2>1, <2>2
<1>2. IsFiniteSet(B) /\ Cardinality(B) <= Cardinality(A \cup {x})
  BY <1>1, FS_Subset
<1>3. Cardinality(A) \in Nat /\ Cardinality(B) \in Nat /\ Cardinality(A \cup {x}) \in Nat
  BY <1>1, <1>2, FS_CardinalityType
<1> QED BY <1>1, <1>2, <1>3

LEMMA CardinalityDown ==
  ASSUME NEW A, IsFiniteSet(A), NEW B, B \subseteq A
  PROVE  /\ IsFiniteSet(B) /\ Cardinality(B) \in Nat /\ Cardinality(A) \in Nat
         /\ Cardinality(B) <= Cardinality(A)
         /\ \A x \in A : x \notin B => Cardinality(B) <= Cardinality(A) - 1
<1>1. IsFiniteSet(B) /\ Cardinality(B) <= Cardinality(A)
  BY FS_Subset
<1>2. Cardinality(A) \in Nat /\ Cardinality(B) \in Nat
  BY <1>1, FS_CardinalityType
<1>3. ASSUME NEW x \in A, x \notin B PROVE Cardinality(B) <= Cardinality(A) - 1
  <2>1. IsFiniteSet(A \ {x}) /\ Cardinality(A \ {x}) = Cardinality(A) - 1
    BY FS_RemoveElement
  <2>2. B \subseteq A \ {x}
    BY <1>3
  <2> QED BY <2>1, <2>2, FS_Subset
<1> QED BY <1>1, <1>2, <1>3

(* Every incident but a long handler counts as a mishap, a shutdown twice.   *)
LEMMA MishapsStep ==
  ASSUME n \in [Kinds -> Nat]
  PROVE  /\ Mishaps \in Nat
         /\ n' = n => Mishaps' = Mishaps
         /\ Count("long") => Mishaps' = Mishaps
         /\ Count("crash") \/ Count("fault") => Mishaps' = Mishaps + 1
         /\ Count("stop") => Mishaps' = Mishaps + 2
<1>1. n["crash"] \in Nat /\ n["stop"] \in Nat /\ n["fault"] \in Nat
  BY Labels
<1> QED BY <1>1 DEF Mishaps, Count, Kinds

(* Consumers about to acknowledge a job whose handler was cancelled.         *)
Dropping == {p \in Procs : w[p] = "ack" /\ job[p] \notin handled}

(* A shutdown pays for the job whose handler it cancels, and, as long as the *)
(* process has not ended, for the one its reclaimer may have in hand.        *)
LossInv ==
  /\ IsFiniteSet(Missing) /\ IsFiniteSet(Dropping) /\ IsFiniteSet(stopping)
  /\ Cardinality(Missing) + Cardinality(Dropping) + Cardinality(stopping) <= Mishaps

LEMMA LossInit == Init => LossInv
<1> SUFFICES ASSUME Init PROVE LossInv
  OBVIOUS
<1>1. Missing = {} /\ Dropping = {} /\ stopping = {}
  BY DEF Init, Missing, Elems, Dropping
<1>2. Mishaps = 0
  BY Labels DEF Init, Mishaps
<1> QED BY <1>1, <1>2, FS_EmptySet DEF LossInv

LEMMA LossStep == TypeOK /\ LossInv /\ [Next]_vars => LossInv'
<1> SUFFICES ASSUME TypeOK, LossInv, [Next]_vars PROVE LossInv'
  OBVIOUS
<1> USE DEF redis, local, hist, Goto
<1>0. /\ n \in [Kinds -> Nat] /\ w \in [Procs -> PC]
      /\ hand \in [Procs -> Msgs \cup {None}] /\ job \in [Procs -> Msgs \cup {None}]
      /\ q \in Seq(Msgs) /\ proc \in Seq(Msgs) /\ pushed \in Seq(Msgs)
  BY DEF TypeOK
<1>1. /\ Cardinality(Missing) \in Nat /\ Cardinality(Dropping) \in Nat
      /\ Cardinality(stopping) \in Nat /\ Mishaps \in Nat
  BY <1>0, FS_CardinalityType, MishapsStep DEF LossInv
(* The four ways in which the sum moves.                                     *)
<1>2. ASSUME Missing' \subseteq Missing, Dropping' \subseteq Dropping,
             stopping' \subseteq stopping, Mishaps' = Mishaps
      PROVE  LossInv'
  <2>1. /\ IsFiniteSet(Missing') /\ Cardinality(Missing') \in Nat
        /\ Cardinality(Missing') <= Cardinality(Missing)
    BY <1>2, CardinalityDown DEF LossInv
  <2>2. /\ IsFiniteSet(Dropping') /\ Cardinality(Dropping') \in Nat
        /\ Cardinality(Dropping') <= Cardinality(Dropping)
    BY <1>2, CardinalityDown DEF LossInv
  <2>3. /\ IsFiniteSet(stopping') /\ Cardinality(stopping') \in Nat
        /\ Cardinality(stopping') <= Cardinality(stopping)
    BY <1>2, CardinalityDown DEF LossInv
  <2> QED BY <1>1, <1>2, <2>1, <2>2, <2>3 DEF LossInv
<1>3. ASSUME NEW x, Missing' \subseteq Missing \cup {x}, Dropping' \subseteq Dropping,
             stopping' \subseteq stopping,
             \/ Mishaps' = Mishaps + 1
             \/ Mishaps' = Mishaps /\ \/ \E p \in Dropping : p \notin Dropping'
                                      \/ \E p \in stopping : p \notin stopping'
      PROVE  LossInv'
  <2>1. /\ IsFiniteSet(Missing') /\ Cardinality(Missing') \in Nat
        /\ Cardinality(Missing') <= Cardinality(Missing) + 1
    BY <1>3, CardinalityUp DEF LossInv
  <2>2. /\ IsFiniteSet(Dropping') /\ Cardinality(Dropping') \in Nat
        /\ Cardinality(Dropping') <= Cardinality(Dropping)
        /\ \A p \in Dropping : p \notin Dropping' => Cardinality(Dropping') <= Cardinality(Dropping) - 1
    BY <1>3, CardinalityDown DEF LossInv
  <2>3. /\ IsFiniteSet(stopping') /\ Cardinality(stopping') \in Nat
        /\ Cardinality(stopping') <= Cardinality(stopping)
        /\ \A p \in stopping : p \notin stopping' => Cardinality(stopping') <= Cardinality(stopping) - 1
    BY <1>3, CardinalityDown DEF LossInv
  <2> QED BY <1>1, <1>3, <2>1, <2>2, <2>3 DEF LossInv
<1>4. ASSUME NEW x, Missing' \subseteq Missing, Dropping' \subseteq Dropping \cup {x},
             stopping' \subseteq stopping \cup {x}, Mishaps' = Mishaps + 2
      PROVE  LossInv'
  <2>1. /\ IsFiniteSet(Missing') /\ Cardinality(Missing') \in Nat
        /\ Cardinality(Missing') <= Cardinality(Missing)
    BY <1>4, CardinalityDown DEF LossInv
  <2>2. /\ IsFiniteSet(Dropping') /\ Cardinality(Dropping') \in Nat
        /\ Cardinality(Dropping') <= Cardinality(Dropping) + 1
    BY <1>4, CardinalityUp DEF LossInv
  <2>3. /\ IsFiniteSet(stopping') /\ Cardinality(stopping') \in Nat
        /\ Cardinality(stopping') <= Cardinality(stopping) + 1
    BY <1>4, CardinalityUp DEF LossInv
  <2> QED BY <1>1, <1>4, <2>1, <2>2, <2>3 DEF LossInv
(* Elements of Missing, and how they can change.                             *)
<1>5. \A x : x \in Missing <=> /\ x \in Elems(pushed) /\ x \notin handled
                               /\ x \notin Elems(q) /\ x \notin Elems(proc) /\ x \notin Hands
  BY DEF Missing, InRedis, Hands
<1>6. \A x : x \in Missing' <=> /\ x \in Elems(pushed') /\ x \notin handled'
                                /\ x \notin Elems(q') /\ x \notin Elems(proc') /\ x \notin Hands'
  BY DEF Missing, InRedis, Hands, Elems
<1>7. None \notin Elems(pushed)
  BY <1>0, QueueAssumption, ElementOfSeq, LenProperties DEF Elems
(* The callback and the reclaimer.                                           *)
<1>11. ASSUME NEW p \in Procs, NEW m \in Msgs, Push(p, m) PROVE LossInv'
  <2>1. Elems(pushed') = Elems(pushed) \cup {m} /\ Elems(q') = Elems(q) \cup {m}
    BY <1>0, <1>11, AppendElems DEF Push
  <2>2. Missing' \subseteq Missing
    BY <1>5, <1>6, <1>11, <2>1 DEF Push, Hands
  <2>3. Dropping' = Dropping /\ stopping' = stopping /\ n' = n
    BY <1>11 DEF Push, Dropping
  <2> QED BY <1>0, <1>2, <2>2, <2>3, MishapsStep
<1>12. ASSUME NEW p \in Procs, ReclaimPop(p) PROVE LossInv'
  <2>1. Elems(proc) = Elems(proc') \cup {Head(proc)}
    BY <1>0, <1>12, TailElems DEF ReclaimPop
  <2>2. Hands \subseteq Hands' \cup {None} /\ Head(proc) \in Hands'
    BY <1>0, <1>12 DEF ReclaimPop, Hands
  <2>3. q' = q /\ pushed' = pushed /\ handled' = handled
    BY <1>12 DEF ReclaimPop
  <2>4. Missing' \subseteq Missing
    BY <1>5, <1>6, <1>7, <2>1, <2>2, <2>3
  <2>5. Dropping' = Dropping /\ stopping' = stopping /\ n' = n
    BY <1>12 DEF ReclaimPop, Dropping
  <2> QED BY <1>0, <1>2, <2>4, <2>5, MishapsStep
<1>13. ASSUME NEW p \in Procs, ReclaimPush(p) PROVE LossInv'
  <2>1. hand[p] \in Msgs
    BY <1>0, <1>13 DEF ReclaimPush
  <2>2. Elems(q') = Elems(q) \cup {hand[p]}
    BY <1>0, <1>13, <2>1, PushElems DEF ReclaimPush
  <2>3. Hands \subseteq Hands' \cup {hand[p]}
    BY <1>0, <1>13 DEF ReclaimPush, Hands
  <2>4. proc' = proc /\ pushed' = pushed /\ handled' = handled
    BY <1>13 DEF ReclaimPush
  <2>5. Missing' \subseteq Missing
    BY <1>5, <1>6, <2>2, <2>3, <2>4
  <2>6. Dropping' = Dropping /\ stopping' = stopping /\ n' = n
    BY <1>13 DEF ReclaimPush, Dropping
  <2> QED BY <1>0, <1>2, <2>5, <2>6, MishapsStep
(* The consumer.  A job goes from q to processing in one command.            *)
<1>14. ASSUME q # <<>>, q' = Tail(q), proc' = Append(proc, Head(q)),
              UNCHANGED <<pushed, handled, hand>>
       PROVE  Missing' = Missing
  <2>1. Head(q) \in Msgs /\ Elems(q) = Elems(q') \cup {Head(q)}
    BY <1>0, <1>14, TailElems
  <2>2. Elems(proc') = Elems(proc) \cup {Head(q)}
    BY <1>0, <1>14, <2>1, AppendElems
  <2>3. Hands' = Hands
    BY <1>14 DEF Hands
  <2>4. \A x : x \in Elems(q) \/ x \in Elems(proc) <=> x \in Elems(q') \/ x \in Elems(proc')
    BY <2>1, <2>2
  <2> QED BY <1>5, <1>6, <1>14, <2>3, <2>4
<1>15. ASSUME UNCHANGED <<q, proc, pushed, handled, hand>>
       PROVE  Missing' = Missing
  BY <1>15 DEF Missing, InRedis, Elems
<1>16. ASSUME NEW p \in Procs, Take(p) PROVE LossInv'
  <2>1. Missing' = Missing
    <3>1. CASE q = <<>>
      BY <1>15, <1>16, <3>1 DEF Take
    <3>2. CASE q # <<>>
      BY <1>14, <1>16, <3>2 DEF Take
    <3> QED BY <3>1, <3>2
  <2>2. \A r \in Procs : w'[r] = "ack" => w[r] = "ack" /\ job'[r] = job[r]
    BY <1>0, <1>16 DEF Take
  <2>3. Dropping' \subseteq Dropping /\ stopping' = stopping /\ n' = n
    BY <1>16, <2>2 DEF Take, Dropping
  <2> QED BY <1>0, <1>2, <2>1, <2>3, MishapsStep
<1>17. ASSUME NEW p \in Procs, Finish(p) PROVE LossInv'
  <2>1. Missing' \subseteq Missing
    BY <1>5, <1>6, <1>17 DEF Finish, Hands
  <2>2. Dropping' \subseteq Dropping /\ stopping' = stopping /\ n' = n
    BY <1>0, <1>17 DEF Finish, Dropping
  <2> QED BY <1>0, <1>2, <2>1, <2>2, MishapsStep
<1>18. ASSUME NEW p \in Procs, Ack(p) PROVE LossInv'
  <2>1. Elems(proc) \subseteq Elems(proc') \cup {job[p]}
    BY <1>0, <1>18, WithoutElems DEF Ack
  <2>2. Hands' = Hands /\ UNCHANGED <<q, pushed, handled, stopping, n>>
    BY <1>18 DEF Ack, Hands
  <2>3. Missing' \subseteq Missing \cup {job[p]}
    BY <1>5, <1>6, <2>1, <2>2
  <2>4. Dropping' \subseteq Dropping /\ p \notin Dropping'
    BY <1>0, <1>18 DEF Ack, Dropping
  <2>5. Mishaps' = Mishaps
    BY <1>0, <2>2, MishapsStep
  <2>6. CASE job[p] \in handled
    <3>1. Missing' \subseteq Missing
      BY <1>6, <2>2, <2>3, <2>6
    <3> QED BY <1>2, <2>2, <2>4, <2>5, <3>1
  <2>7. CASE job[p] \notin handled
    <3>1. p \in Dropping
      BY <1>18, <2>7 DEF Ack, Dropping
    <3> QED BY <1>3, <2>2, <2>3, <2>4, <2>5, <3>1
  <2> QED BY <2>6, <2>7
<1>19. ASSUME UNCHANGED <<q, proc, pushed, handled, hand, stopping>>,
              n' = n \/ Count("long"),
              \A r \in Procs : w'[r] = "ack" => w[r] = "ack" /\ job'[r] = job[r]
       PROVE  LossInv'
  <2>1. Dropping' \subseteq Dropping
    BY <1>19 DEF Dropping
  <2> QED BY <1>0, <1>2, <1>15, <1>19, <2>1, MishapsStep
<1>20. ASSUME NEW p \in Procs,
              Spawn(p) \/ RefreshGet(p) \/ RefreshExpire(p) \/ Start(p) \/ Clear(p) \/ Wake(p)
                \/ CheckLen(p) \/ ReleaseGet(p) \/ ReleaseDel(p) \/ CheckBacklog(p) \/ Rekick(p)
       PROVE  LossInv'
  <2>1. UNCHANGED <<q, proc, pushed, handled, hand, stopping, n>>
    BY <1>20 DEF Spawn, RefreshGet, RefreshExpire, Start, Clear, Wake, CheckLen, ReleaseGet,
                 ReleaseDel, CheckBacklog, Rekick
  <2>2. \A r \in Procs : w'[r] = "ack" => w[r] = "ack" /\ job'[r] = job[r]
    BY <1>0, <1>20 DEF Spawn, RefreshGet, RefreshExpire, Start, Clear, Wake, CheckLen,
                 ReleaseGet, ReleaseDel, CheckBacklog, Rekick
  <2> QED BY <1>19, <2>1, <2>2
<1>21. ASSUME NEW p \in Procs, NEW m \in Msgs, Deliver(p, m) \/ Kick(p, m) PROVE LossInv'
  BY <1>19, <1>21 DEF Deliver, Kick
<1>22. ASSUME NEW p \in Procs, Overrun(p) PROVE LossInv'
  BY <1>19, <1>22 DEF Overrun
<1>23. CASE Lapse \/ ActiveLapse \/ UNCHANGED vars
  BY <1>19, <1>23 DEF Lapse, ActiveLapse, vars
(* The incidents.                                                            *)
<1>24. ASSUME NEW p \in Procs, Forget(p)
       PROVE  Missing' \subseteq Missing \cup {hand[p]} /\ Dropping' \subseteq Dropping
  <2>1. UNCHANGED <<q, proc, pushed, handled>>
    BY <1>24 DEF Forget
  <2>2. Hands \subseteq Hands' \cup {hand[p]}
    BY <1>0, <1>24 DEF Forget, Hands
  <2>3. \A r \in Procs : w'[r] = "ack" => w[r] = "ack" /\ job'[r] = job[r]
    BY <1>0, <1>24 DEF Forget
  <2> QED BY <1>5, <1>6, <2>1, <2>2, <2>3 DEF Dropping
<1>25. ASSUME NEW p \in Procs, Crash(p) PROVE LossInv'
  <2>1. stopping' \subseteq stopping /\ Mishaps' = Mishaps + 1
    BY <1>0, <1>25, MishapsStep DEF Crash, Forget
  <2> QED BY <1>3, <1>24, <1>25, <2>1 DEF Crash
<1>26. ASSUME NEW p \in Procs, Exit(p) PROVE LossInv'
  <2>1. stopping' \subseteq stopping /\ p \in stopping /\ p \notin stopping' /\ Mishaps' = Mishaps
    BY <1>0, <1>26, MishapsStep DEF Exit, Forget
  <2> QED BY <1>3, <1>24, <1>26, <2>1 DEF Exit
<1>27. ASSUME NEW p \in Procs, Fault(p) PROVE LossInv'
  <2>1. stopping' = stopping /\ Mishaps' = Mishaps + 1
    BY <1>0, <1>27, MishapsStep DEF Fault
  <2>2. UNCHANGED <<q, proc, pushed, handled>>
    BY <1>27 DEF Fault
  <2>3. CASE hand' = hand
    <3>1. Missing' \subseteq Missing
      BY <1>5, <1>6, <2>2, <2>3 DEF Hands
    <3>2. \A r \in Procs \ {p} : w'[r] = "ack" => w[r] = "ack" /\ job'[r] = job[r]
      BY <1>0, <1>27 DEF Fault
    <3>3. Dropping' \subseteq Dropping \cup {p}
      BY <2>2, <3>2 DEF Dropping
    <3>4. /\ IsFiniteSet(Missing') /\ Cardinality(Missing') \in Nat
          /\ Cardinality(Missing') <= Cardinality(Missing)
      BY <3>1, CardinalityDown DEF LossInv
    <3>5. /\ IsFiniteSet(Dropping') /\ Cardinality(Dropping') \in Nat
          /\ Cardinality(Dropping') <= Cardinality(Dropping) + 1
      BY <3>3, CardinalityUp DEF LossInv
    <3> QED BY <1>1, <2>1, <3>4, <3>5 DEF LossInv
  <2>4. CASE UNCHANGED <<w, job>> /\ Hands \subseteq Hands' \cup {hand[p]}
    <3>1. Missing' \subseteq Missing \cup {hand[p]}
      BY <1>5, <1>6, <2>2, <2>4
    <3>2. Dropping' \subseteq Dropping
      BY <2>2, <2>4 DEF Dropping
    <3> QED BY <1>3, <2>1, <3>1, <3>2
  <2>5. hand' = hand \/ UNCHANGED <<w, job>>
    BY <1>27 DEF Fault
  <2>6. Hands \subseteq Hands' \cup {hand[p]}
    BY <1>0, <1>27 DEF Fault, Hands
  <2> QED BY <2>3, <2>4, <2>5, <2>6
<1>28. ASSUME NEW p \in Procs, Shutdown(p) PROVE LossInv'
  <2>1. Missing' = Missing
    <3>1. CASE UNCHANGED <<q, proc>>
      BY <1>15, <1>28, <3>1 DEF Shutdown
    <3>2. CASE q # <<>> /\ q' = Tail(q) /\ proc' = Append(proc, Head(q))
      BY <1>14, <1>28, <3>2 DEF Shutdown
    <3> QED BY <1>28, <3>1, <3>2 DEF Shutdown
  <2>2. \A r \in Procs \ {p} : w'[r] = w[r] /\ job'[r] = job[r]
    BY <1>0, <1>28 DEF Shutdown
  <2>3. Dropping' \subseteq Dropping \cup {p}
    BY <1>28, <2>2 DEF Shutdown, Dropping
  <2>4. stopping' \subseteq stopping \cup {p} /\ Mishaps' = Mishaps + 2
    BY <1>0, <1>28, MishapsStep DEF Shutdown
  <2> QED BY <1>4, <2>1, <2>3, <2>4
<1> QED
  BY <1>11, <1>12, <1>13, <1>16, <1>17, <1>18, <1>20, <1>21, <1>22, <1>23, <1>25, <1>26,
     <1>27, <1>28 DEF Next, Callback, Reclaim, Consume

(* A crash or a failing command loses at most one accepted job for good, a   *)
(* shutdown at most two, also while consumers overlap: what they do not pay  *)
(* for is handled, pending, in processing or in the hands of a reclaimer.    *)
THEOREM LossBoundedCorrect == Spec => []LossBounded
<1>1. TypeInv /\ LossInv => LossBounded
  <2> SUFFICES ASSUME TypeOK, LossInv PROVE LossBounded
    BY DEF TypeInv
  <2>1. /\ Cardinality(Missing) \in Nat /\ Cardinality(Dropping) \in Nat
        /\ Cardinality(stopping) \in Nat /\ Mishaps \in Nat
    BY FS_CardinalityType, MishapsStep DEF LossInv, TypeOK
  <2> QED BY <2>1 DEF LossInv, LossBounded
<1>2. TypeInv => TypeOK
  BY DEF TypeInv
<1> QED
  BY <1>1, <1>2, LossInit, LossStep, TypeCorrect, PTL DEF Spec

-------------------------------------------------------------------------------
(* Where a job is.                                                           *)

(* LREM of the only entry.                                                   *)
LEMMA WithoutOnly == ASSUME NEW x PROVE Without(<<x>>, x) = <<>>
<1> DEFINE i == CHOOSE j \in DOMAIN <<x>> : <<x>>[j] = x
<1>1. i = 1 /\ x \in Elems(<<x>>)
  BY DEF Elems
<1>2. Without(<<x>>, x) = SubSeq(<<x>>, 1, i - 1) \o SubSeq(<<x>>, i + 1, Len(<<x>>))
  BY <1>1 DEF Without
<1> HIDE DEF i
<1>3. SubSeq(<<x>>, 1, i - 1) = <<>>
  BY <1>1, SubSeqEmpty
<1>4. SubSeq(<<x>>, i + 1, Len(<<x>>)) = <<>>
  <2>1. Len(<<x>>) = 1
    OBVIOUS
  <2>2. SubSeq(<<x>>, 2, 1) = <<>>
    BY SubSeqEmpty
  <2> QED BY <1>1, <2>1, <2>2
<1>5. <<>> \o <<>> = <<>>
  OBVIOUS
<1> QED BY <1>2, <1>3, <1>4, <1>5

InLine == Elems(q) \cup Elems(proc) \cup (Hands \ {None})

(* A message is accepted once, by the callback that set its dedupe key, and  *)
(* only what was accepted is in Redis, taken or started.                     *)
AcceptInv ==
  /\ \A i, j \in DOMAIN pushed : pushed[i] = pushed[j] => i = j
  /\ InLine \subseteq Elems(pushed)
  /\ \A m \in Elems(pushed) : m \in dedupe /\ \A p \in Procs : cb[p][m] # "push"
  /\ \A m \in Msgs : \A p, r \in Procs :
       cb[p][m] = "push" => m \in dedupe /\ (cb[r][m] = "push" => p = r)
  /\ \A m \in Msgs : starts[m] > 0 => m \in Elems(pushed)
  /\ \A p \in Procs : job[p] \in Elems(pushed) \cup {None}

LEMMA AcceptInit == Init => AcceptInv
<1> SUFFICES ASSUME Init PROVE AcceptInv
  OBVIOUS
<1>1. Elems(q) = {} /\ Elems(proc) = {} /\ Hands \subseteq {None} /\ DOMAIN pushed = {}
  BY DEF Init, Elems, Hands
<1>2. /\ \A m \in Msgs : starts[m] = 0
      /\ \A p \in Procs : job[p] = None /\ \A m \in Msgs : cb[p][m] = "none"
  BY DEF Init
<1> QED BY <1>1, <1>2 DEF AcceptInv, InLine, Elems

LEMMA AcceptStep == TypeOK /\ TypeOK' /\ JobHeld /\ AcceptInv /\ [Next]_vars => AcceptInv'
<1> SUFFICES ASSUME TypeOK, TypeOK', JobHeld, AcceptInv, [Next]_vars PROVE AcceptInv'
  OBVIOUS
<1> USE DEF redis, local, hist, Goto
<1>0. /\ w \in [Procs -> PC] /\ cb \in [Procs -> [Msgs -> Stages]]
      /\ hand \in [Procs -> Msgs \cup {None}] /\ job \in [Procs -> Msgs \cup {None}]
      /\ q \in Seq(Msgs) /\ proc \in Seq(Msgs) /\ pushed \in Seq(Msgs)
      /\ starts \in [Msgs -> 0..Cap]
      /\ None \notin Msgs /\ Elems(pushed) \subseteq Msgs
  <2>1. ASSUME NEW x \in Elems(pushed) PROVE x \in Msgs
    BY ElementOfSeq, LenProperties DEF TypeOK, Elems
  <2> QED BY <2>1, QueueAssumption DEF TypeOK
<1>1. \A x : x \in InLine <=> x \in Elems(q) \/ x \in Elems(proc) \/ (x \in Hands /\ x # None)
  BY DEF InLine
<1>2. \A x : x \in InLine' <=> x \in Elems(q') \/ x \in Elems(proc') \/ (x \in Hands' /\ x # None)
  BY DEF InLine, Elems
(* Most steps accept nothing: jobs only change their place.                  *)
<1>3. ASSUME UNCHANGED pushed, InLine' \subseteq InLine,
             \A m \in dedupe : m \in dedupe',
             \A m \in Msgs : \A p \in Procs : cb'[p][m] = "push" => cb[p][m] = "push",
             \A m \in Msgs : starts'[m] > 0 => starts[m] > 0 \/ m \in Elems(pushed),
             \A p \in Procs : job'[p] \in {job[p], None} \cup Elems(pushed)
      PROVE  AcceptInv'
  <2>1. /\ \A i, j \in DOMAIN pushed' : pushed'[i] = pushed'[j] => i = j
        /\ InLine' \subseteq Elems(pushed') /\ Elems(pushed') = Elems(pushed)
    BY <1>3 DEF AcceptInv
  <2>2. \A m \in Elems(pushed) : m \in dedupe' /\ \A p \in Procs : cb'[p][m] # "push"
    BY <1>0, <1>3 DEF AcceptInv
  <2>3. \A m \in Msgs : \A p, r \in Procs :
          cb'[p][m] = "push" => m \in dedupe' /\ (cb'[r][m] = "push" => p = r)
    BY <1>3 DEF AcceptInv
  <2>4. /\ \A m \in Msgs : starts'[m] > 0 => m \in Elems(pushed)
        /\ \A p \in Procs : job'[p] \in Elems(pushed) \cup {None}
    BY <1>3 DEF AcceptInv
  <2> QED BY <2>1, <2>2, <2>3, <2>4 DEF AcceptInv, Elems
<1>4. ASSUME NEW p \in Procs, NEW m \in Msgs, Deliver(p, m) PROVE AcceptInv'
  <2>1. UNCHANGED <<pushed, q, proc, hand, starts, job>> /\ InLine' = InLine
    BY <1>4 DEF Deliver, InLine, Hands, Elems
  <2>2. CASE m \in dedupe
    BY <1>0, <1>3, <1>4, <2>1, <2>2 DEF Deliver
  <2>3. CASE m \notin dedupe
    <3>1. m \notin Elems(pushed) /\ \A r \in Procs : cb[r][m] # "push"
      BY <2>3 DEF AcceptInv
    <3>2. /\ dedupe' = dedupe \cup {m}
          /\ \A r \in Procs, k \in Msgs :
               cb'[r][k] = "push" <=> cb[r][k] = "push" \/ (r = p /\ k = m)
      BY <1>0, <1>4, <2>3 DEF Deliver
    <3>3. \A k \in Elems(pushed) : k \in dedupe' /\ \A r \in Procs : cb'[r][k] # "push"
      BY <1>0, <3>1, <3>2 DEF AcceptInv
    <3>4. \A k \in Msgs : \A r, t \in Procs :
            cb'[r][k] = "push" => k \in dedupe' /\ (cb'[t][k] = "push" => r = t)
      BY <3>1, <3>2 DEF AcceptInv
    <3> QED BY <2>1, <3>3, <3>4 DEF AcceptInv, Elems
  <2> QED BY <2>2, <2>3
<1>5. ASSUME NEW p \in Procs, NEW m \in Msgs, Push(p, m) PROVE AcceptInv'
  <2>1. /\ Elems(pushed') = Elems(pushed) \cup {m} /\ Elems(q') = Elems(q) \cup {m}
        /\ Hands' = Hands /\ proc' = proc
    BY <1>0, <1>5, AppendElems DEF Push, Hands
  <2>2. m \notin Elems(pushed) /\ m \in dedupe /\ \A r \in Procs : cb[r][m] = "push" => r = p
    BY <1>5 DEF Push, AcceptInv
  <2>3. /\ DOMAIN pushed = 1..Len(pushed) /\ DOMAIN pushed' = 1..(Len(pushed) + 1)
        /\ Len(pushed) \in Nat
        /\ \A i \in 1..Len(pushed) : pushed'[i] = pushed[i]
        /\ pushed'[Len(pushed) + 1] = m
    BY <1>0, <1>5, AppendAt DEF Push
  <2>4. ASSUME NEW i \in DOMAIN pushed', NEW j \in DOMAIN pushed', pushed'[i] = pushed'[j]
        PROVE  i = j
    <3>1. \A k \in 1..Len(pushed) : pushed'[k] = pushed[k] /\ pushed[k] # m
      BY <2>2, <2>3 DEF Elems
    <3>2. /\ i \in 1..Len(pushed) \/ i = Len(pushed) + 1
          /\ j \in 1..Len(pushed) \/ j = Len(pushed) + 1
      BY <2>3
    <3> QED BY <2>3, <2>4, <3>1, <3>2 DEF AcceptInv
  <2>5. InLine' \subseteq Elems(pushed')
    BY <1>1, <1>2, <2>1 DEF AcceptInv
  <2>6. /\ dedupe' = dedupe /\ starts' = starts /\ job' = job
        /\ \A r \in Procs, k \in Msgs :
             cb'[r][k] = "push" <=> cb[r][k] = "push" /\ (r # p \/ k # m)
    BY <1>0, <1>5 DEF Push
  <2>7. \A k \in Elems(pushed') : k \in dedupe' /\ \A r \in Procs : cb'[r][k] # "push"
    BY <1>0, <2>1, <2>2, <2>6 DEF AcceptInv
  <2>8. \A k \in Msgs : \A r, t \in Procs :
          cb'[r][k] = "push" => k \in dedupe' /\ (cb'[t][k] = "push" => r = t)
    BY <2>6 DEF AcceptInv
  <2>9. /\ \A k \in Msgs : starts'[k] > 0 => k \in Elems(pushed')
        /\ \A r \in Procs : job'[r] \in Elems(pushed') \cup {None}
    BY <2>1, <2>6 DEF AcceptInv
  <2> QED BY <2>4, <2>5, <2>7, <2>8, <2>9 DEF AcceptInv, Elems
<1>6. ASSUME NEW p \in Procs, ReclaimPop(p) PROVE AcceptInv'
  <2>1. Elems(proc) = Elems(proc') \cup {Head(proc)} /\ q' = q
    BY <1>0, <1>6, TailElems DEF ReclaimPop
  <2>2. Hands' \subseteq Hands \cup {Head(proc)}
    BY <1>0, <1>6 DEF ReclaimPop, Hands
  <2>3. InLine' \subseteq InLine
    BY <1>1, <1>2, <2>1, <2>2
  <2> QED BY <1>3, <1>6, <2>3 DEF ReclaimPop
<1>7. ASSUME NEW p \in Procs, ReclaimPush(p) PROVE AcceptInv'
  <2>1. hand[p] \in Msgs /\ hand[p] \in Hands
    BY <1>0, <1>7 DEF ReclaimPush, Hands
  <2>2. Elems(q') = Elems(q) \cup {hand[p]} /\ proc' = proc
    BY <1>0, <1>7, <2>1, PushElems DEF ReclaimPush
  <2>3. Hands' \subseteq Hands \cup {None}
    BY <1>0, <1>7 DEF ReclaimPush, Hands
  <2>4. InLine' \subseteq InLine
    BY <1>0, <1>1, <1>2, <2>1, <2>2, <2>3
  <2> QED BY <1>3, <1>7, <2>4 DEF ReclaimPush
<1>8. ASSUME q # <<>>, q' = Tail(q), proc' = Append(proc, Head(q)), hand' = hand
      PROVE  InLine' \subseteq InLine /\ Head(q) \in Elems(pushed)
  <2>1. Head(q) \in Msgs /\ Elems(q) = Elems(q') \cup {Head(q)}
    BY <1>0, <1>8, TailElems
  <2>2. Elems(proc') = Elems(proc) \cup {Head(q)}
    BY <1>0, <1>8, <2>1, AppendElems
  <2>3. Hands' = Hands
    BY <1>8 DEF Hands
  <2>4. InLine' \subseteq InLine /\ Head(q) \in InLine
    BY <1>1, <1>2, <2>1, <2>2, <2>3
  <2> QED BY <2>4 DEF AcceptInv
<1>9. ASSUME UNCHANGED <<q, proc, hand>> PROVE InLine' \subseteq InLine
  BY <1>9 DEF InLine, Hands, Elems
<1>10. ASSUME NEW p \in Procs, Take(p) PROVE AcceptInv'
  <2>1. CASE q = <<>>
    BY <1>3, <1>9, <1>10, <2>1 DEF Take
  <2>2. CASE q # <<>>
    <3>1. InLine' \subseteq InLine /\ Head(q) \in Elems(pushed)
      BY <1>8, <1>10, <2>2 DEF Take
    <3>2. \A r \in Procs : job'[r] \in {job[r], None} \cup Elems(pushed)
      BY <1>0, <1>10, <2>2, <3>1 DEF Take
    <3> QED BY <1>3, <1>10, <3>1, <3>2 DEF Take
  <2> QED BY <2>1, <2>2
<1>11. ASSUME NEW p \in Procs, Start(p) PROVE AcceptInv'
  <2>1. job[p] \in Elems(pushed)
    BY <1>0, <1>11 DEF Start, JobHeld, AcceptInv
  <2>2. \A m \in Msgs : starts'[m] > 0 => starts[m] > 0 \/ m \in Elems(pushed)
    BY <1>0, <1>11, <2>1 DEF Start
  <2> QED BY <1>3, <1>9, <1>11, <2>2 DEF Start
<1>12. ASSUME NEW p \in Procs, Ack(p) PROVE AcceptInv'
  <2>1. Elems(proc') \subseteq Elems(proc) /\ q' = q /\ Hands' = Hands
    BY <1>0, <1>12, WithoutElems DEF Ack, Hands
  <2>2. InLine' \subseteq InLine
    BY <1>1, <1>2, <2>1
  <2> QED BY <1>3, <1>12, <2>2 DEF Ack
<1>13. ASSUME NEW p \in Procs, Crash(p) \/ Exit(p) PROVE AcceptInv'
  <2>1. Hands' \subseteq Hands \cup {None} /\ UNCHANGED <<q, proc, pushed, dedupe, starts>>
    BY <1>0, <1>13 DEF Crash, Exit, Forget, Hands
  <2>2. InLine' \subseteq InLine
    BY <1>1, <1>2, <2>1
  <2>3. \A r \in Procs : job'[r] \in {job[r], None}
    BY <1>0, <1>13 DEF Crash, Exit, Forget
  <2>4. ASSUME NEW m \in Msgs, NEW r \in Procs, cb'[r][m] = "push" PROVE cb[r][m] = "push"
    <3>1. cb' = [cb EXCEPT ![p] = [k \in Msgs |-> "none"]]
      BY <1>13 DEF Crash, Exit, Forget
    <3>2. r # p
      BY <1>0, <2>4, <3>1
    <3> QED BY <1>0, <2>4, <3>1, <3>2
  <2> QED BY <1>3, <2>1, <2>2, <2>3, <2>4
<1>14. ASSUME NEW p \in Procs, Shutdown(p) PROVE AcceptInv'
  <2>1. InLine' \subseteq InLine
    <3>1. CASE UNCHANGED <<q, proc>>
      BY <1>9, <1>14, <3>1 DEF Shutdown
    <3>2. CASE q # <<>> /\ q' = Tail(q) /\ proc' = Append(proc, Head(q))
      BY <1>8, <1>14, <3>2 DEF Shutdown
    <3> QED BY <1>14, <3>1, <3>2 DEF Shutdown
  <2>2. \A r \in Procs : job'[r] \in {job[r], None}
    BY <1>0, <1>14 DEF Shutdown
  <2> QED BY <1>3, <1>14, <2>1, <2>2 DEF Shutdown
<1>15. ASSUME NEW p \in Procs, Fault(p) PROVE AcceptInv'
  <2>1. Hands' \subseteq Hands \cup {None} /\ UNCHANGED <<q, proc, pushed, dedupe, starts>>
    BY <1>0, <1>15 DEF Fault, Hands
  <2>2. InLine' \subseteq InLine
    BY <1>1, <1>2, <2>1
  <2>3. \A r \in Procs : job'[r] \in {job[r], None}
    BY <1>0, <1>15 DEF Fault
  <2>4. ASSUME NEW m \in Msgs, NEW r \in Procs, cb'[r][m] = "push" PROVE cb[r][m] = "push"
    <3>1. CASE cb' = cb
      BY <2>4, <3>1
    <3>2. ASSUME NEW k \in Msgs, cb' = [cb EXCEPT ![p][k] = "none"] PROVE cb[r][m] = "push"
      BY <1>0, <2>4, <3>2
    <3> QED BY <1>15, <3>1, <3>2 DEF Fault
  <2> QED BY <1>3, <2>1, <2>2, <2>3, <2>4
<1>16. ASSUME NEW p \in Procs, NEW m \in Msgs, Kick(p, m) PROVE AcceptInv'
  <2>1. \A k \in Msgs : \A r \in Procs : cb'[r][k] = "push" => cb[r][k] = "push"
    BY <1>0, <1>16 DEF Kick
  <2> QED BY <1>3, <1>9, <1>16, <2>1 DEF Kick
<1>17. ASSUME NEW p \in Procs,
              Spawn(p) \/ RefreshGet(p) \/ RefreshExpire(p) \/ Finish(p) \/ Clear(p) \/ Wake(p)
                \/ CheckLen(p) \/ ReleaseGet(p) \/ ReleaseDel(p) \/ CheckBacklog(p)
                \/ Rekick(p) \/ Overrun(p)
       PROVE  AcceptInv'
  <2>1. UNCHANGED <<q, proc, hand, pushed, dedupe, cb, starts>>
    BY <1>17 DEF Spawn, RefreshGet, RefreshExpire, Finish, Clear, Wake, CheckLen, ReleaseGet,
                 ReleaseDel, CheckBacklog, Rekick, Overrun
  <2>2. \A r \in Procs : job'[r] \in {job[r], None}
    BY <1>0, <1>17 DEF Spawn, RefreshGet, RefreshExpire, Finish, Clear, Wake, CheckLen,
                 ReleaseGet, ReleaseDel, CheckBacklog, Rekick, Overrun
  <2> QED BY <1>3, <1>9, <2>1, <2>2
<1>18. CASE Lapse \/ ActiveLapse \/ UNCHANGED vars
  BY <1>3, <1>9, <1>18 DEF Lapse, ActiveLapse, vars
<1> QED
  BY <1>4, <1>5, <1>6, <1>7, <1>10, <1>11, <1>12, <1>13, <1>14, <1>15, <1>16, <1>17, <1>18
     DEF Next, Callback, Reclaim, Consume

-------------------------------------------------------------------------------
(* One job at a time.                                                        *)

LEMMA LongStep == TypeOK /\ [Next]_vars /\ n'["long"] = 0 => n["long"] = 0
<1> SUFFICES ASSUME TypeOK, [Next]_vars, n'["long"] = 0 PROVE n["long"] = 0
  OBVIOUS
<1>1. n \in [Kinds -> Nat] /\ n["long"] \in Nat
  BY Labels DEF TypeOK
<1>2. n' = n \/ \E k \in Kinds : Count(k)
  BY CountStep
<1>3. ASSUME NEW k \in Kinds, Count(k) PROVE n["long"] = 0
  BY <1>1, <1>3 DEF Count
<1> QED BY <1>2, <1>3

Owns(p) == Reclaiming(p) \/ w[p] \in Owning

LEMMA Alone ==
  ASSUME LockInv, n["long"] = 0
  PROVE  /\ \A p, r \in Procs : Owns(p) /\ Owns(r) => p = r
         /\ \A p \in Procs : Reclaiming(p) => w[p] \notin Owning
BY DEF LockInv, Owns, Owning

(* Processing holds one job at most: the one that the consumer works on, or  *)
(* the one that the last owner of the lock left behind.  Nobody consumes     *)
(* before it has been put back.                                              *)
PlaceInv ==
  n["long"] = 0 =>
    /\ proc # <<>> => \E x \in Msgs : proc = <<x>>
    /\ \A p \in Procs : hand[p] # None => Reclaiming(p) /\ proc = <<>>
    /\ \A p \in Procs :
         w[p] \in {"top", "expire", "take", "sleep", "len", "clear"} => proc = <<>>
    /\ \A p \in Procs : w[p] \in {"start", "handle", "ack"} => proc = <<job[p]>>

LEMMA PlaceInit == Init => PlaceInv
BY DEF Init, PlaceInv

LEMMA PlaceStep == TypeOK /\ LockInv /\ PlaceInv /\ [Next]_vars => PlaceInv'
<1> SUFFICES ASSUME TypeOK, LockInv, PlaceInv, [Next]_vars, n'["long"] = 0 PROVE PlaceInv'
  BY DEF PlaceInv
<1> USE DEF redis, local, hist, Goto
<1>0. /\ w \in [Procs -> PC] /\ guard \in [Procs -> Msgs \cup {None}]
      /\ hand \in [Procs -> Msgs \cup {None}] /\ job \in [Procs -> Msgs \cup {None}]
      /\ q \in Seq(Msgs) /\ proc \in Seq(Msgs)
  BY DEF TypeOK
<1>1. /\ n["long"] = 0
      /\ \A p, r \in Procs : Owns(p) /\ Owns(r) => p = r
      /\ \A p \in Procs : Reclaiming(p) => w[p] \notin Owning
  BY LongStep, Alone
<1>2. /\ proc # <<>> => \E x \in Msgs : proc = <<x>>
      /\ \A p \in Procs : hand[p] # None => Reclaiming(p) /\ proc = <<>>
      /\ \A p \in Procs :
           w[p] \in {"top", "expire", "take", "sleep", "len", "clear"} => proc = <<>>
      /\ \A p \in Procs : w[p] \in {"start", "handle", "ack"} => proc = <<job[p]>>
  BY <1>1 DEF PlaceInv
(* A step that leaves the lists and the hands alone, of one consumer p.      *)
<1>3. ASSUME NEW p \in Procs, UNCHANGED proc,
             \A r \in Procs : hand'[r] # None => hand'[r] = hand[r] /\ guard'[r] = guard[r],
             \A r \in Procs \ {p} : w'[r] = w[r] /\ job'[r] = job[r],
             w'[p] \in {"top", "expire", "take", "sleep", "len", "clear"} => proc = <<>>,
             w'[p] \in {"start", "handle", "ack"} => proc = <<job'[p]>>
      PROVE  PlaceInv'
  <2>1. \A r \in Procs : hand'[r] # None => Reclaiming(r)' /\ proc' = <<>>
    BY <1>2, <1>3 DEF Reclaiming
  <2>2. \A r \in Procs :
          w'[r] \in {"top", "expire", "take", "sleep", "len", "clear"} => proc' = <<>>
    BY <1>2, <1>3
  <2>3. \A r \in Procs : w'[r] \in {"start", "handle", "ack"} => proc' = <<job'[r]>>
    BY <1>2, <1>3
  <2> QED BY <1>2, <1>3, <2>1, <2>2, <2>3 DEF PlaceInv
<1>4. ASSUME UNCHANGED <<proc, hand, guard, w, job>> PROVE PlaceInv'
  BY <1>2, <1>4 DEF PlaceInv, Reclaiming
<1>5. ASSUME NEW p \in Procs, NEW m \in Msgs, Deliver(p, m) \/ Push(p, m) PROVE PlaceInv'
  BY <1>4, <1>5 DEF Deliver, Push
<1>6. ASSUME NEW p \in Procs, NEW m \in Msgs, Kick(p, m) PROVE PlaceInv'
  <2>1. \A r \in Procs : hand'[r] # None => hand'[r] = hand[r] /\ guard'[r] = guard[r]
    BY <1>0, <1>2, <1>6 DEF Kick, Reclaiming
  <2> QED BY <1>2, <1>3, <1>6, <2>1 DEF Kick
<1>7. ASSUME NEW p \in Procs, ReclaimPop(p) PROVE PlaceInv'
  <2>1. Reclaiming(p) /\ \A r \in Procs : Owns(r) => r = p /\ w[r] \notin Owning
    BY <1>1, <1>7 DEF ReclaimPop, Owns
  <2>2. proc' = <<>>
    <3>1. PICK x \in Msgs : proc = <<x>>
      BY <1>2, <1>7 DEF ReclaimPop
    <3> QED BY <1>7, <3>1 DEF ReclaimPop
  <2>3. \A r \in Procs : hand'[r] # None => Reclaiming(r)'
    BY <1>0, <1>2, <1>7 DEF ReclaimPop, Reclaiming
  <2>4. \A r \in Procs : w'[r] = w[r] /\ w[r] \notin Owning
    BY <1>7, <2>1 DEF ReclaimPop, Owns
  <2> QED BY <2>2, <2>3, <2>4 DEF PlaceInv, Owning
<1>8. ASSUME NEW p \in Procs, ReclaimPush(p) PROVE PlaceInv'
  <2>1. \A r \in Procs : hand'[r] # None => hand'[r] = hand[r] /\ guard'[r] = guard[r]
    BY <1>0, <1>8 DEF ReclaimPush
  <2> QED BY <1>2, <1>3, <1>8, <2>1 DEF ReclaimPush
<1>9. ASSUME NEW p \in Procs, Spawn(p) PROVE PlaceInv'
  <2>1. \A r \in Procs : hand'[r] # None => hand'[r] = hand[r] /\ guard'[r] = guard[r]
    BY <1>0, <1>9 DEF Spawn
  <2>2. w'[p] = "top" /\ proc = <<>> /\ proc' = proc
        /\ \A r \in Procs \ {p} : w'[r] = w[r] /\ job'[r] = job[r]
    BY <1>0, <1>9 DEF Spawn
  <2> QED BY <1>3, <2>1, <2>2
<1>10. ASSUME NEW p \in Procs,
              RefreshGet(p) \/ RefreshExpire(p) \/ Start(p) \/ Finish(p) \/ Clear(p) \/ Wake(p)
                \/ CheckLen(p) \/ ReleaseGet(p) \/ ReleaseDel(p) \/ CheckBacklog(p) \/ Rekick(p)
       PROVE  PlaceInv'
  <2>1. UNCHANGED <<proc, hand, guard>>
    BY <1>10 DEF RefreshGet, RefreshExpire, Start, Finish, Clear, Wake, CheckLen, ReleaseGet,
                 ReleaseDel, CheckBacklog, Rekick
  <2>2. \A r \in Procs \ {p} : w'[r] = w[r] /\ job'[r] = job[r]
    BY <1>0, <1>10 DEF RefreshGet, RefreshExpire, Start, Finish, Clear, Wake, CheckLen,
                 ReleaseGet, ReleaseDel, CheckBacklog, Rekick
  <2>3. /\ w'[p] \in {"top", "expire", "take", "sleep", "len", "clear"} =>
             w[p] \in {"top", "expire", "take", "sleep", "len", "clear"}
        /\ w'[p] \in {"start", "handle", "ack"} =>
             w[p] \in {"start", "handle", "ack"} /\ job'[p] = job[p]
    BY <1>0, <1>10 DEF RefreshGet, RefreshExpire, Start, Finish, Clear, Wake, CheckLen,
                 ReleaseGet, ReleaseDel, CheckBacklog, Rekick
  <2> QED BY <1>2, <1>3, <2>1, <2>2, <2>3
(* The consumer takes a job: processing was empty.                           *)
<1>11. ASSUME NEW p \in Procs, q # <<>>, proc' = Append(proc, Head(q)),
              w[p] \in {"top", "take"}
       PROVE  /\ \E x \in Msgs : proc' = <<x>>
              /\ proc' = <<Head(q)>>
              /\ \A r \in Procs : hand[r] = None
              /\ \A r \in Procs \ {p} : w[r] \notin Owning
  <2>1. proc = <<>> /\ Owns(p)
    BY <1>2, <1>11 DEF Owns, Owning
  <2>2. proc' = <<Head(q)>> /\ Head(q) \in Msgs
    BY <1>0, <1>11, <2>1, TailElems
  <2>3. \A r \in Procs : hand[r] = None
    BY <1>1, <1>2, <1>11, <2>1 DEF Owns, Owning
  <2> QED BY <1>1, <2>1, <2>2, <2>3 DEF Owns
<1>12. ASSUME NEW p \in Procs, Take(p) PROVE PlaceInv'
  <2>1. CASE q = <<>>
    <3>1. UNCHANGED <<proc, hand, guard, job>> /\ w' = [w EXCEPT ![p] = "sleep"]
      BY <1>12, <2>1 DEF Take
    <3>2. proc = <<>>
      BY <1>2, <1>12 DEF Take
    <3> QED BY <1>0, <1>3, <3>1, <3>2
  <2>2. CASE q # <<>>
    <3>1. /\ proc' = Append(proc, Head(q)) /\ hand' = hand
          /\ w' = [w EXCEPT ![p] = "start"] /\ job' = [job EXCEPT ![p] = Head(q)]
          /\ w[p] \in {"top", "take"}
      BY <1>12, <2>2 DEF Take
    <3>2. /\ \E x \in Msgs : proc' = <<x>>
          /\ proc' = <<Head(q)>>
          /\ \A r \in Procs : hand[r] = None
          /\ \A r \in Procs \ {p} : w[r] \notin Owning
      BY <1>11, <2>2, <3>1
    <3>3. \A r \in Procs : r = p \/ w'[r] \notin Owning
      BY <1>0, <3>1, <3>2
    <3>4. w'[p] = "start" /\ job'[p] = Head(q)
      BY <1>0, <3>1
    <3> QED BY <3>1, <3>2, <3>3, <3>4 DEF PlaceInv, Owning
  <2> QED BY <2>1, <2>2
<1>13. ASSUME NEW p \in Procs, Ack(p) PROVE PlaceInv'
  <2>1. proc = <<job[p]>> /\ Owns(p) /\ proc' = Without(proc, job[p])
    BY <1>2, <1>13 DEF Ack, Owns, Owning
  <2>2. proc' = <<>>
    BY <2>1, WithoutOnly
  <2>3. \A r \in Procs \ {p} : w'[r] \notin Owning
    BY <1>0, <1>1, <1>13, <2>1 DEF Ack, Owns
  <2>4. w'[p] = "clear" /\ \A r \in Procs : hand'[r] # None => Reclaiming(r)'
    BY <1>0, <1>2, <1>13 DEF Ack, Reclaiming
  <2> QED BY <2>2, <2>3, <2>4 DEF PlaceInv, Owning
<1>14. ASSUME NEW p \in Procs, Overrun(p) PROVE PlaceInv'
  BY <1>4, <1>14 DEF Overrun
<1>15. ASSUME NEW p \in Procs, Crash(p) \/ Exit(p) PROVE PlaceInv'
  <2>1. /\ \A r \in Procs : hand'[r] # None => hand'[r] = hand[r] /\ guard'[r] = guard[r]
        /\ \A r \in Procs \ {p} : w'[r] = w[r] /\ job'[r] = job[r]
        /\ w'[p] = "none" /\ proc' = proc
    BY <1>0, <1>15 DEF Crash, Exit, Forget
  <2> QED BY <1>3, <2>1
<1>16. ASSUME NEW p \in Procs, Fault(p) PROVE PlaceInv'
  <2>1. /\ \A r \in Procs : hand'[r] # None => hand'[r] = hand[r] /\ guard'[r] = guard[r]
        /\ \A r \in Procs \ {p} : w'[r] = w[r] /\ job'[r] = job[r]
        /\ proc' = proc
    BY <1>0, <1>16 DEF Fault
  <2>2. \/ w'[p] \in {"get", "none"}
        \/ w'[p] = w[p] /\ job'[p] = job[p]
        \/ w[p] = "start" /\ w'[p] = "ack" /\ job'[p] = job[p]
    BY <1>0, <1>16 DEF Fault
  <2> QED BY <1>2, <1>3, <2>1, <2>2
<1>17. ASSUME NEW p \in Procs, Shutdown(p) PROVE PlaceInv'
  <2>1. /\ UNCHANGED <<hand, guard>>
        /\ \A r \in Procs \ {p} : w'[r] = w[r] /\ job'[r] = job[r]
    BY <1>0, <1>17 DEF Shutdown
  <2>2. /\ w'[p] \in {"ack", "get", "none"}
        /\ w'[p] = "ack" => w[p] \in {"start", "handle"} /\ job'[p] = job[p]
    BY <1>0, <1>17 DEF Shutdown, Cancelled
  <2>3. CASE UNCHANGED proc
    BY <1>2, <1>3, <2>1, <2>2, <2>3
  <2>4. CASE /\ w[p] \in {"top", "take"} /\ q # <<>>
             /\ q' = Tail(q) /\ proc' = Append(proc, Head(q))
    <3>1. /\ \E x \in Msgs : proc' = <<x>>
          /\ \A r \in Procs : hand[r] = None
          /\ \A r \in Procs \ {p} : w[r] \notin Owning
      BY <1>11, <2>4
    <3>2. w'[p] \in {"get", "none"}
      BY <2>2, <2>4
    <3> QED BY <2>1, <3>1, <3>2 DEF PlaceInv, Owning
  <2> QED BY <1>17, <2>3, <2>4 DEF Shutdown
<1>18. CASE Lapse \/ ActiveLapse \/ UNCHANGED vars
  BY <1>4, <1>18 DEF Lapse, ActiveLapse, vars
<1> QED
  BY <1>5, <1>6, <1>7, <1>8, <1>9, <1>10, <1>12, <1>13, <1>14, <1>15, <1>16, <1>17, <1>18
     DEF Next, Callback, Reclaim, Consume

-------------------------------------------------------------------------------
(* First come, first served.                                                 *)

(* x comes before y in a list: on pushed, it was accepted first.             *)
Before(s, x, y) == \E i, j \in DOMAIN s : i < j /\ s[i] = x /\ s[j] = y

LEMMA BeforeOnce ==
  ASSUME TypeOK, AcceptInv, NEW x, NEW y, Before(pushed, x, y)
  PROVE  ~Before(pushed, y, x) /\ x # y
<1>1. DOMAIN pushed = 1..Len(pushed) /\ Len(pushed) \in Nat
  BY LenProperties DEF TypeOK
<1>2. PICK i \in 1..Len(pushed), j \in 1..Len(pushed) : i < j /\ pushed[i] = x /\ pushed[j] = y
  BY <1>1 DEF Before
<1>3. \A k, l \in 1..Len(pushed) : pushed[k] = pushed[l] => k = l
  BY <1>1 DEF AcceptInv
<1>4. x # y
  BY <1>2, <1>3
<1>5. ASSUME NEW k \in 1..Len(pushed), NEW l \in 1..Len(pushed),
             k < l, pushed[k] = y, pushed[l] = x
      PROVE  FALSE
  <2>1. k = j /\ l = i
    BY <1>2, <1>3, <1>5
  <2> QED BY <1>2, <1>5, <2>1
<1> QED BY <1>1, <1>4, <1>5 DEF Before

LEMMA BeforePush ==
  ASSUME TypeOK, NEW m \in Msgs, pushed' = Append(pushed, m)
  PROVE  /\ \A x, y : Before(pushed, x, y) => Before(pushed', x, y)
         /\ \A x \in Elems(pushed) : Before(pushed', x, m)
         /\ \A x, y : Before(pushed', x, y) => Before(pushed, x, y) \/ y = m
<1>1. /\ Len(pushed) \in Nat /\ DOMAIN pushed = 1..Len(pushed)
      /\ DOMAIN pushed' = 1..(Len(pushed) + 1)
      /\ \A i \in 1..Len(pushed) : pushed'[i] = pushed[i]
      /\ pushed'[Len(pushed) + 1] = m
  BY AppendAt DEF TypeOK
<1>2. ASSUME NEW x, NEW y, Before(pushed, x, y) PROVE Before(pushed', x, y)
  <2>1. PICK i \in 1..Len(pushed), j \in 1..Len(pushed) : i < j /\ pushed[i] = x /\ pushed[j] = y
    BY <1>1, <1>2 DEF Before
  <2>2. i \in DOMAIN pushed' /\ j \in DOMAIN pushed' /\ pushed'[i] = x /\ pushed'[j] = y
    BY <1>1, <2>1
  <2> QED BY <2>1, <2>2 DEF Before
<1>3. ASSUME NEW x \in Elems(pushed) PROVE Before(pushed', x, m)
  <2>1. PICK i \in 1..Len(pushed) : pushed[i] = x
    BY <1>1 DEF Elems
  <2>2. /\ i \in DOMAIN pushed' /\ Len(pushed) + 1 \in DOMAIN pushed'
        /\ i < Len(pushed) + 1 /\ pushed'[i] = x /\ pushed'[Len(pushed) + 1] = m
    BY <1>1, <2>1
  <2> QED BY <2>2 DEF Before
<1>4. ASSUME NEW x, NEW y, Before(pushed', x, y), y # m PROVE Before(pushed, x, y)
  <2>1. PICK i \in 1..(Len(pushed) + 1), j \in 1..(Len(pushed) + 1) :
          i < j /\ pushed'[i] = x /\ pushed'[j] = y
    BY <1>1, <1>4 DEF Before
  <2>2. j \in 1..Len(pushed)
    BY <1>1, <1>4, <2>1
  <2>3. i \in 1..Len(pushed)
    BY <1>1, <2>1, <2>2
  <2> QED BY <1>1, <2>1, <2>2, <2>3 DEF Before
<1> QED BY <1>2, <1>3, <1>4

(* Elements of a list of messages are at positions of it.                    *)
LEMMA ElemAt ==
  ASSUME NEW s \in Seq(Msgs), NEW x \in Elems(s)
  PROVE  x \in Msgs /\ \E i \in DOMAIN s : s[i] = x
<1>1. PICK i \in DOMAIN s : s[i] = x
  BY DEF Elems
<1> QED BY <1>1, ElementOfSeq, LenProperties

(* Jobs that were taken out of q and not acknowledged.                       *)
Ahead == Elems(proc) \cup (Hands \ {None})

(* The pending list is in the order of acceptance, whatever was taken out of *)
(* it comes first, and nothing that still waits is older than a started job. *)
OrderInv ==
  n["long"] = 0 =>
    /\ \A i, j \in DOMAIN q : i < j => Before(pushed, q[i], q[j])
    /\ \A x \in Ahead, y \in Elems(q) : Before(pushed, x, y)
    /\ \A x \in InLine, y \in Msgs : Before(pushed, x, y) /\ starts[y] > 0 => starts[x] > 0

LEMMA OrderInit == Init => OrderInv
<1> SUFFICES ASSUME Init PROVE OrderInv
  OBVIOUS
<1>1. DOMAIN q = {} /\ Elems(q) = {} /\ \A y \in Msgs : starts[y] = 0
  BY DEF Init, Elems
<1> QED BY <1>1 DEF OrderInv

LEMMA OrderStep ==
  TypeOK /\ AcceptInv /\ LockInv /\ PlaceInv /\ OrderInv /\ [Next]_vars => OrderInv'
<1> SUFFICES ASSUME TypeOK, AcceptInv, LockInv, PlaceInv, OrderInv, [Next]_vars, n'["long"] = 0
             PROVE  OrderInv'
  BY DEF OrderInv
<1> USE DEF redis, local, hist, Goto
<1>0. /\ w \in [Procs -> PC] /\ hand \in [Procs -> Msgs \cup {None}]
      /\ job \in [Procs -> Msgs \cup {None}] /\ starts \in [Msgs -> 0..Cap]
      /\ q \in Seq(Msgs) /\ proc \in Seq(Msgs) /\ pushed \in Seq(Msgs)
      /\ None \notin Msgs /\ Cap \in Nat
  BY QueueAssumption DEF TypeOK
<1>1. /\ n["long"] = 0
      /\ \A p, r \in Procs : Owns(p) /\ Owns(r) => p = r
      /\ \A p \in Procs : Reclaiming(p) => w[p] \notin Owning
  BY LongStep, Alone
<1>2. /\ proc # <<>> => \E x \in Msgs : proc = <<x>>
      /\ \A p \in Procs : hand[p] # None => Reclaiming(p) /\ proc = <<>>
      /\ \A p \in Procs : w[p] \in {"top", "take"} => proc = <<>>
      /\ \A p \in Procs : w[p] \in {"start", "handle", "ack"} => proc = <<job[p]>>
  BY <1>1 DEF PlaceInv
<1>3. /\ \A i, j \in DOMAIN q : i < j => Before(pushed, q[i], q[j])
      /\ \A x \in Ahead, y \in Elems(q) : Before(pushed, x, y)
      /\ \A x \in InLine, y \in Msgs : Before(pushed, x, y) /\ starts[y] > 0 => starts[x] > 0
  BY <1>1 DEF OrderInv
<1>4. /\ \A x : x \in Ahead <=> x \in Elems(proc) \/ (x \in Hands /\ x # None)
      /\ \A x : x \in InLine <=> x \in Elems(q) \/ x \in Ahead
  BY DEF Ahead, InLine
<1>5. /\ \A x : x \in Ahead' <=> x \in Elems(proc') \/ (x \in Hands' /\ x # None)
      /\ \A x : x \in InLine' <=> x \in Elems(q') \/ x \in Ahead'
  BY DEF Ahead, InLine, Elems
<1>6. /\ UNCHANGED pushed => \A x, y : Before(pushed', x, y) <=> Before(pushed, x, y)
      /\ UNCHANGED q => Elems(q') = Elems(q)
      /\ UNCHANGED proc => Elems(proc') = Elems(proc)
      /\ UNCHANGED hand => Hands' = Hands
  BY DEF Hands
(* The pending list stays, and nothing new goes ahead of it.                 *)
<1>7. ASSUME UNCHANGED <<q, pushed, starts>>, Ahead' \subseteq Ahead PROVE OrderInv'
  <2>1. \A x, y : Before(pushed', x, y) <=> Before(pushed, x, y)
    BY <1>6, <1>7
  <2>2. \A i, j \in DOMAIN q' : i < j => Before(pushed', q'[i], q'[j])
    BY <1>3, <1>7, <2>1
  <2>3. \A x \in Ahead', y \in Elems(q') : Before(pushed', x, y)
    BY <1>3, <1>7, <2>1
  <2>4. \A x \in InLine', y \in Msgs : Before(pushed', x, y) /\ starts'[y] > 0 => starts'[x] > 0
    BY <1>3, <1>4, <1>5, <1>7, <2>1
  <2> QED BY <2>2, <2>3, <2>4 DEF OrderInv
<1>8. ASSUME UNCHANGED <<q, proc, hand, pushed, starts>> PROVE OrderInv'
  BY <1>4, <1>5, <1>6, <1>7, <1>8
<1>9. ASSUME NEW p \in Procs, NEW m \in Msgs, Push(p, m) PROVE OrderInv'
  <2>1. /\ pushed' = Append(pushed, m) /\ q' = Append(q, m)
        /\ UNCHANGED <<proc, hand, starts>>
    BY <1>9 DEF Push
  <2>2. /\ \A x, y : Before(pushed, x, y) => Before(pushed', x, y)
        /\ \A x \in Elems(pushed) : Before(pushed', x, m)
        /\ \A x, y : Before(pushed', x, y) => Before(pushed, x, y) \/ y = m
    BY <2>1, BeforePush
  <2>3. /\ Len(q) \in Nat /\ DOMAIN q = 1..Len(q) /\ DOMAIN q' = 1..(Len(q) + 1)
        /\ \A i \in 1..Len(q) : q'[i] = q[i]
        /\ q'[Len(q) + 1] = m
        /\ Elems(q') = Elems(q) \cup {m}
    BY <1>0, <2>1, AppendAt, AppendElems
  <2>4. Elems(q) \subseteq Elems(pushed) /\ Ahead \subseteq Elems(pushed) /\ Ahead' = Ahead
    BY <1>4, <1>5, <1>6, <2>1 DEF AcceptInv
  <2>5. m \notin Elems(pushed) /\ ~(starts[m] > 0)
    BY <1>9 DEF Push, AcceptInv
  <2>6. ASSUME NEW i \in 1..(Len(q) + 1), NEW j \in 1..(Len(q) + 1), i < j
        PROVE  Before(pushed', q'[i], q'[j])
    <3>1. i \in 1..Len(q)
      BY <2>3, <2>6
    <3>2. CASE j \in 1..Len(q)
      BY <1>3, <2>2, <2>3, <2>6, <3>1, <3>2
    <3>3. CASE j = Len(q) + 1
      <4>1. q[i] \in Elems(pushed)
        BY <2>3, <2>4, <3>1 DEF Elems
      <4>2. Before(pushed', q[i], m)
        BY <2>2, <4>1
      <4> QED BY <2>3, <3>1, <3>3, <4>2
    <3> QED BY <2>3, <3>2, <3>3
  <2>7. \A x \in Ahead', y \in Elems(q') : Before(pushed', x, y)
    BY <1>3, <2>2, <2>3, <2>4
  <2>8. ASSUME NEW x \in InLine', NEW y \in Msgs, Before(pushed', x, y), starts'[y] > 0
        PROVE  starts'[x] > 0
    <3>1. y # m /\ Before(pushed, x, y)
      BY <2>1, <2>2, <2>5, <2>8
    <3>2. x # m
      <4>1. SUFFICES ASSUME x = m PROVE FALSE
        OBVIOUS
      <4>2. x \in Elems(pushed)
        BY <3>1 DEF Before, Elems
      <4> QED BY <2>5, <4>1, <4>2
    <3>3. x \in InLine
      BY <1>4, <1>5, <2>3, <2>4, <2>8, <3>2
    <3> QED BY <1>3, <2>1, <2>8, <3>1, <3>3
  <2>9. \A i, j \in DOMAIN q' : i < j => Before(pushed', q'[i], q'[j])
    BY <2>3, <2>6
  <2> QED BY <2>7, <2>8, <2>9 DEF OrderInv
<1>10. ASSUME NEW p \in Procs, ReclaimPop(p) PROVE OrderInv'
  <2>1. Elems(proc) = Elems(proc') \cup {Head(proc)}
    BY <1>0, <1>10, TailElems DEF ReclaimPop
  <2>2. Hands' \subseteq Hands \cup {Head(proc)}
    BY <1>0, <1>10 DEF ReclaimPop, Hands
  <2>3. Ahead' \subseteq Ahead
    BY <1>4, <1>5, <2>1, <2>2
  <2> QED BY <1>7, <1>10, <2>3 DEF ReclaimPop
<1>11. ASSUME NEW p \in Procs, ReclaimPush(p) PROVE OrderInv'
  <2>1. /\ hand[p] \in Msgs /\ hand[p] \in Ahead /\ q' = <<hand[p]>> \o q
        /\ UNCHANGED <<proc, pushed, starts>>
    BY <1>0, <1>11 DEF ReclaimPush, Ahead, Hands
  <2>2. /\ Len(q) \in Nat /\ DOMAIN q = 1..Len(q) /\ DOMAIN q' = 1..(Len(q) + 1)
        /\ q'[1] = hand[p]
        /\ \A i \in 2..(Len(q) + 1) : q'[i] = q[i - 1]
        /\ Elems(q') = Elems(q) \cup {hand[p]}
    BY <1>0, <2>1, PushAt, PushElems
  <2>3. \A r \in Procs : hand'[r] = None
    <3>1. \A r \in Procs : hand[r] # None => r = p
      BY <1>1, <1>2, <1>11 DEF ReclaimPush, Owns
    <3> QED BY <1>0, <1>11, <3>1 DEF ReclaimPush
  <2>4. Ahead' = {}
    <3>1. proc = <<>> /\ Hands' \subseteq {None}
      BY <1>2, <1>11, <2>3 DEF ReclaimPush, Hands
    <3>2. Elems(proc') = {}
      BY <2>1, <3>1 DEF Elems
    <3> QED BY <1>5, <3>1, <3>2
  <2>5. \A x, y : Before(pushed', x, y) <=> Before(pushed, x, y)
    BY <1>6, <2>1
  <2>6. ASSUME NEW i \in 1..(Len(q) + 1), NEW j \in 1..(Len(q) + 1), i < j
        PROVE  Before(pushed, q'[i], q'[j])
    <3>1. j \in 2..(Len(q) + 1) /\ j - 1 \in 1..Len(q) /\ q'[j] = q[j - 1]
      BY <2>2, <2>6
    <3>2. CASE i = 1
      <4>1. q[j - 1] \in Elems(q)
        BY <2>2, <3>1 DEF Elems
      <4> QED BY <1>3, <2>1, <2>2, <3>1, <3>2, <4>1
    <3>3. CASE i # 1
      <4>1. i - 1 \in 1..Len(q) /\ q'[i] = q[i - 1] /\ i - 1 < j - 1
        BY <2>2, <2>6, <3>3
      <4> QED BY <1>3, <2>2, <3>1, <4>1
    <3> QED BY <3>2, <3>3
  <2>7. \A x \in InLine', y \in Msgs : Before(pushed', x, y) /\ starts'[y] > 0 => starts'[x] > 0
    BY <1>3, <1>4, <1>5, <2>1, <2>2, <2>4, <2>5
  <2>8. \A i, j \in DOMAIN q' : i < j => Before(pushed', q'[i], q'[j])
    BY <2>2, <2>5, <2>6
  <2> QED BY <2>4, <2>7, <2>8 DEF OrderInv
(* A job is taken out of q: it was the oldest there, nothing was ahead.      *)
<1>12. ASSUME NEW p \in Procs, w[p] \in {"top", "take"}, q # <<>>,
              q' = Tail(q), proc' = Append(proc, Head(q)), UNCHANGED <<hand, pushed, starts>>
       PROVE  OrderInv'
  <2>1. proc = <<>> /\ \A r \in Procs : hand[r] = None
    BY <1>1, <1>2, <1>12 DEF Owns, Owning
  <2>2. /\ Len(q) \in Nat \ {0} /\ DOMAIN q = 1..Len(q) /\ Head(q) = q[1]
        /\ DOMAIN q' = 1..(Len(q) - 1)
        /\ \A i \in 1..(Len(q) - 1) : q'[i] = q[i + 1]
    BY <1>0, <1>12, TailAt
  <2>3. Head(q) \in Msgs /\ Elems(q) = Elems(q') \cup {Head(q)}
    BY <1>0, <1>12, TailElems
  <2>4. Elems(proc') = {Head(q)}
    <3>1. Elems(proc') = Elems(proc) \cup {Head(q)}
      BY <1>0, <1>12, <2>3, AppendElems
    <3> QED BY <2>1, <3>1 DEF Elems
  <2>5. Ahead' = {Head(q)}
    <3>1. Hands' \subseteq {None}
      BY <1>12, <2>1 DEF Hands
    <3> QED BY <1>5, <2>4, <3>1
  <2>6. \A x, y : Before(pushed', x, y) <=> Before(pushed, x, y)
    BY <1>6, <1>12
  <2>7. ASSUME NEW i \in 1..(Len(q) - 1), NEW j \in 1..(Len(q) - 1), i < j
        PROVE  Before(pushed, q'[i], q'[j])
    <3>1. i + 1 \in 1..Len(q) /\ j + 1 \in 1..Len(q) /\ i + 1 < j + 1
      BY <2>2, <2>7
    <3> QED BY <1>3, <2>2, <2>7, <3>1
  <2>8. ASSUME NEW y \in Elems(q') PROVE Before(pushed, Head(q), y)
    <3>1. PICK j \in 1..(Len(q) - 1) : q'[j] = y
      BY <2>2, <2>8 DEF Elems
    <3>2. 1 \in 1..Len(q) /\ j + 1 \in 1..Len(q) /\ 1 < j + 1 /\ q[j + 1] = y
      BY <2>2, <3>1
    <3> QED BY <1>3, <2>2, <3>2
  <2>9. \A x \in InLine', y \in Msgs : Before(pushed', x, y) /\ starts'[y] > 0 => starts'[x] > 0
    BY <1>3, <1>4, <1>5, <1>12, <2>3, <2>5, <2>6
  <2>10. \A i, j \in DOMAIN q' : i < j => Before(pushed', q'[i], q'[j])
    BY <2>2, <2>6, <2>7
  <2>11. \A x \in Ahead', y \in Elems(q') : Before(pushed', x, y)
    BY <2>5, <2>6, <2>8
  <2> QED BY <2>9, <2>10, <2>11 DEF OrderInv
<1>13. ASSUME NEW p \in Procs, Take(p) PROVE OrderInv'
  <2>1. CASE q = <<>>
    BY <1>8, <1>13, <2>1 DEF Take
  <2>2. CASE q # <<>>
    BY <1>12, <1>13, <2>2 DEF Take
  <2> QED BY <2>1, <2>2
<1>14. ASSUME NEW p \in Procs, Shutdown(p) PROVE OrderInv'
  <2>1. CASE UNCHANGED <<q, proc>>
    BY <1>8, <1>14, <2>1 DEF Shutdown
  <2>2. CASE w[p] \in {"top", "take"} /\ q # <<>> /\ q' = Tail(q) /\ proc' = Append(proc, Head(q))
    BY <1>12, <1>14, <2>2 DEF Shutdown
  <2> QED BY <1>14, <2>1, <2>2 DEF Shutdown
(* The job that starts is ahead of everything that waits.                    *)
<1>15. ASSUME NEW p \in Procs, Start(p) PROVE OrderInv'
  <2>1. /\ UNCHANGED <<q, proc, hand, pushed>> /\ proc = <<job[p]>>
        /\ \A r \in Procs : hand[r] = None
    BY <1>0, <1>1, <1>2, <1>15 DEF Start, Owns, Owning
  <2>2. job[p] \in Msgs /\ Elems(proc) = {job[p]}
    <3>1. Elems(proc) = {job[p]}
      BY <2>1 DEF Elems
    <3> QED BY <1>0, <3>1, ElemAt
  <2>3. Ahead = {job[p]} /\ Ahead' = {job[p]}
    <3>1. Hands \subseteq {None} /\ Hands' = Hands /\ Elems(proc') = Elems(proc)
      BY <1>6, <2>1 DEF Hands
    <3> QED BY <1>4, <1>5, <2>2, <3>1
  <2>4. \A x, y : Before(pushed', x, y) <=> Before(pushed, x, y)
    BY <1>6, <2>1
  <2>5. \A y \in Msgs : /\ y # job[p] => starts'[y] = starts[y]
                        /\ starts[y] > 0 => starts'[y] > 0
    BY <1>0, <1>15, <2>2 DEF Start
  <2>6. ASSUME NEW x \in InLine', NEW y \in Msgs, Before(pushed', x, y), starts'[y] > 0
        PROVE  starts'[x] > 0
    <3>1. x \in InLine /\ Before(pushed, x, y) /\ x \in Msgs
      <4>1. x \in InLine /\ Before(pushed, x, y)
        BY <1>4, <1>5, <1>6, <2>1, <2>3, <2>4, <2>6
      <4> QED BY <1>0, <1>4, <2>2, <2>3, <4>1, ElemAt
    <3>2. CASE y # job[p]
      BY <1>3, <2>5, <2>6, <3>1, <3>2
    <3>3. CASE y = job[p]
      <4>1. x # job[p] /\ ~Before(pushed, job[p], x)
        BY <3>1, <3>3, BeforeOnce
      <4>2. x \in Elems(q)
        BY <1>4, <2>3, <3>1, <4>1
      <4> QED BY <1>3, <2>3, <4>1, <4>2
    <3> QED BY <3>2, <3>3
  <2>7. \A i, j \in DOMAIN q' : i < j => Before(pushed', q'[i], q'[j])
    BY <1>3, <2>1, <2>4
  <2>8. \A x \in Ahead', y \in Elems(q') : Before(pushed', x, y)
    BY <1>3, <1>6, <2>1, <2>3, <2>4
  <2> QED BY <2>6, <2>7, <2>8 DEF OrderInv
<1>16. ASSUME NEW p \in Procs, Ack(p) PROVE OrderInv'
  <2>1. Elems(proc') \subseteq Elems(proc) /\ Hands' = Hands
    BY <1>0, <1>16, WithoutElems DEF Ack, Hands
  <2>2. Ahead' \subseteq Ahead
    BY <1>4, <1>5, <2>1
  <2> QED BY <1>7, <1>16, <2>2 DEF Ack
<1>17. ASSUME NEW p \in Procs, Crash(p) \/ Exit(p) \/ Fault(p) PROVE OrderInv'
  <2>1. Hands' \subseteq Hands \cup {None} /\ UNCHANGED <<q, proc, pushed, starts>>
    BY <1>0, <1>17 DEF Crash, Exit, Forget, Fault, Hands
  <2>2. Ahead' \subseteq Ahead
    BY <1>4, <1>5, <1>6, <2>1
  <2> QED BY <1>7, <2>1, <2>2
<1>18. ASSUME NEW p \in Procs, NEW m \in Msgs, Deliver(p, m) \/ Kick(p, m) PROVE OrderInv'
  BY <1>8, <1>18 DEF Deliver, Kick
<1>19. ASSUME NEW p \in Procs,
              Spawn(p) \/ RefreshGet(p) \/ RefreshExpire(p) \/ Finish(p) \/ Clear(p) \/ Wake(p)
                \/ CheckLen(p) \/ ReleaseGet(p) \/ ReleaseDel(p) \/ CheckBacklog(p)
                \/ Rekick(p) \/ Overrun(p)
       PROVE  OrderInv'
  BY <1>8, <1>19 DEF Spawn, RefreshGet, RefreshExpire, Finish, Clear, Wake, CheckLen,
     ReleaseGet, ReleaseDel, CheckBacklog, Rekick, Overrun
<1>20. CASE Lapse \/ ActiveLapse \/ UNCHANGED vars
  BY <1>8, <1>20 DEF Lapse, ActiveLapse, vars
<1> QED
  BY <1>9, <1>10, <1>11, <1>13, <1>14, <1>15, <1>16, <1>17, <1>18, <1>19, <1>20
     DEF Next, Callback, Reclaim, Consume

(* What every step of the queue preserves.                                   *)
QueueInv == LockInv /\ AcceptInv /\ PlaceInv

LEMMA QueueInvCorrect == Spec => [](TypeInv /\ QueueInv)
<1>1. Init => QueueInv
  BY LockInit, AcceptInit, PlaceInit DEF QueueInv
<1>2. TypeInv /\ TypeInv' /\ QueueInv /\ [Next]_vars => QueueInv'
  BY LockStep, AcceptStep, PlaceStep DEF QueueInv, TypeInv
<1> QED
  BY <1>1, <1>2, TypeCorrect, PTL DEF Spec

(* As long as no handler outlives the TTL of the lock, a job is started only *)
(* after every job accepted before it, whatever crashes, is shut down, fails *)
(* and is reclaimed in between.                                              *)
THEOREM FIFOCorrect == Spec => []FIFO
<1>1. TypeInv /\ QueueInv /\ OrderInv => FIFO
  <2> SUFFICES ASSUME TypeOK, OrderInv, n["long"] = 0, NEW i \in DOMAIN pushed, NEW j \in DOMAIN pushed,
                      i < j, starts[pushed[j]] > 0, pushed[i] \in InRedis
               PROVE  starts[pushed[i]] > 0
    BY DEF FIFO, TypeInv
  <2>1. Before(pushed, pushed[i], pushed[j]) /\ pushed[j] \in Msgs
    BY ElementOfSeq, LenProperties DEF Before, TypeOK
  <2>2. pushed[i] \in InLine
    BY DEF InRedis, InLine
  <2> QED BY <2>1, <2>2 DEF OrderInv
<1>2. Init => OrderInv
  BY OrderInit
<1>3. TypeInv /\ QueueInv /\ OrderInv /\ [Next]_vars => OrderInv'
  BY OrderStep DEF QueueInv, TypeInv
<1> QED
  BY <1>1, <1>2, <1>3, QueueInvCorrect, PTL DEF Spec

-------------------------------------------------------------------------------
(* What a job is handed out for.                                             *)

(* Nothing but an incident will hand m to the handler again: the consumer    *)
(* has it in the handler or before the ack, or it has left Redis.            *)
Served(m) ==
  /\ m \in Elems(pushed)
  /\ m \in InLine => \E p \in Procs : w[p] \in {"handle", "ack"} /\ job[p] = m
Owed(m) == IF Served(m) THEN 0 ELSE 1

(* Every start is paid for: the first one by the acceptance, every other one *)
(* by a mishap, and a process that is still to end has paid in advance.      *)
AccountInv ==
  n["long"] = 0 =>
    \A m \in Msgs : starts[m] + Owed(m) + Cardinality(stopping) <= 1 + Mishaps

LEMMA AccountInit == Init => AccountInv
<1> SUFFICES ASSUME Init, NEW m \in Msgs
             PROVE  starts[m] + Owed(m) + Cardinality(stopping) <= 1 + Mishaps
  BY DEF AccountInv
<1>1. starts[m] = 0 /\ Cardinality(stopping) = 0
  BY FS_EmptySet DEF Init
<1>2. Mishaps = 0
  BY Labels DEF Init, Mishaps
<1>3. Owed(m) \in 0..1
  BY DEF Owed
<1> QED BY <1>1, <1>2, <1>3

LEMMA AccountStep ==
  TypeOK /\ TypeOK' /\ QueueInv /\ OrderInv /\ LossInv /\ LossInv' /\ AccountInv /\ [Next]_vars
    => AccountInv'
<1> SUFFICES ASSUME TypeOK, TypeOK', QueueInv, OrderInv, LossInv, LossInv', AccountInv,
                    [Next]_vars, n'["long"] = 0, NEW m \in Msgs
             PROVE  starts'[m] + Owed(m)' + Cardinality(stopping') <= 1 + Mishaps'
  BY DEF AccountInv
<1> DEFINE Goal == starts'[m] + Owed(m)' + Cardinality(stopping') <= 1 + Mishaps'
<1> USE DEF redis, local, hist, Goto
<1>0. /\ w \in [Procs -> PC] /\ hand \in [Procs -> Msgs \cup {None}]
      /\ job \in [Procs -> Msgs \cup {None}] /\ starts \in [Msgs -> 0..Cap]
      /\ q \in Seq(Msgs) /\ proc \in Seq(Msgs) /\ pushed \in Seq(Msgs)
      /\ n \in [Kinds -> Nat]
      /\ None \notin Msgs /\ Cap \in Nat
  BY QueueAssumption DEF TypeOK
<1>1. /\ n["long"] = 0
      /\ \A p, r \in Procs : Owns(p) /\ Owns(r) => p = r
      /\ \A p \in Procs : Reclaiming(p) => w[p] \notin Owning
  BY LongStep, Alone DEF QueueInv
<1>2. /\ \A p \in Procs : hand[p] # None => Reclaiming(p) /\ proc = <<>>
      /\ \A p \in Procs : w[p] \in {"top", "take"} => proc = <<>>
      /\ \A p \in Procs : w[p] \in {"start", "handle", "ack"} => proc = <<job[p]>>
  BY <1>1 DEF PlaceInv, QueueInv
<1>3. \A x \in Ahead, y \in Elems(q) : Before(pushed, x, y)
  BY <1>1 DEF OrderInv
<1>4. starts[m] + Owed(m) + Cardinality(stopping) <= 1 + Mishaps
  BY <1>1 DEF AccountInv
<1>5. /\ starts[m] \in Nat /\ starts'[m] \in Nat
      /\ Owed(m) \in 0..1 /\ Owed(m)' \in 0..1
      /\ Served(m) => Owed(m) = 0
      /\ ~Served(m) => Owed(m) = 1
      /\ Served(m)' => Owed(m)' = 0
      /\ ~Served(m)' => Owed(m)' = 1
      /\ Cardinality(stopping) \in Nat /\ Cardinality(stopping') \in Nat
      /\ Mishaps \in Nat
  <2>1. starts[m] \in 0..Cap /\ starts'[m] \in 0..Cap
    BY <1>0 DEF TypeOK
  <2>2. Cardinality(stopping) \in Nat /\ Cardinality(stopping') \in Nat
    BY FS_CardinalityType DEF LossInv
  <2> QED BY <1>0, <2>1, <2>2, MishapsStep DEF Owed
<1>6. /\ \A x : x \in Ahead <=> x \in Elems(proc) \/ (x \in Hands /\ x # None)
      /\ \A x : x \in InLine <=> x \in Elems(q) \/ x \in Ahead
      /\ \A x : x \in Ahead' <=> x \in Elems(proc') \/ (x \in Hands' /\ x # None)
      /\ \A x : x \in InLine' <=> x \in Elems(q') \/ x \in Ahead'
  BY DEF Ahead, InLine, Elems
<1>7. \A x : ~(x \in Elems(q) /\ x \in Ahead)
  BY <1>3, BeforeOnce DEF QueueInv
(* A served job is with the consumer and nowhere else.                       *)
<1>8. ASSUME NEW p \in Procs, w[p] \in {"handle", "ack"}, job[p] = m
      PROVE  /\ proc = <<m>> /\ m \in Ahead /\ m \notin Elems(q) /\ m \notin Hands
             /\ \A r \in Procs : Owns(r) => r = p
             /\ Owns(p)
  <2>1. proc = <<m>>
    BY <1>2, <1>8
  <2>2. m \in Ahead
    <3>1. m \in Elems(proc)
      BY <2>1 DEF Elems
    <3> QED BY <1>6, <3>1
  <2>3. m \notin Hands
    BY <1>0, <1>2, <2>1 DEF Hands
  <2>4. Owns(p)
    BY <1>8 DEF Owns, Owning
  <2> QED BY <1>1, <1>7, <2>1, <2>2, <2>3, <2>4
<1>9. ASSUME Served(m) => Served(m)', starts'[m] = starts[m], stopping' = stopping,
             Mishaps' = Mishaps
      PROVE  Goal
  BY <1>4, <1>5, <1>9
<1>10. ASSUME starts'[m] = starts[m], Cardinality(stopping') <= Cardinality(stopping),
              Mishaps' = Mishaps + 1
       PROVE  Goal
  BY <1>4, <1>5, <1>10
<1>11. ASSUME UNCHANGED pushed, InLine' \subseteq InLine,
              \A r \in Procs : w[r] \in {"handle", "ack"} /\ job[r] = m /\ m \in InLine' =>
                 \E p \in Procs : w'[p] \in {"handle", "ack"} /\ job'[p] = m
       PROVE  Served(m) => Served(m)'
  BY <1>11 DEF Served, Elems
<1>12. ASSUME UNCHANGED <<q, proc, hand>> PROVE InLine' \subseteq InLine
  BY <1>12 DEF InLine, Hands, Elems
(* The callback and the reclaimer.                                           *)
<1>13. ASSUME NEW p \in Procs, NEW k \in Msgs, Deliver(p, k) \/ Kick(p, k) PROVE Goal
  <2>1. UNCHANGED <<q, proc, hand, pushed, w, job, starts, stopping, n>>
    BY <1>13 DEF Deliver, Kick
  <2>2. Mishaps' = Mishaps
    BY <1>0, <2>1, MishapsStep
  <2> QED BY <1>9, <1>11, <1>12, <2>1, <2>2
<1>14. ASSUME NEW p \in Procs, NEW k \in Msgs, Push(p, k) PROVE Goal
  <2>1. /\ Elems(pushed') = Elems(pushed) \cup {k} /\ Elems(q') = Elems(q) \cup {k}
        /\ UNCHANGED <<proc, hand, w, job, starts, stopping, n>>
    BY <1>0, <1>14, AppendElems DEF Push
  <2>2. k \notin Elems(pushed)
    BY <1>14 DEF Push, QueueInv, AcceptInv
  <2>3. Hands' = Hands /\ Elems(proc') = Elems(proc)
    BY <2>1 DEF Hands
  <2>4. ASSUME Served(m) PROVE Served(m)'
    <3>1. m \in Elems(pushed) /\ m # k
      BY <2>2, <2>4 DEF Served
    <3>2. m \in InLine' => m \in InLine
      BY <1>6, <2>1, <2>3, <3>1
    <3>3. m \in Elems(pushed')
      BY <2>1, <3>1
    <3>4. m \in InLine' => \E r \in Procs : w'[r] \in {"handle", "ack"} /\ job'[r] = m
      BY <2>1, <2>4, <3>2 DEF Served
    <3> QED BY <3>3, <3>4 DEF Served, Elems
  <2>5. Mishaps' = Mishaps
    BY <1>0, <2>1, MishapsStep
  <2> QED BY <1>9, <2>1, <2>4, <2>5
<1>15. ASSUME NEW p \in Procs, ReclaimPop(p) PROVE Goal
  <2>1. /\ Elems(proc) = Elems(proc') \cup {Head(proc)}
        /\ UNCHANGED <<q, pushed, w, job, starts, stopping, n>>
    BY <1>0, <1>15, TailElems DEF ReclaimPop
  <2>2. Hands' \subseteq Hands \cup {Head(proc)}
    BY <1>0, <1>15 DEF ReclaimPop, Hands
  <2>3. InLine' \subseteq InLine
    BY <1>6, <2>1, <2>2
  <2>4. Mishaps' = Mishaps
    BY <1>0, <2>1, MishapsStep
  <2> QED BY <1>9, <1>11, <2>1, <2>3, <2>4
<1>16. ASSUME NEW p \in Procs, ReclaimPush(p) PROVE Goal
  <2>1. hand[p] \in Msgs /\ hand[p] \in Hands
    BY <1>0, <1>16 DEF ReclaimPush, Hands
  <2>2. /\ Elems(q') = Elems(q) \cup {hand[p]}
        /\ UNCHANGED <<proc, pushed, w, job, starts, stopping, n>>
    BY <1>0, <1>16, <2>1, PushElems DEF ReclaimPush
  <2>3. Hands' \subseteq Hands \cup {None}
    BY <1>0, <1>16 DEF ReclaimPush, Hands
  <2>4. InLine' \subseteq InLine
    BY <1>0, <1>6, <2>1, <2>2, <2>3
  <2>5. Mishaps' = Mishaps
    BY <1>0, <2>2, MishapsStep
  <2> QED BY <1>9, <1>11, <2>2, <2>4, <2>5
(* The consumer.                                                             *)
<1>17. ASSUME q # <<>>, q' = Tail(q), proc' = Append(proc, Head(q)), hand' = hand
       PROVE  InLine' \subseteq InLine
  <2>1. Head(q) \in Msgs /\ Elems(q) = Elems(q') \cup {Head(q)}
    BY <1>0, <1>17, TailElems
  <2>2. Elems(proc') = Elems(proc) \cup {Head(q)}
    BY <1>0, <1>17, <2>1, AppendElems
  <2>3. Hands' = Hands
    BY <1>17 DEF Hands
  <2> QED BY <1>6, <2>1, <2>2, <2>3
<1>18. ASSUME NEW p \in Procs, Take(p) PROVE Goal
  <2>1. InLine' \subseteq InLine
    <3>1. CASE q = <<>>
      BY <1>12, <1>18, <3>1 DEF Take
    <3>2. CASE q # <<>>
      BY <1>17, <1>18, <3>2 DEF Take
    <3> QED BY <3>1, <3>2
  <2>2. \A r \in Procs : w[r] \in {"handle", "ack"} => w'[r] = w[r] /\ job'[r] = job[r]
    BY <1>0, <1>18 DEF Take
  <2>3. UNCHANGED <<pushed, starts, stopping, n>>
    BY <1>18 DEF Take
  <2>4. Mishaps' = Mishaps
    BY <1>0, <2>3, MishapsStep
  <2> QED BY <1>9, <1>11, <2>1, <2>2, <2>3, <2>4
<1>19. ASSUME NEW p \in Procs, Start(p) PROVE Goal
  <2>1. /\ UNCHANGED <<q, proc, hand, pushed, job, stopping, n>>
        /\ w' = [w EXCEPT ![p] = "handle"] /\ proc = <<job[p]>> /\ Owns(p)
    BY <1>2, <1>19 DEF Start, Owns, Owning
  <2>2. Mishaps' = Mishaps
    BY <1>0, <2>1, MishapsStep
  <2>3. CASE job[p] = m
    <3>1. ~Served(m)
      <4>1. SUFFICES ASSUME Served(m) PROVE FALSE
        OBVIOUS
      <4>2. m \in InLine
        <5>1. m \in Elems(proc)
          BY <2>1, <2>3 DEF Elems
        <5> QED BY <1>6, <5>1
      <4>3. PICK r \in Procs : w[r] \in {"handle", "ack"} /\ job[r] = m
        BY <4>1, <4>2 DEF Served
      <4>4. r = p
        BY <1>8, <2>1, <4>3
      <4> QED BY <1>19, <4>3, <4>4 DEF Start
    <3>2. Served(m)'
      <4>1. m \in Elems(pushed)
        BY <1>0, <2>3 DEF QueueInv, AcceptInv
      <4>2. w'[p] \in {"handle", "ack"} /\ job'[p] = m
        BY <1>0, <2>1, <2>3
      <4> QED BY <2>1, <4>1, <4>2 DEF Served, Elems
    <3>3. starts'[m] <= starts[m] + 1
      BY <1>0, <1>19, <2>3 DEF Start
    <3> QED BY <1>4, <1>5, <2>1, <2>2, <3>1, <3>2, <3>3
  <2>4. CASE job[p] # m
    <3>1. starts'[m] = starts[m]
      BY <1>0, <1>19, <2>4 DEF Start
    <3>2. \A r \in Procs : w[r] \in {"handle", "ack"} => w'[r] = w[r]
      BY <1>0, <1>19, <2>1 DEF Start
    <3> QED BY <1>9, <1>11, <1>12, <2>1, <2>2, <3>1, <3>2
  <2> QED BY <2>3, <2>4
<1>20. ASSUME NEW p \in Procs, Finish(p) PROVE Goal
  <2>1. UNCHANGED <<q, proc, hand, pushed, job, starts, stopping, n>>
    BY <1>20 DEF Finish
  <2>2. \A r \in Procs : w[r] \in {"handle", "ack"} => w'[r] \in {"handle", "ack"}
    BY <1>0, <1>20 DEF Finish
  <2>3. Mishaps' = Mishaps
    BY <1>0, <2>1, MishapsStep
  <2> QED BY <1>9, <1>11, <1>12, <2>1, <2>2, <2>3
<1>21. ASSUME NEW p \in Procs, Ack(p) PROVE Goal
  <2>1. /\ UNCHANGED <<q, hand, pushed, job, starts, stopping, n>>
        /\ w' = [w EXCEPT ![p] = "clear"] /\ proc' = Without(proc, job[p])
        /\ proc = <<job[p]>> /\ Owns(p)
    BY <1>2, <1>21 DEF Ack, Owns, Owning
  <2>2. proc' = <<>>
    BY <2>1, WithoutOnly
  <2>3. InLine' \subseteq InLine
    <3>1. Elems(proc') = {} /\ Hands' = Hands
      BY <2>1, <2>2 DEF Elems, Hands
    <3> QED BY <1>6, <2>1, <3>1
  <2>4. \A r \in Procs : w[r] \in {"handle", "ack"} /\ job[r] = m => m \notin InLine'
    <3>1. SUFFICES ASSUME NEW r \in Procs, w[r] \in {"handle", "ack"}, job[r] = m
                   PROVE  m \notin InLine'
      OBVIOUS
    <3>2. m \notin Elems(q) /\ m \notin Hands
      BY <1>8, <3>1
    <3>3. Elems(proc') = {} /\ Hands' = Hands /\ Elems(q') = Elems(q)
      BY <2>1, <2>2 DEF Elems, Hands
    <3> QED BY <1>6, <3>2, <3>3
  <2>5. Mishaps' = Mishaps
    BY <1>0, <2>1, MishapsStep
  <2> QED BY <1>9, <1>11, <2>1, <2>3, <2>4, <2>5
<1>22. ASSUME NEW p \in Procs,
              Spawn(p) \/ RefreshGet(p) \/ RefreshExpire(p) \/ Clear(p) \/ Wake(p)
                \/ CheckLen(p) \/ ReleaseGet(p) \/ ReleaseDel(p) \/ CheckBacklog(p) \/ Rekick(p)
       PROVE  Goal
  <2>1. UNCHANGED <<q, proc, hand, pushed, starts, stopping, n>>
    BY <1>22 DEF Spawn, RefreshGet, RefreshExpire, Clear, Wake, CheckLen, ReleaseGet,
                 ReleaseDel, CheckBacklog, Rekick
  <2>2. Spawn(p) => w[p] \notin Owning
    BY <1>1 DEF Spawn
  <2>3. \A r \in Procs : w[r] \in {"handle", "ack"} => w'[r] = w[r] /\ job'[r] = job[r]
    BY <1>0, <1>22, <2>2 DEF Spawn, RefreshGet, RefreshExpire, Clear, Wake, CheckLen,
                 ReleaseGet, ReleaseDel, CheckBacklog, Rekick, Owning
  <2>4. Mishaps' = Mishaps
    BY <1>0, <2>1, MishapsStep
  <2> QED BY <1>9, <1>11, <1>12, <2>1, <2>3, <2>4
<1>23. ASSUME NEW p \in Procs, Overrun(p) PROVE FALSE
  BY <1>0, <1>1, <1>23, Labels DEF Overrun, Count
<1>24. CASE Lapse \/ ActiveLapse \/ UNCHANGED vars
  <2>1. UNCHANGED <<q, proc, hand, pushed, w, job, starts, stopping, n>>
    BY <1>24 DEF Lapse, ActiveLapse, vars
  <2>2. Mishaps' = Mishaps
    BY <1>0, <2>1, MishapsStep
  <2> QED BY <1>9, <1>11, <1>12, <2>1, <2>2
(* The incidents.                                                            *)
<1>25. ASSUME NEW p \in Procs, Crash(p) PROVE Goal
  <2>1. stopping' \subseteq stopping /\ starts' = starts
    BY <1>25 DEF Crash, Forget
  <2>2. Cardinality(stopping') <= Cardinality(stopping)
    BY <2>1, CardinalityDown DEF LossInv
  <2>3. Mishaps' = Mishaps + 1
    BY <1>0, <1>25, MishapsStep DEF Crash
  <2> QED BY <1>10, <2>1, <2>2, <2>3
<1>26. ASSUME NEW p \in Procs, Fault(p) PROVE Goal
  <2>1. stopping' = stopping /\ starts' = starts
    BY <1>26 DEF Fault
  <2>2. Mishaps' = Mishaps + 1
    BY <1>0, <1>26, MishapsStep DEF Fault
  <2> QED BY <1>5, <1>10, <2>1, <2>2
<1>27. ASSUME NEW p \in Procs, Exit(p) PROVE Goal
  <2>1. stopping' \subseteq stopping /\ p \in stopping /\ p \notin stopping' /\ starts' = starts
    BY <1>27 DEF Exit, Forget
  <2>2. Cardinality(stopping') <= Cardinality(stopping) - 1
    BY <2>1, CardinalityDown DEF LossInv
  <2>3. Mishaps' = Mishaps
    BY <1>0, <1>27, MishapsStep DEF Exit
  <2> QED BY <1>4, <1>5, <2>1, <2>2, <2>3
<1>28. ASSUME NEW p \in Procs, Shutdown(p) PROVE Goal
  <2>1. stopping' = stopping \cup {p} /\ starts' = starts
    BY <1>28 DEF Shutdown
  <2>2. Cardinality(stopping') <= Cardinality(stopping) + 1
    BY <2>1, CardinalityUp DEF LossInv
  <2>3. Mishaps' = Mishaps + 2
    BY <1>0, <1>28, MishapsStep DEF Shutdown
  <2> QED BY <1>4, <1>5, <2>1, <2>2, <2>3
<1> QED
  BY <1>13, <1>14, <1>15, <1>16, <1>18, <1>19, <1>20, <1>21, <1>22, <1>23, <1>24, <1>25,
     <1>26, <1>27, <1>28 DEF Next, Callback, Reclaim, Consume

(* However often the platform delivers a message, its job is handed to the   *)
(* handler once, and once more for every crash, shutdown (two) or fault, as  *)
(* long as no handler outlives the TTL of the lock.                          *)
THEOREM RedeliveryBoundedCorrect == Spec => []RedeliveryBounded
<1>1. TypeInv /\ LossInv /\ AccountInv => RedeliveryBounded
  <2> SUFFICES ASSUME TypeOK, LossInv, AccountInv, n["long"] = 0, NEW m \in Msgs
               PROVE  starts[m] <= 1 + Mishaps
    BY DEF RedeliveryBounded, TypeInv
  <2>1. Cardinality(stopping) \in Nat /\ Mishaps \in Nat
    BY FS_CardinalityType, MishapsStep DEF LossInv, TypeOK
  <2>2. Owed(m) \in 0..1 /\ starts[m] \in 0..Cap /\ Cap \in Nat
    BY QueueAssumption DEF Owed, TypeOK
  <2> QED BY <2>1, <2>2 DEF AccountInv
<1>2. Init => OrderInv /\ LossInv /\ AccountInv
  BY OrderInit, LossInit, AccountInit
<1>3. TypeInv /\ QueueInv /\ OrderInv /\ LossInv /\ [Next]_vars => OrderInv' /\ LossInv'
  BY OrderStep, LossStep DEF QueueInv, TypeInv
<1>4. /\ TypeInv /\ TypeInv' /\ QueueInv /\ OrderInv /\ LossInv /\ LossInv' /\ AccountInv
      /\ [Next]_vars
      => AccountInv'
  BY AccountStep DEF TypeInv
<1> QED
  BY <1>1, <1>2, <1>3, <1>4, QueueInvCorrect, PTL DEF Spec
=============================================================================
