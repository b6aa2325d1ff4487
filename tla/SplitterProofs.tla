--------------------------- MODULE SplitterProofs ---------------------------
(* ChunksKeepText for documents of any blocks and any sizes.  The folds of *)
(* the splitter are recursive functions; that such a function exists and   *)
(* what it computes is shown by induction over the numbers, as statements  *)
(* about sets of numbers.                                                  *)
(***************************************************************************)
EXTENDS Splitter, SequenceTheorems, WellFoundedInduction, TLAPS

(* Induction over the numbers, as a statement about sets.                      *)
LEMMA Least ==
  ASSUME NEW T, T \subseteq Nat, T # {}
  PROVE  \E x \in T : \A y \in T : x <= y
<1>1. PICK R : R = OpToRel(<, Nat)
  OBVIOUS
<1>2. R = {ss \in Nat \X Nat : ss[1] < ss[2]}
  BY <1>1 DEF OpToRel
<1>3. IsWellFoundedOn(R, Nat)
  BY <1>1, NatLessThanWellFounded
<1>4. PICK x \in T : \A y \in T : ~(<<y, x>> \in R)
  BY <1>3, WFMin
<1>5. \A y \in T : ~(y < x)
  BY <1>2, <1>4
<1> QED BY <1>4, <1>5

(* A set of numbers with 0 and every successor has them all.                   *)
LEMMA Inductive ==
  ASSUME NEW T, 0 \in T, \A j \in Nat : j \in T => j + 1 \in T
  PROVE  Nat \subseteq T
<1> SUFFICES ASSUME Nat \ T # {} PROVE FALSE
  OBVIOUS
<1>1. PICK x \in Nat \ T : \A y \in Nat \ T : x <= y
  BY Least
<1>2. x # 0 /\ x - 1 \in Nat /\ ~(x <= x - 1)
  BY <1>1
<1>3. x - 1 \in T
  BY <1>1, <1>2
<1> QED BY <1>1, <1>2, <1>3

(* What is defined step by step exists.                                        *)
Steps(V, size) == [(1..size) \X V -> V]
IsIterate(f, V, a, size, step) ==
  f \in [0..size -> V] /\ f[0] = a /\ \A j \in 1..size : f[j] = step[<<j, f[j - 1]>>]

LEMMA Iterates ==
  ASSUME NEW V, NEW a \in V, NEW size \in Nat, NEW step \in Steps(V, size)
  PROVE  \E f : IsIterate(f, V, a, size, step)
<1> DEFINE Good(k) == \E f \in [0..k -> V] : f[0] = a /\ \A j \in 1..k : f[j] = step[<<j, f[j - 1]>>]
<1> DEFINE T == {k \in Nat : k <= size => Good(k)}
<1>1. 0 \in T
  <2> DEFINE f == [j \in 0..0 |-> a]
  <2>1. f \in [0..0 -> V] /\ f[0] = a /\ 1..0 = {}
    OBVIOUS
  <2> QED BY <2>1
<1>2. ASSUME NEW k \in Nat, k \in T PROVE k + 1 \in T
  <2> SUFFICES ASSUME k + 1 <= size PROVE Good(k + 1)
    OBVIOUS
  <2>1. PICK f \in [0..k -> V] : f[0] = a /\ \A j \in 1..k : f[j] = step[<<j, f[j - 1]>>]
    BY <1>2
  <2>2. f[k] \in V /\ k + 1 \in 1..size
    BY <2>1
  <2>3. step[<<k + 1, f[k]>>] \in V
    BY <2>2 DEF Steps
  <2> DEFINE g == [j \in 0..k + 1 |-> IF j = k + 1 THEN step[<<k + 1, f[k]>>] ELSE f[j]]
  <2>4. g \in [0..k + 1 -> V]
    BY <2>3
  <2>5. g[0] = a
    BY <2>1
  <2>6. \A j \in 1..k : g[j] = f[j] /\ g[j - 1] = f[j - 1]
    OBVIOUS
  <2>7. g[k + 1] = step[<<k + 1, f[k]>>] /\ g[(k + 1) - 1] = f[k]
    OBVIOUS
  <2> HIDE DEF g
  <2>8. \A j \in 1..k + 1 : g[j] = step[<<j, g[j - 1]>>]
    <3> SUFFICES ASSUME NEW j \in 1..k + 1 PROVE g[j] = step[<<j, g[j - 1]>>]
      OBVIOUS
    <3>1. CASE j = k + 1
      BY <2>7, <3>1
    <3>2. CASE j \in 1..k
      BY <2>1, <2>6, <3>2
    <3>3. j = k + 1 \/ j \in 1..k
      OBVIOUS
    <3> QED BY <3>1, <3>2, <3>3
  <2> QED BY <2>4, <2>5, <2>8
<1> HIDE DEF T
<1>3. Nat \subseteq T
  BY <1>1, <1>2, Inductive
<1> QED BY <1>3 DEF T, IsIterate

(* And there is only one of them.                                              *)
LEMMA SameIterate ==
  ASSUME NEW V, NEW a \in V, NEW size \in Nat, NEW step \in Steps(V, size),
         NEW f, NEW g, IsIterate(f, V, a, size, step), g[0] = a,
         \A j \in 1..size : g[j - 1] \in V => g[j] = step[<<j, g[j - 1]>>]
  PROVE  \A j \in 0..size : g[j] = f[j]
<1> DEFINE T == {j \in Nat : j <= size => g[j] = f[j]}
<1>1. 0 \in T
  BY DEF IsIterate
<1>2. ASSUME NEW j \in Nat, j \in T PROVE j + 1 \in T
  <2> SUFFICES ASSUME j + 1 <= size PROVE g[j + 1] = f[j + 1]
    OBVIOUS
  <2>1. j + 1 \in 1..size /\ (j + 1) - 1 = j /\ j \in 0..size /\ g[j] = f[j]
    BY <1>2
  <2>2. f[j] \in V /\ f[j + 1] = step[<<j + 1, f[j]>>]
    BY <2>1 DEF IsIterate
  <2> QED BY <2>1, <2>2
<1> HIDE DEF T
<1>3. Nat \subseteq T
  BY <1>1, <1>2, Inductive
<1> QED BY <1>3 DEF T

-----------------------------------------------------------------------------
(* The texts of a sequence one after the other, by its beginnings.             *)
IsRun(f, E, x) == /\ f \in [0..Len(x) -> Seq(E)] /\ f[0] = <<>>
                  /\ \A i \in 1..Len(x) : f[i] = f[i - 1] \o x[i]

LEMMA Associative ==
  ASSUME NEW E PROVE \A x, y, z \in Seq(E) : x \o (y \o z) = (x \o y) \o z
OBVIOUS

LEMMA RunAt ==
  ASSUME NEW E, NEW x \in Seq(Seq(E)), NEW f, IsRun(f, E, x)
  PROVE  /\ f[0] = <<>> /\ Len(x) \in 0..Len(x) /\ \A i \in 0..Len(x) : f[i] \in Seq(E)
         /\ \A i \in 1..Len(x) : /\ i - 1 \in 0..Len(x) /\ x[i] \in Seq(E)
                                 /\ f[i - 1] \in Seq(E) /\ f[i] = f[i - 1] \o x[i]
<1>1. \A i \in 0..Len(x) : f[i] \in Seq(E)
  BY Zenon DEF IsRun
<1>2. Len(x) \in Nat /\ \A i \in 1..Len(x) : x[i] \in Seq(E)
  BY LenProperties, ElementOfSeq
<1>3. Len(x) \in 0..Len(x) /\ \A i \in 1..Len(x) : i - 1 \in 0..Len(x)
  BY <1>2
<1> QED BY <1>1, <1>2, <1>3, Zenon DEF IsRun

LEMMA RunExists ==
  ASSUME NEW E, NEW x \in Seq(Seq(E))
  PROVE  \E f : IsRun(f, E, x)
<1>1. Len(x) \in Nat /\ \A i \in 1..Len(x) : x[i] \in Seq(E)
  BY ElementOfSeq, LenProperties
<1>2. PICK n \in Nat : n = Len(x)
  BY <1>1
<1>3. PICK V : V = Seq(E)
  OBVIOUS
<1>4. <<>> \in V
  BY <1>3
<1> DEFINE step == [y \in (1..n) \X V |-> y[2] \o x[y[1]]]
<1>5. \A i \in 1..n, v \in V : v \o x[i] \in V
  BY <1>1, <1>2, <1>3, ConcatProperties
<1>6. step \in Steps(V, n)
  BY <1>5 DEF Steps
<1>7. \A i \in 1..n, v \in V : step[<<i, v>>] = v \o x[i]
  OBVIOUS
<1> HIDE DEF step
<1>8. PICK f : IsIterate(f, V, <<>>, n, step)
  BY <1>4, <1>6, Iterates
<1>9. f \in [0..n -> V] /\ f[0] = <<>> /\ \A i \in 1..n : f[i] = step[<<i, f[i - 1]>>]
  BY <1>8 DEF IsIterate
<1>10. \A i \in 1..n : f[i] = f[i - 1] \o x[i]
  <2> SUFFICES ASSUME NEW i \in 1..n PROVE f[i] = f[i - 1] \o x[i]
    OBVIOUS
  <2>1. f[i - 1] \in V
    BY <1>9
  <2> QED BY <1>7, <1>9, <2>1
<1> QED BY <1>2, <1>3, <1>9, <1>10 DEF IsRun

LEMMA FlatIs ==
  ASSUME NEW E, NEW x \in Seq(Seq(E)), NEW f, IsRun(f, E, x)
  PROVE  FlattenSeq(x) = f[Len(x)] /\ FlattenSeq(x) \in Seq(E)
<1>1. Len(x) \in Nat /\ \A i \in 1..Len(x) : x[i] \in Seq(E)
  BY ElementOfSeq, LenProperties
<1>2. f[Len(x)] \in Seq(E)
  BY <1>1 DEF IsRun
<1>3. CASE Len(x) = 0
  <2>1. x = <<>>
    BY <1>3, EmptySeq
  <2> QED BY <1>2, <1>3, <2>1 DEF FlattenSeq, IsRun
<1>4. CASE Len(x) # 0
  <2> DEFINE Eq(h) == h = [i \in 1..Len(x) |-> IF i = 1 THEN x[i] ELSE h[i - 1] \o x[i]]
  <2>1. f[1] = x[1]
    <3>1. 1 \in 1..Len(x) /\ 1 - 1 = 0
      BY <1>1, <1>4
    <3>2. f[1] = f[0] \o x[1] /\ f[0] = <<>> /\ x[1] \in Seq(E)
      BY <1>1, <3>1 DEF IsRun
    <3> QED BY <3>2, ConcatEmptySeq
  <2> DEFINE g == [i \in 1..Len(x) |-> f[i]]
  <2>2. Eq(g)
    <3>1. ASSUME NEW i \in 1..Len(x), i # 1 PROVE g[i] = g[i - 1] \o x[i]
      <4>1. i - 1 \in 1..Len(x)
        BY <1>1, <3>1
      <4> QED BY <4>1 DEF IsRun
    <3> QED BY <2>1, <3>1
  <2> DEFINE flatten == CHOOSE h : Eq(h)
  <2>3. Eq(flatten)
    <3> HIDE DEF g
    <3> QED BY <2>2
  <2>4. FlattenSeq(x) = flatten[Len(x)]
    BY <1>4 DEF FlattenSeq
  <2> HIDE DEF flatten
  <2> DEFINE T == {k \in Nat : k + 1 <= Len(x) => flatten[k + 1] = f[k + 1]}
  <2>5. 0 \in T
    BY <1>1, <1>4, <2>1, <2>3
  <2>6. ASSUME NEW k \in Nat, k \in T PROVE k + 1 \in T
    <3> SUFFICES ASSUME (k + 1) + 1 <= Len(x) PROVE flatten[(k + 1) + 1] = f[(k + 1) + 1]
      OBVIOUS
    <3>1. /\ (k + 1) + 1 \in 1..Len(x) /\ ((k + 1) + 1) - 1 = k + 1 /\ (k + 1) + 1 # 1
          /\ flatten[k + 1] = f[k + 1]
      BY <1>1, <2>6
    <3>2. flatten[(k + 1) + 1] = flatten[k + 1] \o x[(k + 1) + 1]
      BY <2>3, <3>1
    <3> QED BY <3>1, <3>2 DEF IsRun
  <2> HIDE DEF T
  <2>7. Nat \subseteq T
    BY <2>5, <2>6, Inductive
  <2>8. Len(x) - 1 \in Nat /\ (Len(x) - 1) + 1 = Len(x)
    BY <1>1, <1>4
  <2>9. PICK k \in Nat : k = Len(x) - 1 /\ k + 1 = Len(x)
    BY <2>8
  <2>10. flatten[Len(x)] = f[Len(x)]
    BY <1>1, <2>7, <2>9 DEF T
  <2> QED BY <1>2, <2>4, <2>10
<1> QED BY <1>3, <1>4

LEMMA FlatType == ASSUME NEW E, NEW x \in Seq(Seq(E)) PROVE FlattenSeq(x) \in Seq(E)
BY RunExists, FlatIs

LEMMA FlatEmpty == FlattenSeq(<<>>) = <<>>
BY DEF FlattenSeq

LEMMA FlatConcat ==
  ASSUME NEW E, NEW x \in Seq(Seq(E)), NEW y \in Seq(Seq(E))
  PROVE  x \o y \in Seq(Seq(E)) /\ FlattenSeq(x \o y) = FlattenSeq(x) \o FlattenSeq(y)
<1>1. PICK f : IsRun(f, E, x)
  BY RunExists
<1>2. PICK g : IsRun(g, E, y)
  BY RunExists
<1>3. PICK m \in Nat, n \in Nat : m = Len(x) /\ n = Len(y)
  BY LenProperties
<1>4. PICK z \in Seq(Seq(E)) : z = x \o y
  BY ConcatProperties
<1>5. Len(z) = m + n /\ \A i \in 1..m + n : z[i] = IF i <= m THEN x[i] ELSE y[i - m]
  BY <1>3, <1>4, ConcatProperties
<1>6. g[0] = <<>> /\ (\A j \in 0..n : g[j] \in Seq(E))
      /\ \A j \in 1..n : y[j] \in Seq(E) /\ g[j - 1] \in Seq(E) /\ g[j] = g[j - 1] \o y[j]
  BY <1>2, <1>3, RunAt, Zenon
<1>7. f[0] = <<>> /\ (\A i \in 0..m : f[i] \in Seq(E)) /\ f[m] \in Seq(E)
      /\ \A i \in 1..m : f[i] = f[i - 1] \o x[i]
  BY <1>1, <1>3, RunAt, Zenon
<1> DEFINE h == [i \in 0..m + n |-> IF i <= m THEN f[i] ELSE f[m] \o g[i - m]]
<1>8. \A j \in 0..n : h[m + j] = f[m] \o g[j]
  <2> SUFFICES ASSUME NEW j \in 0..n PROVE h[m + j] = f[m] \o g[j]
    OBVIOUS
  <2>1. CASE j = 0
    <3>1. g[0] = <<>> /\ m + 0 = m /\ h[m] = f[m]
      BY <1>6
    <3> QED BY <1>7, <2>1, <3>1, ConcatEmptySeq
  <2>2. CASE j # 0
    <3>1. m + j \in 0..m + n /\ ~(m + j <= m) /\ (m + j) - m = j
      BY <2>2
    <3> QED BY <3>1
  <2> QED BY <2>1, <2>2
<1>9. \A i \in 0..m : h[i] = f[i]
  OBVIOUS
<1> HIDE DEF h
<1>10. h \in [0..m + n -> Seq(E)]
  <2>1. ASSUME NEW i \in 0..m + n PROVE (IF i <= m THEN f[i] ELSE f[m] \o g[i - m]) \in Seq(E)
    <3>1. CASE i <= m
      BY <1>7, <3>1
    <3>2. CASE ~(i <= m)
      <4>1. i - m \in 0..n
        BY <3>2
      <4>2. g[i - m] \in Seq(E)
        BY <1>6, <4>1
      <4>3. f[m] \o g[i - m] \in Seq(E)
        BY <1>7, <4>2, ConcatProperties
      <4> QED BY <3>2, <4>3, Zenon
    <3> QED BY <3>1, <3>2
  <2> QED BY <2>1 DEF h
<1>11. h[0] = <<>>
  BY <1>7, <1>9
<1>12. \A i \in 1..m + n : h[i] = h[i - 1] \o z[i]
  <2> SUFFICES ASSUME NEW i \in 1..m + n PROVE h[i] = h[i - 1] \o z[i]
    OBVIOUS
  <2>1. CASE i <= m
    <3>1. i \in 0..m /\ i - 1 \in 0..m /\ i \in 1..m
      BY <2>1
    <3> QED BY <1>5, <1>7, <1>9, <2>1, <3>1
  <2>2. CASE ~(i <= m)
    <3>1. PICK j \in 1..n : i = m + j /\ j - 1 \in 0..n /\ i - 1 = m + (j - 1) /\ i - m = j
      <4>1. i - m \in 1..n /\ i = m + (i - m) /\ (i - m) - 1 \in 0..n /\ i - 1 = m + ((i - m) - 1)
        BY <2>2
      <4> QED BY <4>1
    <3>2. h[m + j] = f[m] \o g[j] /\ h[m + (j - 1)] = f[m] \o g[j - 1]
      <4>1. j \in 0..n
        OBVIOUS
      <4> QED BY <1>8, <3>1, <4>1, Zenon
    <3>3. z[i] = y[j]
      BY <1>5, <2>2, <3>1
    <3>4. y[j] \in Seq(E) /\ g[j - 1] \in Seq(E) /\ g[j] = g[j - 1] \o y[j]
      BY <1>6
    <3>5. f[m] \o (g[j - 1] \o y[j]) = (f[m] \o g[j - 1]) \o y[j]
      <4>1. \A r, s, t \in Seq(E) : r \o (s \o t) = (r \o s) \o t
        BY Associative
      <4>2. f[m] \in Seq(E) /\ g[j - 1] \in Seq(E) /\ y[j] \in Seq(E)
        BY <1>7, <3>4
      <4> QED BY <4>1, <4>2, Zenon
    <3> QED BY <3>1, <3>2, <3>3, <3>4, <3>5, Zenon
  <2> QED BY <2>1, <2>2
<1>13. IsRun(h, E, z)
  BY <1>5, <1>10, <1>11, <1>12 DEF IsRun
<1>14. FlattenSeq(z) = h[m + n]
  BY <1>5, <1>13, FlatIs
<1>15. FlattenSeq(x) = f[m] /\ FlattenSeq(y) = g[n]
  BY <1>1, <1>2, <1>3, FlatIs
<1>16. n \in 0..n
  OBVIOUS
<1> QED BY <1>4, <1>8, <1>14, <1>15, <1>16

LEMMA FlatOne ==
  ASSUME NEW E, NEW t \in Seq(E) PROVE <<t>> \in Seq(Seq(E)) /\ FlattenSeq(<<t>>) = t
<1>1. PICK x : x = <<t>>
  OBVIOUS
<1>2. x \in Seq(Seq(E)) /\ Len(x) = 1 /\ x[1] = t
  BY <1>1
<1>3. PICK f : IsRun(f, E, x)
  BY <1>2, RunExists
<1>4. f[1] = t
  <2>1. 1 \in 1..Len(x) /\ 1 - 1 = 0
    BY <1>2
  <2>2. f[1] = <<>> \o t
    BY <1>2, <1>3, <2>1 DEF IsRun
  <2> QED BY <2>2, ConcatEmptySeq
<1>5. FlattenSeq(x) = f[1]
  BY <1>2, <1>3, FlatIs, Zenon
<1> QED BY <1>1, <1>2, <1>4, <1>5, Zenon
LEMMA AppendIs ==
  ASSUME NEW E, NEW x \in Seq(E), NEW t \in E
  PROVE  Append(x, t) = x \o <<t>> /\ <<t>> \in Seq(E) /\ Append(x, t) \in Seq(E)
<1>1. <<t>> \in Seq(E)
  OBVIOUS
<1> QED BY <1>1, AppendProperties, AppendIsConcat

LEMMA FlatAppend ==
  ASSUME NEW E, NEW x \in Seq(Seq(E)), NEW t \in Seq(E)
  PROVE  Append(x, t) \in Seq(Seq(E)) /\ FlattenSeq(Append(x, t)) = FlattenSeq(x) \o t
<1>1. <<t>> \in Seq(Seq(E)) /\ FlattenSeq(<<t>>) = t
  BY FlatOne
<1>2. Append(x, t) = x \o <<t>> /\ Append(x, t) \in Seq(Seq(E))
  BY AppendIs
<1>3. FlattenSeq(x \o <<t>>) = FlattenSeq(x) \o FlattenSeq(<<t>>)
  BY <1>1, FlatConcat
<1> QED BY <1>1, <1>2, <1>3, Zenon

-----------------------------------------------------------------------------
(* Weights.                                                                    *)
Sentence == [place : Nat \X Nat, weight : Nat, path : Seq(Nat)]
IsSum(f, t) == /\ f \in [0..Len(t) -> Nat] /\ f[0] = 0
               /\ \A i \in 1..Len(t) : f[i] = f[i - 1] + t[i].weight

LEMMA SentenceAt ==
  ASSUME NEW t \in Seq(Sentence)
  PROVE  /\ Len(t) \in Nat /\ DOMAIN t = 1..Len(t)
         /\ \A i \in 1..Len(t) : /\ t[i] \in Sentence /\ t[i].weight \in Nat
                                 /\ t[i].place \in Nat \X Nat /\ t[i].path \in Seq(Nat)
<1>1. Len(t) \in Nat /\ DOMAIN t = 1..Len(t) /\ \A i \in 1..Len(t) : t[i] \in Sentence
  BY LenProperties, ElementOfSeq
<1>2. \A s \in Sentence : s.weight \in Nat /\ s.place \in Nat \X Nat /\ s.path \in Seq(Nat)
  BY DEF Sentence
<1> QED BY <1>1, <1>2

LEMMA SumExists == ASSUME NEW t \in Seq(Sentence) PROVE \E f : IsSum(f, t)
<1>1. Len(t) \in Nat /\ \A i \in 1..Len(t) : t[i].weight \in Nat
  BY SentenceAt
<1>2. PICK n \in Nat : n = Len(t)
  BY <1>1
<1> DEFINE step == [y \in (1..n) \X Nat |-> y[2] + t[y[1]].weight]
<1>3. \A i \in 1..n, v \in Nat : v + t[i].weight \in Nat
  BY <1>1, <1>2
<1>4. step \in Steps(Nat, n) /\ \A i \in 1..n, v \in Nat : step[<<i, v>>] = v + t[i].weight
  BY <1>3 DEF Steps
<1> HIDE DEF step
<1>5. PICK f : IsIterate(f, Nat, 0, n, step)
  BY <1>4, Iterates
<1>6. f \in [0..n -> Nat] /\ f[0] = 0 /\ \A i \in 1..n : f[i] = step[<<i, f[i - 1]>>]
  BY <1>5 DEF IsIterate
<1>7. \A i \in 1..n : f[i - 1] \in Nat
  BY <1>6
<1>8. \A i \in 1..n : f[i] = f[i - 1] + t[i].weight
  BY <1>4, <1>6, <1>7, Zenon
<1> QED BY <1>2, <1>6, <1>8 DEF IsSum

LEMMA SumAt ==
  ASSUME NEW t \in Seq(Sentence), NEW f, IsSum(f, t)
  PROVE  /\ f[0] = 0 /\ Len(t) \in 0..Len(t) /\ \A i \in 0..Len(t) : f[i] \in Nat
         /\ \A i \in 1..Len(t) : /\ i - 1 \in 0..Len(t) /\ t[i].weight \in Nat
                                 /\ f[i - 1] \in Nat /\ f[i] = f[i - 1] + t[i].weight
<1>1. \A i \in 0..Len(t) : f[i] \in Nat
  BY Zenon DEF IsSum
<1>2. Len(t) \in Nat /\ \A i \in 1..Len(t) : t[i].weight \in Nat
  BY SentenceAt
<1>3. Len(t) \in 0..Len(t) /\ \A i \in 1..Len(t) : i - 1 \in 0..Len(t)
  BY <1>2
<1> QED BY <1>1, <1>2, <1>3, Zenon DEF IsSum

LEMMA WeightIs ==
  ASSUME NEW t \in Seq(Sentence), NEW f, IsSum(f, t)
  PROVE  Weight(t) = f[Len(t)]
<1>1. Len(t) \in Nat
  BY LenProperties
<1>2. PICK n \in Nat : n = Len(t)
  BY <1>1
<1>3. /\ f[0] = 0 /\ \A i \in 0..n : f[i] \in Nat
      /\ \A i \in 1..n : f[i - 1] \in Nat /\ f[i] = f[i - 1] + t[i].weight
  BY <1>2, SumAt, Zenon
<1>4. f = [i \in 0..n |-> IF i = 0 THEN 0 ELSE f[i - 1] + t[i].weight]
  BY <1>2, <1>3 DEF IsSum
<1> DEFINE sum == CHOOSE s : s = [i \in 0..n |-> IF i = 0 THEN 0 ELSE s[i - 1] + t[i].weight]
<1>5. sum = [i \in 0..n |-> IF i = 0 THEN 0 ELSE sum[i - 1] + t[i].weight]
  BY <1>4
<1>6. Weight(t) = sum[n]
  BY <1>2 DEF Weight
<1> HIDE DEF sum
<1>7. sum[0] = 0 /\ \A i \in 1..n : sum[i] = sum[i - 1] + t[i].weight
  BY <1>5
<1> DEFINE T == {k \in Nat : k <= n => sum[k] = f[k]}
<1>8. 0 \in T
  BY <1>3, <1>7
<1>9. ASSUME NEW k \in Nat, k \in T PROVE k + 1 \in T
  <2> SUFFICES ASSUME k + 1 <= n PROVE sum[k + 1] = f[k + 1]
    OBVIOUS
  <2>1. k + 1 \in 1..n /\ (k + 1) - 1 = k /\ sum[k] = f[k]
    BY <1>9
  <2>2. sum[k + 1] = sum[k] + t[k + 1].weight /\ f[k + 1] = f[k] + t[k + 1].weight
    BY <1>3, <1>7, <2>1
  <2> QED BY <2>1, <2>2
<1> HIDE DEF T
<1>10. Nat \subseteq T
  BY <1>8, <1>9, Inductive
<1>11. sum[n] = f[n]
  BY <1>10 DEF T
<1> QED BY <1>2, <1>6, <1>11

LEMMA WeightType == ASSUME NEW t \in Seq(Sentence) PROVE Weight(t) \in Nat
BY SumExists, WeightIs, SumAt

LEMMA WeightEmpty == Weight(<<>>) = 0
<1>1. PICK t \in Seq(Sentence) : t = <<>>
  BY EmptySeq
<1>2. PICK f : IsSum(f, t)
  BY SumExists
<1>3. Len(t) = 0
  BY <1>1
<1> QED BY <1>1, <1>2, <1>3, WeightIs, SumAt

LEMMA WeightConcat ==
  ASSUME NEW x \in Seq(Sentence), NEW y \in Seq(Sentence)
  PROVE  x \o y \in Seq(Sentence) /\ Weight(x \o y) = Weight(x) + Weight(y)
<1>1. PICK f : IsSum(f, x)
  BY SumExists
<1>2. PICK g : IsSum(g, y)
  BY SumExists
<1>3. PICK m \in Nat, n \in Nat : m = Len(x) /\ n = Len(y)
  BY LenProperties
<1>4. PICK z \in Seq(Sentence) : z = x \o y
  BY ConcatProperties
<1>5. Len(z) = m + n /\ \A i \in 1..m + n : z[i] = IF i <= m THEN x[i] ELSE y[i - m]
  BY <1>3, <1>4, ConcatProperties
<1>6. g[0] = 0 /\ (\A j \in 0..n : g[j] \in Nat)
      /\ \A j \in 1..n : g[j - 1] \in Nat /\ g[j] = g[j - 1] + y[j].weight /\ y[j].weight \in Nat
  BY <1>2, <1>3, SumAt, Zenon
<1>7. f[0] = 0 /\ (\A i \in 0..m : f[i] \in Nat) /\ f[m] \in Nat
      /\ \A i \in 1..m : f[i] = f[i - 1] + x[i].weight
  BY <1>1, <1>3, SumAt, Zenon
<1> DEFINE h == [i \in 0..m + n |-> IF i <= m THEN f[i] ELSE f[m] + g[i - m]]
<1>8. \A j \in 0..n : h[m + j] = f[m] + g[j]
  <2> SUFFICES ASSUME NEW j \in 0..n PROVE h[m + j] = f[m] + g[j]
    OBVIOUS
  <2>1. CASE j = 0
    <3>1. m + 0 = m /\ h[m] = f[m]
      OBVIOUS
    <3> QED BY <1>6, <1>7, <2>1, <3>1
  <2>2. CASE j # 0
    <3>1. m + j \in 0..m + n /\ ~(m + j <= m) /\ (m + j) - m = j
      BY <2>2
    <3> QED BY <3>1
  <2> QED BY <2>1, <2>2
<1>9. \A i \in 0..m : h[i] = f[i]
  OBVIOUS
<1>10. h \in [0..m + n -> Nat]
  <2>1. ASSUME NEW i \in 0..m + n PROVE (IF i <= m THEN f[i] ELSE f[m] + g[i - m]) \in Nat
    <3>1. CASE i <= m
      <4>1. f[i] \in Nat
        BY <1>7, <3>1
      <4> QED BY <3>1, <4>1, Zenon
    <3>2. CASE ~(i <= m)
      <4>1. i - m \in 0..n
        BY <3>2
      <4>2. g[i - m] \in Nat
        BY <1>6, <4>1
      <4>3. f[m] + g[i - m] \in Nat
        BY <1>7, <4>2
      <4> QED BY <3>2, <4>3, Zenon
    <3> QED BY <3>1, <3>2
  <2> QED BY <2>1
<1> HIDE DEF h
<1>11. h[0] = 0
  BY <1>7, <1>9
<1>12. \A i \in 1..m + n : h[i] = h[i - 1] + z[i].weight
  <2> SUFFICES ASSUME NEW i \in 1..m + n PROVE h[i] = h[i - 1] + z[i].weight
    OBVIOUS
  <2>1. CASE i <= m
    <3>1. i \in 0..m /\ i - 1 \in 0..m /\ i \in 1..m
      BY <2>1
    <3> QED BY <1>5, <1>7, <1>9, <2>1, <3>1
  <2>2. CASE ~(i <= m)
    <3>1. PICK j \in 1..n : i = m + j /\ j - 1 \in 0..n /\ i - 1 = m + (j - 1) /\ i - m = j
      <4>1. i - m \in 1..n /\ i = m + (i - m) /\ (i - m) - 1 \in 0..n /\ i - 1 = m + ((i - m) - 1)
        BY <2>2
      <4> QED BY <4>1
    <3>2. h[m + j] = f[m] + g[j] /\ h[m + (j - 1)] = f[m] + g[j - 1]
      <4>1. j \in 0..n
        OBVIOUS
      <4> QED BY <1>8, <3>1, <4>1, Zenon
    <3>3. z[i] = y[j]
      BY <1>5, <2>2, <3>1
    <3>4. PICK a \in Nat : a = y[j].weight
      BY <1>6
    <3>5. PICK b \in Nat : b = g[j - 1] /\ g[j] = b + a
      BY <1>6, <3>4
    <3>6. f[m] + (b + a) = (f[m] + b) + a
      BY <1>7
    <3>7. h[i] = f[m] + (b + a) /\ h[i - 1] = f[m] + b /\ z[i].weight = a
      BY <3>1, <3>2, <3>3, <3>4, <3>5, Zenon
    <3> QED BY <3>6, <3>7, Zenon
  <2> QED BY <2>1, <2>2
<1>13. IsSum(h, z)
  BY <1>5, <1>10, <1>11, <1>12 DEF IsSum
<1>14. Weight(z) = h[m + n]
  BY <1>5, <1>13, WeightIs
<1>15. Weight(x) = f[m] /\ Weight(y) = g[n]
  BY <1>1, <1>2, <1>3, WeightIs
<1>16. n \in 0..n
  OBVIOUS
<1> QED BY <1>4, <1>8, <1>14, <1>15, <1>16

LEMMA WeightOne == ASSUME NEW s \in Sentence PROVE <<s>> \in Seq(Sentence) /\ Weight(<<s>>) = s.weight
<1>1. PICK t \in Seq(Sentence) : t = <<s>>
  <2>1. <<s>> \in Seq(Sentence)
    OBVIOUS
  <2> QED BY <2>1
<1>2. Len(t) = 1 /\ t[1] = s
  BY <1>1
<1>3. PICK f : IsSum(f, t)
  BY SumExists
<1>4. 1 \in 1..Len(t) /\ 1 - 1 = 0
  BY <1>2
<1>5. f[1] = f[1 - 1] + t[1].weight /\ f[0] = 0 /\ t[1].weight \in Nat
  BY <1>3, <1>4, SumAt, Zenon
<1>6. f[1] = s.weight
  BY <1>2, <1>4, <1>5
<1>7. Weight(t) = f[1]
  BY <1>2, <1>3, WeightIs, Zenon
<1> QED BY <1>1, <1>6, <1>7

LEMMA WeightAppend ==
  ASSUME NEW x \in Seq(Sentence), NEW s \in Sentence
  PROVE  Append(x, s) \in Seq(Sentence) /\ Weight(Append(x, s)) = Weight(x) + s.weight
<1>1. <<s>> \in Seq(Sentence) /\ Weight(<<s>>) = s.weight
  BY WeightOne
<1>2. Append(x, s) = x \o <<s>> /\ Append(x, s) \in Seq(Sentence)
  BY AppendIs
<1>3. Weight(x \o <<s>>) = Weight(x) + Weight(<<s>>)
  BY <1>1, WeightConcat
<1> QED BY <1>1, <1>2, <1>3, Zenon

-----------------------------------------------------------------------------
(* The places of the sentences of texts.                                       *)
Text == Seq(Sentence)
Place == Nat \X Nat
PlacesOf(x) == [i \in 1..Len(x) |-> Places(x[i])]
AllPlaces(x) == FlattenSeq(PlacesOf(x))

LEMMA PlacesAt ==
  ASSUME NEW t \in Text
  PROVE  /\ Places(t) \in Seq(Place) /\ Len(Places(t)) = Len(t)
         /\ \A i \in 1..Len(t) : Places(t)[i] = t[i].place
<1>1. Len(t) \in Nat /\ \A i \in 1..Len(t) : t[i].place \in Place
  BY SentenceAt DEF Text, Place
<1> QED BY <1>1 DEF Places

LEMMA PlacesConcat ==
  ASSUME NEW s \in Text, NEW t \in Text
  PROVE  Places(s \o t) = Places(s) \o Places(t)
<1>1. s \o t \in Text /\ Len(s) \in Nat /\ Len(t) \in Nat /\ Len(s \o t) = Len(s) + Len(t)
      /\ \A i \in 1..Len(s) + Len(t) : (s \o t)[i] = IF i <= Len(s) THEN s[i] ELSE t[i - Len(s)]
  BY ConcatProperties, LenProperties DEF Text
<1>2. /\ Places(s) \in Seq(Place) /\ Len(Places(s)) = Len(s)
      /\ Places(t) \in Seq(Place) /\ Len(Places(t)) = Len(t)
      /\ \A i \in 1..Len(s) : Places(s)[i] = s[i].place
      /\ \A i \in 1..Len(t) : Places(t)[i] = t[i].place
  BY PlacesAt
<1>3. /\ Places(s \o t) \in Seq(Place) /\ Len(Places(s \o t)) = Len(s) + Len(t)
      /\ \A i \in 1..Len(s) + Len(t) : Places(s \o t)[i] = (s \o t)[i].place
  BY <1>1, PlacesAt
<1>4. /\ Places(s) \o Places(t) \in Seq(Place) /\ Len(Places(s) \o Places(t)) = Len(s) + Len(t)
      /\ \A i \in 1..Len(s) + Len(t) : (Places(s) \o Places(t))[i] =
            IF i <= Len(s) THEN Places(s)[i] ELSE Places(t)[i - Len(s)]
  BY <1>2, ConcatProperties
<1>5. ASSUME NEW i \in 1..Len(s) + Len(t) PROVE Places(s \o t)[i] = (Places(s) \o Places(t))[i]
  <2>1. CASE i <= Len(s)
    <3>1. i \in 1..Len(s)
      BY <1>1, <2>1
    <3> QED BY <1>1, <1>2, <1>3, <1>4, <2>1, <3>1
  <2>2. CASE ~(i <= Len(s))
    <3>1. i - Len(s) \in 1..Len(t)
      BY <1>1, <2>2
    <3> QED BY <1>1, <1>2, <1>3, <1>4, <2>2, <3>1
  <2> QED BY <2>1, <2>2
<1> QED BY <1>3, <1>4, <1>5, SeqEqual

LEMMA PlacesOne == ASSUME NEW s \in Sentence PROVE Places(<<s>>) = <<s.place>>
<1>1. <<s>> \in Text /\ Len(<<s>>) = 1 /\ <<s>>[1] = s
  BY DEF Text
<1>2. Places(<<s>>) \in Seq(Place) /\ Len(Places(<<s>>)) = 1 /\ Places(<<s>>)[1] = s.place
  BY <1>1, PlacesAt
<1> QED BY <1>2

LEMMA PlacesEmpty == Places(<<>>) = <<>>
BY DEF Places

LEMMA PlacesOfAt ==
  ASSUME NEW x \in Seq(Text)
  PROVE  /\ Len(x) \in Nat /\ PlacesOf(x) \in Seq(Seq(Place)) /\ Len(PlacesOf(x)) = Len(x)
         /\ \A i \in 1..Len(x) : PlacesOf(x)[i] = Places(x[i])
<1>1. Len(x) \in Nat /\ \A i \in 1..Len(x) : Places(x[i]) \in Seq(Place)
  BY LenProperties, ElementOfSeq, PlacesAt
<1> QED BY <1>1 DEF PlacesOf

LEMMA AllPlacesType == ASSUME NEW x \in Seq(Text) PROVE AllPlaces(x) \in Seq(Place)
BY PlacesOfAt, FlatType DEF AllPlaces

LEMMA AllConcat ==
  ASSUME NEW x \in Seq(Text), NEW y \in Seq(Text)
  PROVE  x \o y \in Seq(Text) /\ AllPlaces(x \o y) = AllPlaces(x) \o AllPlaces(y)
<1>1. x \o y \in Seq(Text) /\ Len(x \o y) = Len(x) + Len(y)
      /\ \A i \in 1..Len(x) + Len(y) : (x \o y)[i] = IF i <= Len(x) THEN x[i] ELSE y[i - Len(x)]
  BY ConcatProperties
<1>2. /\ Len(x) \in Nat /\ PlacesOf(x) \in Seq(Seq(Place)) /\ Len(PlacesOf(x)) = Len(x)
      /\ Len(y) \in Nat /\ PlacesOf(y) \in Seq(Seq(Place)) /\ Len(PlacesOf(y)) = Len(y)
      /\ \A i \in 1..Len(x) : PlacesOf(x)[i] = Places(x[i])
      /\ \A i \in 1..Len(y) : PlacesOf(y)[i] = Places(y[i])
  BY PlacesOfAt
<1>3. /\ PlacesOf(x \o y) \in Seq(Seq(Place)) /\ Len(PlacesOf(x \o y)) = Len(x) + Len(y)
      /\ \A i \in 1..Len(x) + Len(y) : PlacesOf(x \o y)[i] = Places((x \o y)[i])
  BY <1>1, PlacesOfAt
<1>4. /\ PlacesOf(x) \o PlacesOf(y) \in Seq(Seq(Place)) /\ Len(PlacesOf(x) \o PlacesOf(y)) = Len(x) + Len(y)
      /\ \A i \in 1..Len(x) + Len(y) : (PlacesOf(x) \o PlacesOf(y))[i] =
            IF i <= Len(x) THEN PlacesOf(x)[i] ELSE PlacesOf(y)[i - Len(x)]
  BY <1>2, ConcatProperties
<1>5. ASSUME NEW i \in 1..Len(x) + Len(y) PROVE PlacesOf(x \o y)[i] = (PlacesOf(x) \o PlacesOf(y))[i]
  <2>1. CASE i <= Len(x)
    <3>1. i \in 1..Len(x)
      BY <1>2, <2>1
    <3> QED BY <1>1, <1>2, <1>3, <1>4, <2>1, <3>1
  <2>2. CASE ~(i <= Len(x))
    <3>1. i - Len(x) \in 1..Len(y)
      BY <1>2, <2>2
    <3> QED BY <1>1, <1>2, <1>3, <1>4, <2>2, <3>1
  <2> QED BY <2>1, <2>2
<1>6. PlacesOf(x \o y) = PlacesOf(x) \o PlacesOf(y)
  BY <1>3, <1>4, <1>5, SeqEqual
<1> QED BY <1>1, <1>2, <1>6, FlatConcat DEF AllPlaces

LEMMA AllOne == ASSUME NEW t \in Text PROVE <<t>> \in Seq(Text) /\ AllPlaces(<<t>>) = Places(t)
<1>1. <<t>> \in Seq(Text) /\ Len(<<t>>) = 1 /\ <<t>>[1] = t
  OBVIOUS
<1>2. PlacesOf(<<t>>) \in Seq(Seq(Place)) /\ Len(PlacesOf(<<t>>)) = 1 /\ PlacesOf(<<t>>)[1] = Places(t)
  <2>1. PICK x : x = <<t>>
    OBVIOUS
  <2>2. x \in Seq(Text) /\ Len(x) = 1 /\ x[1] = t /\ 1 \in 1..Len(x)
    BY <1>1, <2>1
  <2>3. PlacesOf(x) \in Seq(Seq(Place)) /\ Len(PlacesOf(x)) = 1 /\ PlacesOf(x)[1] = Places(t)
    BY <2>2, PlacesOfAt
  <2> QED BY <2>1, <2>3
<1>3. PlacesOf(<<t>>) = <<Places(t)>> /\ Places(t) \in Seq(Place)
  BY <1>2, PlacesAt
<1> QED BY <1>1, <1>3, FlatOne DEF AllPlaces

LEMMA AllEmpty == AllPlaces(<<>>) = <<>>
<1>1. PlacesOf(<<>>) = <<>>
  BY DEF PlacesOf
<1> QED BY <1>1, FlatEmpty DEF AllPlaces

LEMMA AllAppend ==
  ASSUME NEW x \in Seq(Text), NEW t \in Text
  PROVE  Append(x, t) \in Seq(Text) /\ AllPlaces(Append(x, t)) = AllPlaces(x) \o Places(t)
<1>1. <<t>> \in Seq(Text) /\ AllPlaces(<<t>>) = Places(t)
  BY AllOne
<1>2. Append(x, t) = x \o <<t>> /\ Append(x, t) \in Seq(Text)
  BY AppendIs
<1>3. AllPlaces(x \o <<t>>) = AllPlaces(x) \o AllPlaces(<<t>>)
  BY <1>1, AllConcat
<1> QED BY <1>1, <1>2, <1>3, Zenon

(* A text put together from texts has their places.                            *)
LEMMA AllFlat ==
  ASSUME NEW x \in Seq(Text)
  PROVE  FlattenSeq(x) \in Text /\ Places(FlattenSeq(x)) = AllPlaces(x)
<1>1. PICK f : IsRun(f, Sentence, x)
  <2>1. x \in Seq(Seq(Sentence))
    BY DEF Text
  <2> QED BY <2>1, RunExists
<1>2. PICK n \in Nat : n = Len(x)
  BY PlacesOfAt
<1>3. f[0] = <<>> /\ \A i \in 1..n : x[i] \in Text /\ f[i - 1] \in Text /\ f[i] = f[i - 1] \o x[i]
  BY <1>1, <1>2, RunAt, Zenon DEF Text
<1> DEFINE g == [i \in 0..n |-> Places(f[i])]
<1>4. \A i \in 0..n : f[i] \in Text /\ g[i] = Places(f[i]) /\ g[i] \in Seq(Place)
  <2>1. \A i \in 0..n : f[i] \in Text
    BY <1>1, <1>2, RunAt, Zenon DEF Text
  <2> QED BY <2>1, PlacesAt
<1>5. g \in [0..n -> Seq(Place)]
  BY <1>4
<1> HIDE DEF g
<1>6. PICK y \in Seq(Seq(Place)) : y = PlacesOf(x)
  BY PlacesOfAt
<1>7. Len(y) = n /\ \A i \in 1..n : y[i] = Places(x[i])
  BY <1>2, <1>6, PlacesOfAt
<1>8. \A i \in 1..n : g[i] = g[i - 1] \o y[i]
  <2> SUFFICES ASSUME NEW i \in 1..n PROVE g[i] = g[i - 1] \o y[i]
    OBVIOUS
  <2>1. i - 1 \in 0..n /\ i \in 0..n
    OBVIOUS
  <2>2. Places(f[i - 1] \o x[i]) = Places(f[i - 1]) \o Places(x[i])
    BY <1>3, PlacesConcat
  <2> QED BY <1>3, <1>4, <1>7, <2>1, <2>2, Zenon
<1>9. g[0] = <<>>
  <2>1. 0 \in 0..n
    OBVIOUS
  <2> QED BY <1>3, <1>4, <2>1, PlacesEmpty, Zenon
<1>10. IsRun(g, Place, y)
  BY <1>5, <1>7, <1>8, <1>9 DEF IsRun
<1>11. FlattenSeq(y) = g[n]
  BY <1>6, <1>7, <1>10, FlatIs
<1>12. FlattenSeq(x) = f[n] /\ FlattenSeq(x) \in Text
  BY <1>1, <1>2, FlatIs DEF Text
<1>13. n \in 0..n
  OBVIOUS
<1> QED BY <1>4, <1>6, <1>11, <1>12, <1>13, Zenon DEF AllPlaces

-----------------------------------------------------------------------------
(* A text being cut: its parts are of the size asked for, or one sentence; Q   *)
(* are the sentences it is made of.                                            *)
Part(Q, max) == {t \in Seq(Q) : t # <<>> /\ (Weight(t) <= max \/ Len(t) = 1)}
Cut(Q, max) == [out : Seq(Part(Q, max)), cur : Part(Q, max) \union {<<>>}]
Held(acc) == AllPlaces(acc.out) \o Places(acc.cur)

LEMMA InText ==
  ASSUME NEW Q, Q \subseteq Sentence
  PROVE  \A t \in Seq(Q) : t \in Text
BY SeqMonotonic DEF Text

LEMMA InTexts ==
  ASSUME NEW Q, Q \subseteq Sentence, NEW max
  PROVE  /\ \A t \in Part(Q, max) : t \in Seq(Q) /\ t \in Text /\ t # <<>> /\ (Weight(t) <= max \/ Len(t) = 1)
         /\ \A x \in Seq(Part(Q, max)) : x \in Seq(Text)
<1>1. \A t \in Part(Q, max) : t \in Seq(Q) /\ t # <<>> /\ (Weight(t) <= max \/ Len(t) = 1)
  BY DEF Part
<1>2. \A t \in Part(Q, max) : t \in Text
  BY <1>1, InText
<1>3. Part(Q, max) \subseteq Text
  BY <1>2
<1>4. \A x \in Seq(Part(Q, max)) : x \in Seq(Text)
  BY <1>3, SeqMonotonic
<1> QED BY <1>1, <1>2, <1>4

LEMMA CutAt ==
  ASSUME NEW Q, Q \subseteq Sentence, NEW max, NEW acc \in Cut(Q, max)
  PROVE  /\ acc.out \in Seq(Part(Q, max)) /\ acc.cur \in Part(Q, max) \union {<<>>}
         /\ acc.out \in Seq(Text) /\ acc.cur \in Text /\ acc.cur \in Seq(Q)
         /\ AllPlaces(acc.out) \in Seq(Place) /\ Places(acc.cur) \in Seq(Place)
         /\ acc = [out |-> acc.out, cur |-> acc.cur]
<1>1. acc.out \in Seq(Part(Q, max)) /\ acc.cur \in Part(Q, max) \union {<<>>}
      /\ acc = [out |-> acc.out, cur |-> acc.cur]
  BY DEF Cut
<1>2. <<>> \in Text /\ <<>> \in Seq(Q)
  BY EmptySeq DEF Text
<1>3. acc.out \in Seq(Text) /\ acc.cur \in Text /\ acc.cur \in Seq(Q)
  BY <1>1, <1>2, InTexts
<1> QED BY <1>1, <1>3, AllPlacesType, PlacesAt

LEMMA UncutIs ==
  ASSUME NEW Q, NEW max
  PROVE  Uncut \in Cut(Q, max) /\ Held(Uncut) = <<>>
<1>1. <<>> \in Seq(Part(Q, max)) /\ <<>> \in Seq(Place)
  BY EmptySeq
<1>2. Uncut.out = <<>> /\ Uncut.cur = <<>> /\ Uncut \in Cut(Q, max)
  BY <1>1 DEF Uncut, Cut
<1> QED BY <1>1, <1>2, AllEmpty, PlacesEmpty, ConcatEmptySeq DEF Held

LEMMA ClosedIs ==
  ASSUME NEW Q, Q \subseteq Sentence, NEW max, NEW acc \in Cut(Q, max)
  PROVE  /\ Closed(acc) \in Seq(Part(Q, max)) /\ Closed(acc) \in Seq(Text)
         /\ AllPlaces(Closed(acc)) = Held(acc) /\ (acc.cur # <<>> => Closed(acc) # <<>>)
<1>1. /\ acc.out \in Seq(Part(Q, max)) /\ acc.cur \in Part(Q, max) \union {<<>>}
      /\ acc.out \in Seq(Text) /\ acc.cur \in Text /\ AllPlaces(acc.out) \in Seq(Place)
  BY CutAt
<1>2. CASE acc.cur = <<>>
  <2>1. Held(acc) = AllPlaces(acc.out)
    BY <1>1, <1>2, PlacesEmpty, ConcatEmptySeq DEF Held
  <2> QED BY <1>1, <1>2, <2>1 DEF Closed
<1>3. CASE acc.cur # <<>>
  <2>1. Closed(acc) = Append(acc.out, acc.cur)
    BY <1>3 DEF Closed
  <2>2. Append(acc.out, acc.cur) \in Seq(Part(Q, max)) /\ Append(acc.out, acc.cur) # <<>>
    BY <1>1, <1>3, AppendProperties
  <2>3. Append(acc.out, acc.cur) \in Seq(Text) /\ AllPlaces(Append(acc.out, acc.cur)) = Held(acc)
    BY <1>1, AllAppend DEF Held
  <2> QED BY <2>1, <2>2, <2>3
<1> QED BY <1>2, <1>3

(* A sentence opens a part.                                                    *)
LEMMA OnePart ==
  ASSUME NEW Q, Q \subseteq Sentence, NEW max, NEW s \in Q
  PROVE  <<s>> \in Part(Q, max) /\ <<s>> # <<>> /\ Places(<<s>>) = <<s.place>> /\ <<s.place>> \in Seq(Place)
<1>1. s \in Sentence /\ s.place \in Place
  BY DEF Sentence, Place
<1>2. <<s>> \in Seq(Q) /\ Len(<<s>>) = 1 /\ <<s>> # <<>>
  OBVIOUS
<1>3. <<s>> \in Part(Q, max)
  BY <1>2 DEF Part
<1>4. <<s.place>> \in Seq(Place)
  BY <1>1
<1> QED BY <1>1, <1>2, <1>3, <1>4, PlacesOne

(* A step of a fold puts a text at the end: what was open is closed, or the    *)
(* open part grows.                                                            *)
Adds(r, acc, t) == r.cur # <<>> /\ Held(r) = Held(acc) \o Places(t)
Reopens(r, acc, t) == r = [out |-> Closed(acc), cur |-> t]
Grows(r, acc, u) == r = [acc EXCEPT !.cur = u]

LEMMA Reopened ==
  ASSUME NEW Q, Q \subseteq Sentence, NEW max, NEW acc \in Cut(Q, max), NEW t \in Part(Q, max),
         NEW r, Reopens(r, acc, t)
  PROVE  r \in Cut(Q, max) /\ Adds(r, acc, t)
<1>1. Closed(acc) \in Seq(Part(Q, max)) /\ AllPlaces(Closed(acc)) = Held(acc)
  BY ClosedIs
<1>2. r.out = Closed(acc) /\ r.cur = t /\ r \in Cut(Q, max)
  BY <1>1 DEF Cut, Reopens
<1>3. Held(r) = Held(acc) \o Places(t)
  BY <1>1, <1>2 DEF Held
<1>4. t # <<>>
  BY DEF Part
<1> QED BY <1>2, <1>3, <1>4 DEF Adds

LEMMA Grown ==
  ASSUME NEW Q, Q \subseteq Sentence, NEW max, NEW acc \in Cut(Q, max),
         NEW t \in Seq(Q), NEW u \in Part(Q, max), u = acc.cur \o t,
         NEW r, Grows(r, acc, u)
  PROVE  r \in Cut(Q, max) /\ Adds(r, acc, t)
<1>1. /\ acc.out \in Seq(Part(Q, max)) /\ acc.cur \in Text /\ AllPlaces(acc.out) \in Seq(Place)
      /\ Places(acc.cur) \in Seq(Place) /\ acc = [out |-> acc.out, cur |-> acc.cur]
  BY CutAt
<1>2. t \in Text /\ Places(t) \in Seq(Place)
  BY InText, PlacesAt
<1>3. r = [out |-> acc.out, cur |-> u]
  BY <1>1 DEF Grows
<1>4. r.out = acc.out /\ r.cur = u /\ r \in Cut(Q, max)
  BY <1>1, <1>3 DEF Cut
<1>5. Places(u) = Places(acc.cur) \o Places(t)
  BY <1>1, <1>2, PlacesConcat
<1>6. AllPlaces(acc.out) \o (Places(acc.cur) \o Places(t)) = (AllPlaces(acc.out) \o Places(acc.cur)) \o Places(t)
  <2>1. \A x, y, z \in Seq(Place) : x \o (y \o z) = (x \o y) \o z
    BY Associative
  <2> QED BY <1>1, <1>2, <2>1, Zenon
<1>7. Held(r) = Held(acc) \o Places(t)
  BY <1>4, <1>5, <1>6, Zenon DEF Held
<1>8. u # <<>>
  BY DEF Part
<1> QED BY <1>4, <1>7, <1>8 DEF Adds

LEMMA LongAddIs ==
  ASSUME NEW Q, Q \subseteq Sentence, NEW max \in Nat, NEW acc \in Cut(Q, max), NEW s \in Q
  PROVE  LongAdd(max, acc, s) \in Cut(Q, max) /\ Adds(LongAdd(max, acc, s), acc, <<s>>)
<1>1. /\ acc.cur \in Part(Q, max) \union {<<>>} /\ acc.cur \in Text /\ acc.cur \in Seq(Q)
  BY CutAt
<1>2. PICK t \in Part(Q, max) : t = <<s>>
  BY OnePart
<1>3. t \in Seq(Q) /\ t \in Part(Q, max)
  BY <1>2 DEF Part
<1>4. PICK r : r = LongAdd(max, acc, s)
  OBVIOUS
<1>5. r \in Cut(Q, max) /\ Adds(r, acc, t)
  <2>1. CASE acc.cur = <<>> \/ Weight(acc.cur) + s.weight <= max
    <3>1. PICK u : u = Append(acc.cur, s)
      OBVIOUS
    <3>2. u = acc.cur \o t /\ u \in Seq(Q) /\ u # <<>> /\ Len(u) = Len(acc.cur) + 1
      BY <1>1, <1>2, <3>1, AppendIs, AppendProperties
    <3>3. s \in Sentence
      OBVIOUS
    <3>4. Weight(u) = Weight(acc.cur) + s.weight
      BY <1>1, <3>1, <3>3, WeightAppend DEF Text
    <3>5. Len(u) = 1 \/ Weight(u) <= max
      BY <2>1, <3>2, <3>4
    <3>6. u \in Part(Q, max)
      BY <3>2, <3>5 DEF Part
    <3>7. Grows(r, acc, u)
      BY <1>4, <2>1, <3>1 DEF LongAdd, Grows
    <3> QED BY <1>3, <3>2, <3>6, <3>7, Grown
  <2>2. CASE ~(acc.cur = <<>> \/ Weight(acc.cur) + s.weight <= max)
    <3>1. Reopens(r, acc, t)
      BY <1>2, <1>4, <2>2 DEF LongAdd, Closed, Reopens
    <3> QED BY <1>3, <3>1, Reopened
  <2> QED BY <2>1, <2>2
<1> QED BY <1>2, <1>4, <1>5, Zenon

LEMMA FlatOnes ==
  ASSUME NEW E, NEW x \in Seq(E), NEW y, y = [i \in 1..Len(x) |-> <<x[i]>>]
  PROVE  y \in Seq(Seq(E)) /\ Len(y) = Len(x) /\ FlattenSeq(y) = x
<1>1. PICK n \in Nat : n = Len(x)
  BY LenProperties
<1>2. \A i \in 1..n : x[i] \in E
  BY <1>1, ElementOfSeq
<1>3. y \in Seq(Seq(E)) /\ Len(y) = n /\ \A i \in 1..n : y[i] = <<x[i]>>
  BY <1>1, <1>2
<1> DEFINE f == [i \in 0..n |-> SubSeq(x, 1, i)]
<1>4. \A i \in 0..n : f[i] = SubSeq(x, 1, i) /\ f[i] \in Seq(E)
  <2> SUFFICES ASSUME NEW i \in 0..n PROVE SubSeq(x, 1, i) \in Seq(E)
    OBVIOUS
  <2>1. \A j \in 1..i : x[j] \in E
    BY <1>2
  <2> QED BY <2>1, SubSeqProperties
<1>5. f \in [0..n -> Seq(E)]
  BY <1>4
<1> HIDE DEF f
<1>6. f[0] = <<>>
  <2>1. f[0] = SubSeq(x, 1, 0)
    BY <1>4
  <2> QED BY <2>1, SubSeqEmpty
<1>7. \A i \in 1..n : f[i] = f[i - 1] \o y[i]
  <2> SUFFICES ASSUME NEW i \in 1..n PROVE f[i] = f[i - 1] \o y[i]
    OBVIOUS
  <2>1. 1 \in 1..Len(x) /\ i \in 1..Len(x) /\ i - 1 \in 0..n /\ i \in 0..n
    BY <1>1
  <2>2. SubSeq(x, 1, i) = SubSeq(x, 1, i - 1) \o <<x[i]>>
    BY <2>1, SubSeqRecursiveSecond
  <2> QED BY <1>3, <1>4, <2>1, <2>2, Zenon
<1>8. IsRun(f, E, y)
  BY <1>3, <1>5, <1>6, <1>7 DEF IsRun
<1>9. FlattenSeq(y) = f[n]
  BY <1>3, <1>8, FlatIs
<1>10. f[n] = x
  <2>1. n \in 0..n
    OBVIOUS
  <2> QED BY <1>1, <1>4, <2>1, SubSeqFull
<1> QED BY <1>1, <1>3, <1>9, <1>10

(* What a fold holds after each step is a run.                                 *)
IsCutting(f, Q, max, y) ==
  /\ f \in [0..Len(y) -> Cut(Q, max)] /\ f[0] = Uncut
  /\ \A i \in 1..Len(y) : Held(f[i]) = Held(f[i - 1]) \o y[i]

LEMMA CuttingIs ==
  ASSUME NEW Q, Q \subseteq Sentence, NEW max, NEW y \in Seq(Seq(Place)), NEW f, IsCutting(f, Q, max, y)
  PROVE  /\ f[Len(y)] \in Cut(Q, max) /\ Closed(f[Len(y)]) \in Seq(Part(Q, max))
         /\ AllPlaces(Closed(f[Len(y)])) = FlattenSeq(y)
<1>1. PICK n \in Nat : n = Len(y)
  BY LenProperties
<1>2. \A i \in 0..n : f[i] \in Cut(Q, max)
  BY <1>1, Zenon DEF IsCutting
<1> DEFINE g == [i \in 0..n |-> Held(f[i])]
<1>3. \A i \in 0..n : Held(f[i]) \in Seq(Place)
  <2> SUFFICES ASSUME NEW i \in 0..n PROVE Held(f[i]) \in Seq(Place)
    OBVIOUS
  <2>1. PICK acc \in Cut(Q, max) : acc = f[i]
    BY <1>2
  <2>2. AllPlaces(acc.out) \in Seq(Place) /\ Places(acc.cur) \in Seq(Place)
    BY <2>1, CutAt
  <2> QED BY <2>1, <2>2, ConcatProperties DEF Held
<1>4. g \in [0..n -> Seq(Place)] /\ \A i \in 0..n : g[i] = Held(f[i])
  BY <1>3
<1> HIDE DEF g
<1>5. g[0] = <<>>
  <2>1. 0 \in 0..n
    OBVIOUS
  <2>2. f[0] = Uncut
    BY DEF IsCutting
  <2> QED BY <1>4, <2>1, <2>2, UncutIs, Zenon
<1>6. \A i \in 1..n : g[i] = g[i - 1] \o y[i]
  <2>1. \A i \in 1..n : i \in 0..n /\ i - 1 \in 0..n
    OBVIOUS
  <2> QED BY <1>1, <1>4, <2>1, Zenon DEF IsCutting
<1>7. IsRun(g, Place, y)
  BY <1>1, <1>4, <1>5, <1>6 DEF IsRun
<1>8. n \in 0..n
  OBVIOUS
<1>9. FlattenSeq(y) = Held(f[n])
  BY <1>1, <1>4, <1>7, <1>8, FlatIs
<1>10. PICK acc \in Cut(Q, max) : acc = f[n]
  BY <1>2, <1>8
<1>11. Closed(acc) \in Seq(Part(Q, max)) /\ AllPlaces(Closed(acc)) = Held(acc)
  BY <1>10, ClosedIs
<1> QED BY <1>1, <1>9, <1>10, <1>11

LEMMA LongIs ==
  ASSUME NEW Q, Q \subseteq Sentence, NEW max \in Nat, NEW t \in Seq(Q), t # <<>>
  PROVE  /\ Long(max, t) \in Seq(Part(Q, max)) /\ Long(max, t) # <<>>
         /\ AllPlaces(Long(max, t)) = Places(t)
<1>1. PICK n \in Nat : n = Len(t)
  BY LenProperties
<1>2. n # 0 /\ \A i \in 1..n : t[i] \in Q
  BY <1>1, EmptySeq, ElementOfSeq
<1>3. PICK V : V = Cut(Q, max)
  OBVIOUS
<1>4. Uncut \in V /\ \A i \in 1..n, v \in V : LongAdd(max, v, t[i]) \in V /\ Adds(LongAdd(max, v, t[i]), v, <<t[i]>>)
  BY <1>2, <1>3, UncutIs, LongAddIs
<1> DEFINE step == [y \in (1..n) \X V |-> LongAdd(max, y[2], t[y[1]])]
<1>5. step \in Steps(V, n) /\ \A i \in 1..n, v \in V : step[<<i, v>>] = LongAdd(max, v, t[i])
  BY <1>4 DEF Steps
<1> HIDE DEF step
<1>6. PICK f : IsIterate(f, V, Uncut, n, step)
  BY <1>4, <1>5, Iterates
<1>7. f \in [0..n -> V] /\ f[0] = Uncut /\ \A i \in 1..n : f[i] = step[<<i, f[i - 1]>>]
  BY <1>6 DEF IsIterate
<1>8. \A i \in 1..n : f[i - 1] \in V /\ f[i] = LongAdd(max, f[i - 1], t[i])
  <2>1. \A i \in 1..n : i - 1 \in 0..n
    OBVIOUS
  <2>2. \A i \in 1..n : f[i - 1] \in V
    BY <1>7, <2>1
  <2> QED BY <1>5, <1>7, <2>2, Zenon
<1> DEFINE Eq(a) == a = [i \in 0..n |-> IF i = 0 THEN Uncut ELSE LongAdd(max, a[i - 1], t[i])]
<1>9. Eq(f)
  BY <1>7, <1>8
<1> DEFINE acc == CHOOSE a : Eq(a)
<1>10. Eq(acc)
  BY <1>9
<1>11. Long(max, t) = Closed(acc[n])
  BY <1>1 DEF Long
<1> HIDE DEF acc
<1>12. acc[0] = Uncut /\ \A i \in 1..n : acc[i - 1] \in V => acc[i] = step[<<i, acc[i - 1]>>]
  BY <1>5, <1>10
<1>13. acc[n] = f[n]
  <2>1. \A j \in 0..n : acc[j] = f[j]
    BY <1>4, <1>5, <1>6, <1>12, SameIterate
  <2> QED BY <2>1
<1>14. PICK y : y = [i \in 1..n |-> <<Places(t)[i]>>]
  OBVIOUS
<1>15. t \in Text
  BY InText
<1>16. Places(t) \in Seq(Place) /\ Len(Places(t)) = n /\ \A i \in 1..n : Places(t)[i] = t[i].place
  BY <1>1, <1>15, PlacesAt
<1>17. y \in Seq(Seq(Place)) /\ Len(y) = n /\ FlattenSeq(y) = Places(t)
  BY <1>14, <1>16, FlatOnes
<1>18. \A i \in 1..n : Held(f[i]) = Held(f[i - 1]) \o y[i] /\ f[i].cur # <<>>
  <2> SUFFICES ASSUME NEW i \in 1..n PROVE Held(f[i]) = Held(f[i - 1]) \o y[i] /\ f[i].cur # <<>>
    OBVIOUS
  <2>1. Adds(f[i], f[i - 1], <<t[i]>>)
    BY <1>4, <1>8, Zenon
  <2>2. y[i] = <<t[i].place>> /\ Places(<<t[i]>>) = <<t[i].place>>
    BY <1>2, <1>14, <1>16, PlacesOne
  <2> QED BY <2>1, <2>2, Zenon DEF Adds
<1>19. IsCutting(f, Q, max, y)
  BY <1>3, <1>7, <1>17, <1>18 DEF IsCutting
<1>20. Closed(f[n]) \in Seq(Part(Q, max)) /\ AllPlaces(Closed(f[n])) = Places(t)
  BY <1>17, <1>19, CuttingIs
<1>21. Closed(f[n]) # <<>>
  <2>1. PICK r \in Cut(Q, max) : r = f[n]
    BY <1>3, <1>7
  <2>2. n \in 1..n
    BY <1>2
  <2>3. r.cur # <<>>
    BY <1>18, <2>1, <2>2
  <2> QED BY <2>1, <2>3, ClosedIs
<1> QED BY <1>11, <1>13, <1>20, <1>21, Zenon

LEMMA FrontLast ==
  ASSUME NEW E, NEW x \in Seq(E), x # <<>>
  PROVE  Front(x) \in Seq(E) /\ Last(x) \in E /\ x = Append(Front(x), Last(x))
<1>1. Len(x) \in Nat /\ Len(x) # 0 /\ \A i \in 1..Len(x) : x[i] \in E
  BY LenProperties, EmptySeq, ElementOfSeq
<1>2. 1 \in 1..Len(x) /\ Len(x) \in 1..Len(x) /\ Len(x) - 1 \in Nat
  BY <1>1
<1>3. SubSeq(x, 1, Len(x)) = SubSeq(x, 1, Len(x) - 1) \o <<x[Len(x)]>>
  BY <1>2, SubSeqRecursiveSecond
<1>4. SubSeq(x, 1, Len(x)) = x
  BY SubSeqFull
<1>5. Front(x) = SubSeq(x, 1, Len(x) - 1) /\ Last(x) = x[Len(x)]
  BY DEF Front, Last
<1>6. \A i \in 1..Len(x) - 1 : x[i] \in E
  BY <1>1
<1>7. SubSeq(x, 1, Len(x) - 1) \in Seq(E)
  BY <1>2, <1>6, SubSeqProperties
<1>8. Front(x) \in Seq(E) /\ Last(x) \in E
  BY <1>1, <1>2, <1>5, <1>7
<1>9. Append(Front(x), Last(x)) = Front(x) \o <<Last(x)>>
  BY <1>8, AppendIs
<1> QED BY <1>3, <1>4, <1>5, <1>8, <1>9, Zenon

(* A paragraph, and what it does to the parts.                                 *)
Para(Q) == {t \in Seq(Q) : t # <<>>}

LEMMA Longer ==
  ASSUME NEW Q, Q \subseteq Sentence, NEW max \in Nat, NEW acc \in Cut(Q, max), NEW p \in Para(Q),
         Weight(acc.cur) + Weight(p) <= max, NEW r, Grows(r, acc, acc.cur \o p)
  PROVE  r \in Cut(Q, max) /\ Adds(r, acc, p)
<1>1. acc.cur \in Text /\ acc.cur \in Seq(Q)
  BY CutAt
<1>2. p \in Seq(Q) /\ p # <<>> /\ p \in Text
  BY InText DEF Para
<1>3. PICK u : u = acc.cur \o p
  OBVIOUS
<1>4. u \in Seq(Q) /\ u # <<>>
  <2>1. u \in Seq(Q)
    BY <1>1, <1>2, <1>3, ConcatProperties
  <2>2. acc.cur \o p = <<>> => p = <<>>
    BY <1>1, <1>2, ConcatEqualIffEmpty
  <2> QED BY <1>2, <1>3, <2>1, <2>2
<1>5. Weight(u) <= max
  BY <1>1, <1>2, <1>3, WeightConcat DEF Text
<1>6. u \in Part(Q, max)
  BY <1>4, <1>5 DEF Part
<1>7. Grows(r, acc, u)
  BY <1>3
<1> QED BY <1>2, <1>3, <1>6, <1>7, Grown

LEMMA Fitting ==
  ASSUME NEW Q, NEW max, NEW p \in Para(Q), Weight(p) <= max
  PROVE  p \in Part(Q, max)
BY DEF Para, Part

LEMMA TokenAddIs ==
  ASSUME NEW Q, Q \subseteq Sentence, NEW max \in Nat, NEW acc \in Cut(Q, max), NEW p \in Para(Q)
  PROVE  TokenAdd(max, acc, p) \in Cut(Q, max) /\ Adds(TokenAdd(max, acc, p), acc, p)
<1>1. PICK r : r = TokenAdd(max, acc, p)
  OBVIOUS
<1>2. r \in Cut(Q, max) /\ Adds(r, acc, p)
  <2>1. CASE Weight(acc.cur) + Weight(p) <= max
    <3>1. Grows(r, acc, acc.cur \o p)
      BY <1>1, <2>1 DEF TokenAdd, Grows
    <3> QED BY <2>1, <3>1, Longer
  <2>2. CASE ~(Weight(acc.cur) + Weight(p) <= max) /\ Weight(p) <= max
    <3>1. Reopens(r, acc, p)
      BY <1>1, <2>2 DEF TokenAdd, Reopens
    <3>2. p \in Part(Q, max)
      BY <2>2, Fitting
    <3> QED BY <3>1, <3>2, Reopened
  <2>3. CASE ~(Weight(acc.cur) + Weight(p) <= max) /\ ~(Weight(p) <= max)
    <3>1. p \in Seq(Q) /\ p # <<>>
      BY DEF Para
    <3>2. PICK parts : parts = Long(max, p)
      OBVIOUS
    <3>3. parts \in Seq(Part(Q, max)) /\ parts # <<>> /\ AllPlaces(parts) = Places(p)
      BY <3>1, <3>2, LongIs
    <3>4. Front(parts) \in Seq(Part(Q, max)) /\ Last(parts) \in Part(Q, max)
          /\ parts = Append(Front(parts), Last(parts))
      BY <3>3, FrontLast
    <3>5. Front(parts) \in Seq(Text) /\ Last(parts) \in Text /\ Last(parts) # <<>>
      BY <3>4, InTexts
    <3>6. Places(p) = AllPlaces(Front(parts)) \o Places(Last(parts))
      BY <3>3, <3>4, <3>5, AllAppend
    <3>7. Closed(acc) \in Seq(Part(Q, max)) /\ Closed(acc) \in Seq(Text) /\ AllPlaces(Closed(acc)) = Held(acc)
      BY ClosedIs
    <3>8. Closed(acc) \o Front(parts) \in Seq(Part(Q, max))
      BY <3>4, <3>7, ConcatProperties
    <3>9. AllPlaces(Closed(acc) \o Front(parts)) = AllPlaces(Closed(acc)) \o AllPlaces(Front(parts))
      BY <3>5, <3>7, AllConcat
    <3>10. r = [out |-> Closed(acc) \o Front(parts), cur |-> Last(parts)]
      BY <1>1, <2>3, <3>2 DEF TokenAdd
    <3>11. r.out = Closed(acc) \o Front(parts) /\ r.cur = Last(parts)
      BY <3>10
    <3>12. r \in Cut(Q, max)
      BY <3>4, <3>8, <3>10 DEF Cut
    <3>13. Held(r) = (Held(acc) \o AllPlaces(Front(parts))) \o Places(Last(parts))
      BY <3>7, <3>9, <3>11 DEF Held
    <3>14. Held(acc) \in Seq(Place) /\ AllPlaces(Front(parts)) \in Seq(Place) /\ Places(Last(parts)) \in Seq(Place)
      BY <3>5, <3>7, AllPlacesType, PlacesAt
    <3>15. Held(r) = Held(acc) \o Places(p)
      <4>1. \A x, y, z \in Seq(Place) : x \o (y \o z) = (x \o y) \o z
        BY Associative
      <4>2. Held(acc) \o (AllPlaces(Front(parts)) \o Places(Last(parts)))
              = (Held(acc) \o AllPlaces(Front(parts))) \o Places(Last(parts))
        BY <3>14, <4>1, Zenon
      <4> QED BY <3>6, <3>13, <4>2
    <3> QED BY <3>5, <3>11, <3>12, <3>15 DEF Adds
  <2> QED BY <2>1, <2>2, <2>3
<1> QED BY <1>1, <1>2

LEMMA TokenSplitIs ==
  ASSUME NEW Q, Q \subseteq Sentence, NEW max \in Nat, NEW x \in Seq(Para(Q)), x # <<>>
  PROVE  /\ TokenSplit(max, x) \in Seq(Part(Q, max)) /\ AllPlaces(TokenSplit(max, x)) = AllPlaces(x)
<1>1. PICK n \in Nat : n = Len(x)
  BY LenProperties
<1>2. n # 0 /\ \A i \in 1..n : x[i] \in Para(Q)
  BY <1>1, EmptySeq, ElementOfSeq
<1>3. Para(Q) \subseteq Seq(Q) /\ Para(Q) \subseteq Text
  BY InText DEF Para
<1>4. x \in Seq(Text) /\ x \in Seq(Seq(Q))
  BY <1>3, SeqMonotonic
<1>5. CASE Weight(FlattenSeq(x)) <= max
  <2>1. FlattenSeq(x) \in Seq(Q)
    BY <1>4, FlatType
  <2>2. FlattenSeq(x) \in Text /\ Places(FlattenSeq(x)) = AllPlaces(x)
    BY <1>4, AllFlat
  <2>3. FlattenSeq(x) # <<>>
    <3>1. Front(x) \in Seq(Para(Q)) /\ Last(x) \in Para(Q) /\ x = Append(Front(x), Last(x))
      BY FrontLast
    <3>2. Front(x) \in Seq(Seq(Q)) /\ Last(x) \in Seq(Q) /\ Last(x) # <<>>
      BY <1>3, <3>1, SeqMonotonic DEF Para
    <3>3. FlattenSeq(x) = FlattenSeq(Front(x)) \o Last(x) /\ FlattenSeq(Front(x)) \in Seq(Q)
      BY <3>1, <3>2, FlatAppend, FlatType
    <3>4. \A u, w \in Seq(Q) : u \o w = <<>> => w = <<>>
      BY ConcatEqualIffEmpty
    <3> QED BY <3>2, <3>3, <3>4, Zenon
  <2>4. PICK u \in Part(Q, max) : u = FlattenSeq(x)
    BY <1>5, <2>1, <2>3 DEF Part
  <2>5. TokenSplit(max, x) = <<u>>
    BY <1>5, <2>4 DEF TokenSplit
  <2>6. AllPlaces(<<u>>) = AllPlaces(x)
    BY <2>2, <2>4, AllOne
  <2>7. <<u>> \in Seq(Part(Q, max))
    OBVIOUS
  <2> QED BY <2>5, <2>6, <2>7
<1>6. CASE ~(Weight(FlattenSeq(x)) <= max)
  <2>1. PICK V : V = Cut(Q, max)
    OBVIOUS
  <2>2. Uncut \in V /\ \A i \in 1..n, v \in V : TokenAdd(max, v, x[i]) \in V /\ Adds(TokenAdd(max, v, x[i]), v, x[i])
    BY <1>2, <2>1, UncutIs, TokenAddIs
  <2> DEFINE step == [y \in (1..n) \X V |-> TokenAdd(max, y[2], x[y[1]])]
  <2>3. step \in Steps(V, n) /\ \A i \in 1..n, v \in V : step[<<i, v>>] = TokenAdd(max, v, x[i])
    BY <2>2 DEF Steps
  <2> HIDE DEF step
  <2>4. PICK f : IsIterate(f, V, Uncut, n, step)
    BY <2>2, <2>3, Iterates
  <2>5. f \in [0..n -> V] /\ f[0] = Uncut /\ \A i \in 1..n : f[i] = step[<<i, f[i - 1]>>]
    BY <2>4 DEF IsIterate
  <2>6. \A i \in 1..n : f[i - 1] \in V /\ f[i] = TokenAdd(max, f[i - 1], x[i])
    <3>1. \A i \in 1..n : i - 1 \in 0..n
      OBVIOUS
    <3>2. \A i \in 1..n : f[i - 1] \in V
      BY <2>5, <3>1
    <3> QED BY <2>3, <2>5, <3>2, Zenon
  <2> DEFINE Eq(a) == a = [i \in 0..n |-> IF i = 0 THEN Uncut ELSE TokenAdd(max, a[i - 1], x[i])]
  <2>7. Eq(f)
    BY <2>5, <2>6
  <2> DEFINE acc == CHOOSE a : Eq(a)
  <2>8. Eq(acc)
    BY <2>7
  <2>9. TokenSplit(max, x) = Closed(acc[n])
    BY <1>1, <1>6 DEF TokenSplit
  <2> HIDE DEF acc
  <2>10. acc[0] = Uncut /\ \A i \in 1..n : acc[i - 1] \in V => acc[i] = step[<<i, acc[i - 1]>>]
    BY <2>3, <2>8
  <2>11. acc[n] = f[n]
    <3>1. \A j \in 0..n : acc[j] = f[j]
      BY <2>2, <2>3, <2>4, <2>10, SameIterate
    <3> QED BY <3>1
  <2>12. PICK y : y = PlacesOf(x)
    OBVIOUS
  <2>13. y \in Seq(Seq(Place)) /\ Len(y) = n /\ \A i \in 1..n : y[i] = Places(x[i])
    BY <1>1, <1>4, <2>12, PlacesOfAt
  <2>14. \A i \in 1..n : Held(f[i]) = Held(f[i - 1]) \o y[i]
    BY <2>2, <2>6, <2>13, Zenon DEF Adds
  <2>15. IsCutting(f, Q, max, y)
    BY <2>1, <2>5, <2>13, <2>14 DEF IsCutting
  <2>16. Closed(f[n]) \in Seq(Part(Q, max)) /\ AllPlaces(Closed(f[n])) = FlattenSeq(y)
    BY <2>13, <2>15, CuttingIs
  <2> QED BY <2>9, <2>11, <2>12, <2>16 DEF AllPlaces
<1> QED BY <1>5, <1>6

(* Without sections a long paragraph is cut on its own.                        *)
LEMMA FlatAddIs ==
  ASSUME NEW Q, Q \subseteq Sentence, NEW acc \in Cut(Q, ChunkSize), NEW p \in Para(Q)
  PROVE  FlatAdd(acc, p) \in Cut(Q, ChunkSize) /\ Held(FlatAdd(acc, p)) = Held(acc) \o Places(p)
<1>1. ChunkSize \in Nat
  BY SplitterAssumption
<1>2. PICK r : r = FlatAdd(acc, p)
  OBVIOUS
<1>3. p \in Seq(Q) /\ p # <<>> /\ p \in Text /\ acc.cur \in Text
  BY InText, CutAt DEF Para
<1>4. Weight(p) \in Nat /\ Weight(acc.cur) \in Nat
  BY <1>3, WeightType DEF Text
<1>5. CASE Weight(p) > ChunkSize
  <2>1. PICK parts : parts = Long(ChunkSize, p)
    OBVIOUS
  <2>2. parts \in Seq(Part(Q, ChunkSize)) /\ AllPlaces(parts) = Places(p)
    BY <1>1, <1>3, <2>1, LongIs
  <2>3. parts \in Seq(Text)
    BY <2>2, InTexts
  <2>4. Closed(acc) \in Seq(Part(Q, ChunkSize)) /\ Closed(acc) \in Seq(Text) /\ AllPlaces(Closed(acc)) = Held(acc)
    BY ClosedIs
  <2>5. r = [out |-> Closed(acc) \o parts, cur |-> <<>>]
    BY <1>2, <1>5, <2>1 DEF FlatAdd
  <2>6. Closed(acc) \o parts \in Seq(Part(Q, ChunkSize))
    BY <2>2, <2>4, ConcatProperties
  <2>7. r.out = Closed(acc) \o parts /\ r.cur = <<>> /\ r \in Cut(Q, ChunkSize)
    BY <2>5, <2>6 DEF Cut
  <2>8. AllPlaces(r.out) = Held(acc) \o Places(p) /\ AllPlaces(r.out) \in Seq(Place)
    BY <2>2, <2>3, <2>4, <2>7, AllConcat, AllPlacesType
  <2>9. Held(r) = AllPlaces(r.out)
    BY <2>7, <2>8, PlacesEmpty, ConcatEmptySeq DEF Held
  <2> QED BY <1>2, <2>7, <2>8, <2>9
<1>6. CASE ~(Weight(p) > ChunkSize) /\ Weight(acc.cur) + Weight(p) <= ChunkSize
  <2>1. Grows(r, acc, acc.cur \o p)
    BY <1>2, <1>6 DEF FlatAdd, Grows
  <2>2. r \in Cut(Q, ChunkSize) /\ Adds(r, acc, p)
    BY <1>1, <1>6, <2>1, Longer
  <2> QED BY <1>2, <2>2 DEF Adds
<1>7. CASE ~(Weight(p) > ChunkSize) /\ ~(Weight(acc.cur) + Weight(p) <= ChunkSize)
  <2>1. Reopens(r, acc, p)
    BY <1>2, <1>7 DEF FlatAdd, Reopens
  <2>2. p \in Part(Q, ChunkSize)
    BY <1>1, <1>4, <1>7, Fitting
  <2>3. r \in Cut(Q, ChunkSize) /\ Adds(r, acc, p)
    BY <2>1, <2>2, Reopened
  <2> QED BY <1>2, <2>3 DEF Adds
<1> QED BY <1>5, <1>6, <1>7

-----------------------------------------------------------------------------
(* Chunks: what the property says of one, its overlap apart.                   *)
GoodPaths(d, t) == \A j \in DOMAIN t : (j = 1 /\ HasText(d)) \/ t[j].path # <<>> => PathOf(d, t[j].path, t[j])
GoodSize(c) == \E m \in {ChunkSize, MinSize + Len(c.text[1].path), c.text[1].weight} :
                 Weight(c.text) <= m + c.absorbed * MinSize
GoodChunk(d) == {c \in [text : Text, absorbed : Nat] : c.text # <<>> /\ GoodPaths(d, c.text) /\ GoodSize(c)}
Texts(cs) == [i \in 1..Len(cs) |-> cs[i].text]

LEMMA SizesAre == ChunkSize \in Nat /\ MinSize \in Nat /\ OverlapSize \in Nat
BY SplitterAssumption

LEMMA GoodAt ==
  ASSUME NEW d, NEW c \in GoodChunk(d)
  PROVE  /\ c = [text |-> c.text, absorbed |-> c.absorbed] /\ c.text \in Text /\ c.absorbed \in Nat
         /\ c.text # <<>> /\ GoodPaths(d, c.text) /\ GoodSize(c)
BY DEF GoodChunk

LEMMA TextsAt ==
  ASSUME NEW d, NEW cs \in Seq(GoodChunk(d))
  PROVE  /\ Len(cs) \in Nat /\ Texts(cs) \in Seq(Text) /\ Len(Texts(cs)) = Len(cs)
         /\ \A i \in 1..Len(cs) : cs[i] \in GoodChunk(d) /\ Texts(cs)[i] = cs[i].text /\ cs[i].text # <<>>
<1>1. Len(cs) \in Nat /\ \A i \in 1..Len(cs) : cs[i] \in GoodChunk(d)
  BY LenProperties, ElementOfSeq
<1>2. \A i \in 1..Len(cs) : cs[i].text \in Text /\ cs[i].text # <<>>
  BY <1>1, GoodAt
<1> QED BY <1>1, <1>2 DEF Texts

LEMMA TextsConcat ==
  ASSUME NEW d, NEW x \in Seq(GoodChunk(d)), NEW y \in Seq(GoodChunk(d))
  PROVE  x \o y \in Seq(GoodChunk(d)) /\ Texts(x \o y) = Texts(x) \o Texts(y)
<1>1. x \o y \in Seq(GoodChunk(d)) /\ Len(x \o y) = Len(x) + Len(y)
      /\ \A i \in 1..Len(x) + Len(y) : (x \o y)[i] = IF i <= Len(x) THEN x[i] ELSE y[i - Len(x)]
  BY ConcatProperties
<1>2. /\ Len(x) \in Nat /\ Texts(x) \in Seq(Text) /\ Len(Texts(x)) = Len(x)
      /\ Len(y) \in Nat /\ Texts(y) \in Seq(Text) /\ Len(Texts(y)) = Len(y)
      /\ \A i \in 1..Len(x) : Texts(x)[i] = x[i].text
      /\ \A i \in 1..Len(y) : Texts(y)[i] = y[i].text
  BY TextsAt
<1>3. /\ Texts(x \o y) \in Seq(Text) /\ Len(Texts(x \o y)) = Len(x) + Len(y)
      /\ \A i \in 1..Len(x) + Len(y) : Texts(x \o y)[i] = (x \o y)[i].text
  BY <1>1, TextsAt
<1>4. /\ Texts(x) \o Texts(y) \in Seq(Text) /\ Len(Texts(x) \o Texts(y)) = Len(x) + Len(y)
      /\ \A i \in 1..Len(x) + Len(y) : (Texts(x) \o Texts(y))[i] =
            IF i <= Len(x) THEN Texts(x)[i] ELSE Texts(y)[i - Len(x)]
  <2>1. PICK p \in Seq(Text), q \in Seq(Text) : p = Texts(x) /\ q = Texts(y)
    BY <1>2
  <2>2. p \o q \in Seq(Text) /\ Len(p \o q) = Len(p) + Len(q)
        /\ \A i \in 1..Len(p) + Len(q) : (p \o q)[i] = IF i <= Len(p) THEN p[i] ELSE q[i - Len(p)]
    BY <2>1, ConcatProperties
  <2> QED BY <1>2, <2>1, <2>2, Zenon
<1>5. ASSUME NEW i \in 1..Len(x) + Len(y) PROVE Texts(x \o y)[i] = (Texts(x) \o Texts(y))[i]
  <2>1. CASE i <= Len(x)
    <3>1. i \in 1..Len(x)
      BY <1>2, <2>1
    <3> QED BY <1>1, <1>2, <1>3, <1>4, <2>1, <3>1
  <2>2. CASE ~(i <= Len(x))
    <3>1. i - Len(x) \in 1..Len(y)
      BY <1>2, <2>2
    <3> QED BY <1>1, <1>2, <1>3, <1>4, <2>2, <3>1
  <2> QED BY <2>1, <2>2
<1> QED BY <1>1, <1>3, <1>4, <1>5, SeqEqual

LEMMA TextsAppend ==
  ASSUME NEW d, NEW x \in Seq(GoodChunk(d)), NEW c \in GoodChunk(d)
  PROVE  /\ Append(x, c) \in Seq(GoodChunk(d))
         /\ AllPlaces(Texts(Append(x, c))) = AllPlaces(Texts(x)) \o Places(c.text)
<1>1. Append(x, c) = x \o <<c>> /\ <<c>> \in Seq(GoodChunk(d)) /\ Append(x, c) \in Seq(GoodChunk(d))
  BY AppendIs
<1>2. PICK y \in Seq(GoodChunk(d)) : y = <<c>>
  BY <1>1
<1>3. Len(y) = 1 /\ y[1] = c
  BY <1>2
<1>4. Texts(y) = <<c.text>>
  BY <1>3 DEF Texts
<1>5. Texts(x \o y) = Texts(x) \o Texts(y)
  BY <1>2, TextsConcat
<1>6. c.text \in Text /\ Texts(x) \in Seq(Text)
  BY TextsAt, GoodAt
<1>7. PICK u \in Text : u = c.text
  BY <1>6
<1>8. <<u>> \in Seq(Text) /\ AllPlaces(<<u>>) = Places(u)
  BY <1>7, AllOne
<1>9. AllPlaces(Texts(x) \o <<u>>) = AllPlaces(Texts(x)) \o AllPlaces(<<u>>)
  BY <1>6, <1>8, AllConcat
<1> QED BY <1>1, <1>2, <1>4, <1>5, <1>7, <1>8, <1>9, Zenon

(* The larger of two numbers.                                                  *)
LEMMA MaxOfTwo ==
  ASSUME NEW a \in Int, NEW b \in Int
  PROVE  Max({a, b}) \in {a, b} /\ a <= Max({a, b}) /\ b <= Max({a, b})
<1>1. \E x \in {a, b} : \A y \in {a, b} : x >= y
  <2>1. CASE a >= b
    BY <2>1
  <2>2. CASE b >= a
    BY <2>2
  <2> QED BY <2>1, <2>2
<1> DEFINE m == CHOOSE x \in {a, b} : \A y \in {a, b} : x >= y
<1>2. m \in {a, b} /\ \A y \in {a, b} : m >= y
  BY <1>1
<1>3. Max({a, b}) = m
  BY DEF Max
<1> HIDE DEF m
<1> QED BY <1>2, <1>3

(* The sentences of a section stand under its path.                            *)
Under(d, path) == {s \in Sentence : s.path = <<>> /\ PathOf(d, path, s)}

LEMMA GlueIs ==
  ASSUME NEW path \in Seq(Nat), NEW t \in Text, t # <<>>
  PROVE  /\ Glue(path, t) \in Text /\ Len(Glue(path, t)) = Len(t) /\ Glue(path, t) # <<>>
         /\ Places(Glue(path, t)) = Places(t)
         /\ Weight(Glue(path, t)) = Weight(t) + Len(path)
         /\ Glue(path, t)[1].path = path /\ Glue(path, t)[1].weight = t[1].weight + Len(path)
         /\ Glue(path, t)[1].place = t[1].place
         /\ \A j \in 2..Len(t) : Glue(path, t)[j] = t[j]
<1>1. Len(t) \in Nat /\ Len(t) # 0 /\ \A i \in 1..Len(t) : t[i] \in Sentence
  BY SentenceAt, EmptySeq DEF Text
<1>2. 1 \in 1..Len(t) /\ Len(path) \in Nat
  BY <1>1, LenProperties
<1>3. Tail(t) \in Text /\ Len(Tail(t)) = Len(t) - 1 /\ \A i \in 1..Len(t) - 1 : Tail(t)[i] = t[i + 1]
  BY HeadTailProperties DEF Text
<1>4. PICK s \in Sentence : s = t[1]
  BY <1>1, <1>2
<1>5. Head(t) = s
  BY <1>4
<1>6. s = [place |-> s.place, weight |-> s.weight, path |-> s.path] /\ s.weight \in Nat /\ s.place \in Nat \X Nat
  BY <1>4 DEF Sentence
<1>7. PICK r : r = [place |-> s.place, weight |-> s.weight + Len(path), path |-> path]
  OBVIOUS
<1>8. r \in Sentence /\ r.place = s.place /\ r.weight = s.weight + Len(path) /\ r.path = path
  BY <1>2, <1>6, <1>7 DEF Sentence
<1>10. Glue(path, t) = <<r>> \o Tail(t)
  BY <1>5, <1>7, Zenon DEF Glue
<1>11. <<r>> \in Text /\ Len(<<r>>) = 1 /\ <<r>>[1] = r /\ <<s>> \in Text /\ Len(<<s>>) = 1 /\ <<s>>[1] = s
  BY <1>4, <1>8 DEF Text
<1>12. ASSUME NEW a \in Sentence
       PROVE  /\ <<a>> \o Tail(t) \in Text /\ Len(<<a>> \o Tail(t)) = Len(t)
              /\ \A j \in 1..Len(t) : (<<a>> \o Tail(t))[j] = IF j = 1 THEN a ELSE t[j]
              /\ Places(<<a>> \o Tail(t)) = <<a.place>> \o Places(Tail(t))
              /\ Weight(<<a>> \o Tail(t)) = a.weight + Weight(Tail(t))
  <2>1. PICK u : u = <<a>>
    OBVIOUS
  <2>2. u \in Text /\ Len(u) = 1 /\ u[1] = a
    BY <2>1 DEF Text
  <2>3. u \o Tail(t) \in Text /\ Len(u \o Tail(t)) = 1 + (Len(t) - 1)
        /\ \A j \in 1..1 + (Len(t) - 1) : (u \o Tail(t))[j] = IF j <= 1 THEN u[j] ELSE Tail(t)[j - 1]
    <3>1. PICK v \in Seq(Sentence) : v = Tail(t)
      BY <1>3 DEF Text
    <3>2. u \in Seq(Sentence)
      BY <2>2 DEF Text
    <3>3. u \o v \in Seq(Sentence) /\ Len(u \o v) = Len(u) + Len(v)
          /\ \A j \in 1..Len(u) + Len(v) : (u \o v)[j] = IF j <= Len(u) THEN u[j] ELSE v[j - Len(u)]
      BY <3>1, <3>2, ConcatProperties
    <3>4. Len(u) = 1 /\ Len(v) = Len(t) - 1
      BY <1>3, <2>2, <3>1
    <3> QED BY <3>1, <3>3, <3>4, Zenon DEF Text
  <2>4. \A j \in 1..Len(t) : (u \o Tail(t))[j] = IF j = 1 THEN a ELSE t[j]
    <3> SUFFICES ASSUME NEW j \in 1..Len(t) PROVE (u \o Tail(t))[j] = IF j = 1 THEN a ELSE t[j]
      OBVIOUS
    <3>1. j \in 1..1 + (Len(t) - 1)
      BY <1>1
    <3>2. CASE j = 1
      BY <2>2, <2>3, <3>1, <3>2
    <3>3. CASE j # 1
      <4>1. ~(j <= 1) /\ j - 1 \in 1..Len(t) - 1 /\ (j - 1) + 1 = j
        BY <1>1, <3>3
      <4> QED BY <1>3, <2>3, <3>1, <3>3, <4>1
    <3> QED BY <3>2, <3>3
  <2>5. 1 + (Len(t) - 1) = Len(t)
    BY <1>1
  <2>6. Places(u \o Tail(t)) = Places(u) \o Places(Tail(t)) /\ Places(<<a>>) = <<a.place>>
    BY <1>3, <2>2, PlacesConcat, PlacesOne
  <2>7. Weight(u \o Tail(t)) = Weight(u) + Weight(Tail(t)) /\ Weight(<<a>>) = a.weight
    BY <1>3, <2>2, WeightConcat, WeightOne DEF Text
  <2> QED BY <2>1, <2>3, <2>4, <2>5, <2>6, <2>7, Zenon
<1>13. /\ <<s>> \o Tail(t) \in Text /\ Len(<<s>> \o Tail(t)) = Len(t)
       /\ \A j \in 1..Len(t) : (<<s>> \o Tail(t))[j] = IF j = 1 THEN s ELSE t[j]
       /\ Places(<<s>> \o Tail(t)) = <<s.place>> \o Places(Tail(t))
       /\ Weight(<<s>> \o Tail(t)) = s.weight + Weight(Tail(t))
  BY <1>4, <1>12
<1>14. PICK v \in Text : v = <<s>> \o Tail(t)
  BY <1>13
<1>15. v = t
  <2>1. Len(v) = Len(t) /\ \A j \in 1..Len(t) : v[j] = t[j]
    BY <1>4, <1>13, <1>14
  <2> QED BY <1>14, <2>1, SeqEqual DEF Text
<1>16. PICK w \in Text : w = <<r>> \o Tail(t)
  BY <1>8, <1>12
<1>17. /\ Len(w) = Len(t) /\ \A j \in 1..Len(t) : w[j] = IF j = 1 THEN r ELSE t[j]
       /\ Places(w) = <<r.place>> \o Places(Tail(t)) /\ Weight(w) = r.weight + Weight(Tail(t))
  BY <1>8, <1>12, <1>16
<1>18. Places(w) = Places(t)
  BY <1>8, <1>13, <1>14, <1>15, <1>17
<1>19. Weight(w) = Weight(t) + Len(path)
  <2>1. PICK a \in Nat : a = Weight(Tail(t))
    BY <1>3, WeightType DEF Text
  <2>2. PICK b \in Nat, k \in Nat : b = s.weight /\ k = Len(path)
    BY <1>2, <1>6
  <2>3. Weight(w) = (b + k) + a /\ Weight(t) = b + a
    BY <1>8, <1>13, <1>14, <1>15, <1>17, <2>1, <2>2, Zenon
  <2> QED BY <2>1, <2>2, <2>3
<1>20. w[1] = r /\ w # <<>> /\ \A j \in 2..Len(t) : w[j] = t[j]
  <2>1. \A j \in 2..Len(t) : j \in 1..Len(t) /\ j # 1
    BY <1>1
  <2>2. w # <<>>
    BY <1>1, <1>17
  <2> QED BY <1>2, <1>17, <2>1, <2>2
<1> QED BY <1>4, <1>8, <1>10, <1>16, <1>17, <1>18, <1>19, <1>20, Zenon

LEMMA GluedIsGood ==
  ASSUME NEW d, NEW path \in Seq(Nat), NEW max \in Nat, max = Max({ChunkSize - Len(path), MinSize}),
         NEW t \in Part(Under(d, path), max), NEW c, c = Chunk(Glue(path, t))
  PROVE  c \in GoodChunk(d) /\ Places(c.text) = Places(t)
<1>1. Under(d, path) \subseteq Sentence
  BY DEF Under
<1>2. t \in Seq(Under(d, path)) /\ t \in Text /\ t # <<>> /\ (Weight(t) <= max \/ Len(t) = 1)
  BY <1>1, InTexts
<1>3. PICK g : g = Glue(path, t)
  OBVIOUS
<1>4. /\ g \in Text /\ Len(g) = Len(t) /\ g # <<>> /\ Places(g) = Places(t) /\ Weight(g) = Weight(t) + Len(path)
      /\ g[1].path = path /\ g[1].weight = t[1].weight + Len(path) /\ g[1].place = t[1].place
      /\ \A j \in 2..Len(t) : g[j] = t[j]
  BY <1>2, <1>3, GlueIs
<1>5. c.text = g /\ c.absorbed = 0 /\ c = [text |-> g, absorbed |-> 0]
  BY <1>3 DEF Chunk
<1>6. Len(t) \in Nat /\ Len(t) # 0 /\ DOMAIN g = 1..Len(t)
  BY <1>2, <1>4, EmptySeq, SentenceAt DEF Text
<1>7. \A i \in 1..Len(t) : t[i] \in Under(d, path)
  BY <1>2, ElementOfSeq
<1>8. GoodPaths(d, g)
  <2> SUFFICES ASSUME NEW j \in 1..Len(t), (j = 1 /\ HasText(d)) \/ g[j].path # <<>>
               PROVE  PathOf(d, g[j].path, g[j])
    BY <1>6 DEF GoodPaths
  <2>1. CASE j = 1
    <3>1. t[1] \in Under(d, path)
      BY <1>7, <2>1
    <3>2. PathOf(d, path, t[1])
      BY <3>1 DEF Under
    <3>3. PathOf(d, path, g[1])
      BY <1>4, <3>2 DEF PathOf
    <3> QED BY <1>4, <2>1, <3>3
  <2>2. CASE j # 1
    <3>1. j \in 2..Len(t)
      BY <1>6, <2>2
    <3>2. t[j].path = <<>>
      BY <1>7 DEF Under
    <3> QED BY <1>4, <2>2, <3>1, <3>2
  <2> QED BY <2>1, <2>2
<1>9. GoodSize(c)
  <2>1. PICK k \in Nat : k = Len(path)
    BY LenProperties
  <2>2. PICK w \in Nat : w = Weight(t)
    BY <1>2, WeightType DEF Text
  <2>3. c.absorbed * MinSize = 0 /\ ChunkSize \in Nat /\ MinSize \in Nat
    BY <1>5, SizesAre
  <2>4. CASE w <= max
    <3>1. ChunkSize - k \in Int /\ MinSize \in Int
      BY <2>1, <2>3
    <3>2. max \in {ChunkSize - k, MinSize}
      BY <2>1, <3>1, MaxOfTwo
    <3>3. w + k <= ChunkSize \/ w + k <= MinSize + k
      BY <2>3, <2>4, <3>2
    <3>4. PICK m \in {ChunkSize, MinSize + k} : w + k <= m
      BY <3>3
    <3>5. m + 0 = m
      BY <2>3, <3>4
    <3> QED BY <1>4, <1>5, <2>1, <2>2, <2>3, <3>4, <3>5 DEF GoodSize
  <2>5. CASE Len(t) = 1
    <3>1. t[1] \in Sentence /\ t[1].weight \in Nat
      BY <1>2, <2>5, SentenceAt DEF Text
    <3>2. t = <<t[1]>>
      <4>1. PICK s : s = t[1]
        OBVIOUS
      <4>2. <<s>> \in Text /\ Len(<<s>>) = 1 /\ <<s>>[1] = s
        BY <3>1, <4>1 DEF Text
      <4>3. PICK u \in Text : u = <<s>>
        BY <4>2
      <4>4. Len(u) = Len(t) /\ \A i \in 1..Len(u) : u[i] = t[i]
        BY <2>5, <4>1, <4>2, <4>3
      <4> QED BY <1>2, <4>1, <4>3, <4>4, SeqEqual DEF Text
    <3>3. Weight(t) = t[1].weight
      BY <3>1, <3>2, WeightOne
    <3>4. PICK m \in Nat : m = g[1].weight /\ Weight(g) = m
      BY <1>4, <2>1, <3>1, <3>3
    <3>5. Weight(g) <= m + 0
      BY <3>4
    <3> QED BY <1>5, <2>3, <3>4, <3>5 DEF GoodSize
  <2> QED BY <1>2, <2>2, <2>4, <2>5
<1>10. c \in GoodChunk(d)
  BY <1>4, <1>5, <1>8, <1>9 DEF GoodChunk
<1> QED BY <1>4, <1>5, <1>10

(* The chunks of a section hold its paragraphs.                                *)
LEMMA OfSectionIs ==
  ASSUME NEW d, NEW s, s.path \in Seq(Nat), s.paras \in Seq(Para(Under(d, s.path)))
  PROVE  OfSection(s) \in Seq(GoodChunk(d)) /\ AllPlaces(Texts(OfSection(s))) = AllPlaces(s.paras)
<1>1. CASE s.paras = <<>>
  <2>1. OfSection(s) = <<>>
    BY <1>1 DEF OfSection
  <2>2. Texts(<<>>) = <<>>
    BY DEF Texts
  <2>3. <<>> \in Seq(GoodChunk(d))
    BY EmptySeq
  <2> QED BY <1>1, <2>1, <2>2, <2>3
<1>2. CASE s.paras # <<>>
  <2>1. PICK path, x : path \in Seq(Nat) /\ path = s.path /\ x = s.paras
    OBVIOUS
  <2>2. PICK Q : Q = Under(d, path)
    OBVIOUS
  <2>3. Q \subseteq Sentence /\ x \in Seq(Para(Q)) /\ x # <<>>
    BY <1>2, <2>1, <2>2 DEF Under
  <2>4. PICK max \in Nat : max = Max({ChunkSize - Len(path), MinSize})
    <3>1. Len(path) \in Nat /\ ChunkSize \in Nat /\ MinSize \in Nat
      BY <2>1, LenProperties, SizesAre
    <3>2. ChunkSize - Len(path) \in Int /\ MinSize \in Int
      BY <3>1
    <3>3. PICK a \in Int : a = ChunkSize - Len(path)
      BY <3>2
    <3>4. Max({a, MinSize}) \in {a, MinSize} /\ MinSize <= Max({a, MinSize})
      BY <3>2, <3>3, MaxOfTwo
    <3> QED BY <3>1, <3>3, <3>4
  <2>5. PICK cut : cut = TokenSplit(max, x)
    OBVIOUS
  <2>6. cut \in Seq(Part(Q, max)) /\ AllPlaces(cut) = AllPlaces(x)
    BY <2>3, <2>4, <2>5, TokenSplitIs
  <2>7. OfSection(s) = [i \in 1..Len(cut) |-> Chunk(Glue(path, cut[i]))]
    BY <1>2, <2>1, <2>4, <2>5 DEF OfSection
  <2>8. PICK cs : cs = [i \in 1..Len(cut) |-> Chunk(Glue(path, cut[i]))]
    OBVIOUS
  <2>9. Len(cut) \in Nat /\ \A i \in 1..Len(cut) : cut[i] \in Part(Q, max)
    BY <2>6, LenProperties, ElementOfSeq
  <2>10. \A i \in 1..Len(cut) : cs[i] \in GoodChunk(d) /\ Places(cs[i].text) = Places(cut[i])
    <3> SUFFICES ASSUME NEW i \in 1..Len(cut) PROVE cs[i] \in GoodChunk(d) /\ Places(cs[i].text) = Places(cut[i])
      OBVIOUS
    <3>1. PICK t \in Part(Q, max) : t = cut[i]
      BY <2>9
    <3>2. PICK c : c = Chunk(Glue(path, t))
      OBVIOUS
    <3>3. t \in Part(Under(d, path), max)
      BY <2>2, <3>1
    <3>4. c \in GoodChunk(d) /\ Places(c.text) = Places(t)
      BY <2>1, <2>4, <3>2, <3>3, GluedIsGood
    <3> QED BY <2>8, <3>1, <3>2, <3>4
  <2>11. cs \in Seq(GoodChunk(d)) /\ Len(cs) = Len(cut)
    BY <2>8, <2>9, <2>10
  <2>12. PlacesOf(Texts(cs)) = PlacesOf(cut)
    <3>1. Len(Texts(cs)) = Len(cut) /\ \A i \in 1..Len(cut) : Texts(cs)[i] = cs[i].text
      BY <2>11, TextsAt
    <3>2. \A i \in 1..Len(cut) : Places(Texts(cs)[i]) = Places(cut[i])
      BY <2>10, <3>1
    <3> QED BY <3>1, <3>2 DEF PlacesOf
  <2> QED BY <2>1, <2>6, <2>7, <2>8, <2>11, <2>12 DEF AllPlaces
<1> QED BY <1>1, <1>2

-----------------------------------------------------------------------------
(* Documents, and the headings above a block.                                  *)
Docs == {d \in Seq(Blocks) : d # <<>>}
Of(b) == {s \in Sentence : s.path = <<>> /\ s.place[1] = b}

LEMMA BlockAt ==
  ASSUME NEW d \in Docs
  PROVE  /\ Len(d) \in Nat /\ Len(d) # 0 /\ DOMAIN d = 1..Len(d)
         /\ \A b \in 1..Len(d) : /\ d[b].level \in Nat /\ d[b].weights \in Seq(Nat)
                                 /\ d[b].level = 0 => d[b].weights # <<>>
<1>1. d \in Seq(Blocks) /\ d # <<>>
  BY DEF Docs
<1>2. Len(d) \in Nat /\ Len(d) # 0 /\ DOMAIN d = 1..Len(d)
  BY <1>1, LenProperties, EmptySeq
<1>3. \A b \in 1..Len(d) : d[b] \in Blocks
  BY <1>1, ElementOfSeq
<1>4. \A x \in Blocks : x \in [level : Nat, weights : Seq(Nat)] /\ (x.level = 0 => x.weights # <<>>)
  BY SplitterAssumption
<1> QED BY <1>2, <1>3, <1>4

LEMMA SentencesIs ==
  ASSUME NEW d \in Docs, NEW b \in 1..Len(d)
  PROVE  Sentences(d, b) \in Para(Of(b)) /\ Sentences(d, b) \in Text /\ Places(Sentences(d, b)) # <<>>
<1>1. Len(d) \in Nat /\ b \in Nat /\ <<>> \in Seq(Nat)
  BY BlockAt, EmptySeq
<1>2. /\ d[b].level \in Nat /\ d[b].weights \in Seq(Nat) /\ (d[b].level = 0 => d[b].weights # <<>>)
  BY BlockAt
<1>3. \A k, w \in Nat : [place |-> <<b, k>>, weight |-> w, path |-> <<>>] \in Of(b)
  <2> SUFFICES ASSUME NEW k \in Nat, NEW w \in Nat
               PROVE  [place |-> <<b, k>>, weight |-> w, path |-> <<>>] \in Of(b)
    OBVIOUS
  <2>1. PICK s : s = [place |-> <<b, k>>, weight |-> w, path |-> <<>>]
    OBVIOUS
  <2>2. s.place = <<b, k>> /\ s.path = <<>> /\ s \in Sentence
    BY <1>1, <2>1 DEF Sentence
  <2>3. s.place[1] = b
    BY <2>2
  <2> QED BY <2>1, <2>2, <2>3 DEF Of
<1>4. PICK t : t = Sentences(d, b)
  OBVIOUS
<1>5. t \in Seq(Of(b)) /\ t # <<>>
  <2>1. CASE d[b].level > 0
    <3>1. t = <<[place |-> <<b, 0>>, weight |-> 1, path |-> <<>>]>>
      BY <1>4, <2>1 DEF Sentences
    <3>2. PICK s \in Of(b) : s = [place |-> <<b, 0>>, weight |-> 1, path |-> <<>>]
      BY <1>3
    <3> QED BY <3>1, <3>2
  <2>2. CASE ~(d[b].level > 0)
    <3>1. t = [k \in 1..Len(d[b].weights) |-> [place |-> <<b, k>>, weight |-> d[b].weights[k], path |-> <<>>]]
      BY <1>4, <2>2 DEF Sentences
    <3>2. PICK ws \in Seq(Nat) : ws = d[b].weights
      BY <1>2
    <3>3. ws # <<>>
      BY <1>2, <2>2, <3>2
    <3>4. Len(ws) \in Nat /\ Len(ws) # 0 /\ \A k \in 1..Len(ws) : ws[k] \in Nat /\ k \in Nat
      BY <3>2, <3>3, LenProperties, EmptySeq, ElementOfSeq
    <3>5. \A k \in 1..Len(ws) : [place |-> <<b, k>>, weight |-> ws[k], path |-> <<>>] \in Of(b)
      BY <1>3, <3>4
    <3>6. t = [k \in 1..Len(ws) |-> [place |-> <<b, k>>, weight |-> ws[k], path |-> <<>>]]
      BY <3>1, <3>2
    <3>7. t \in Seq(Of(b)) /\ Len(t) = Len(ws)
      BY <3>4, <3>5, <3>6
    <3> QED BY <3>4, <3>7
  <2> QED BY <2>1, <2>2
<1>6. Of(b) \subseteq Sentence
  BY DEF Of
<1>7. t \in Text
  BY <1>5, <1>6, InText
<1>8. Len(t) # 0 /\ Len(Places(t)) = Len(t)
  BY <1>5, <1>7, PlacesAt, EmptySeq
<1> QED BY <1>4, <1>5, <1>7, <1>8 DEF Para

LEMMA AboveStep ==
  ASSUME NEW d \in Docs
  PROVE  /\ Above(d, 0) = {}
         /\ \A b \in 1..Len(d) :
              /\ d[b].level = 0 => Above(d, b) = Above(d, b - 1)
              /\ d[b].level > 0 => Above(d, b) = {h \in Above(d, b - 1) : d[h].level < d[b].level} \union {b}
<1>1. Len(d) \in Nat /\ \A b \in 1..Len(d) : d[b].level \in Nat
  BY BlockAt
<1>2. Above(d, 0) = {}
  BY DEF Above
<1>3. ASSUME NEW b \in 1..Len(d), d[b].level = 0 PROVE Above(d, b) = Above(d, b - 1)
  <2>1. \A h \in 1..b : d[h].level > 0 => h \in 1..b - 1
    BY <1>1, <1>3
  <2>2. \A h \in 1..b - 1 : h \in 1..b /\ (h + 1)..b = ((h + 1)..(b - 1)) \union {b}
    BY <1>1
  <2> QED BY <1>1, <1>3, <2>1, <2>2 DEF Above
<1>4. ASSUME NEW b \in 1..Len(d), d[b].level > 0
      PROVE  Above(d, b) = {h \in Above(d, b - 1) : d[h].level < d[b].level} \union {b}
  <2>1. \A h \in 1..b : h = b \/ h \in 1..b - 1
    BY <1>1
  <2>2. \A h \in 1..b - 1 : h \in 1..b /\ h \in 1..Len(d) /\ (h + 1)..b = ((h + 1)..(b - 1)) \union {b}
    BY <1>1
  <2>3. (b + 1)..b = {} /\ b \in 1..b /\ b \notin 1..b - 1
    BY <1>1
  <2>4. b \in Above(d, b)
    BY <1>4, <2>3 DEF Above
  <2>5. \A h \in 1..b - 1 : h \in Above(d, b) <=> h \in Above(d, b - 1) /\ d[b].level > d[h].level
    BY <1>4, <2>2 DEF Above
  <2>6. \A h \in 1..b - 1 : d[b].level > d[h].level <=> d[h].level < d[b].level
    BY <1>1, <2>2
  <2>7. Above(d, b) \subseteq 1..b /\ Above(d, b - 1) \subseteq 1..b - 1
    BY DEF Above
  <2> QED BY <2>1, <2>2, <2>4, <2>5, <2>6, <2>7
<1> QED BY <1>2, <1>3, <1>4

(* The path of the section that is open after block b.                         *)
Stack(d, b, p) ==
  /\ p \in Seq(1..Len(d)) /\ Range(p) = Above(d, b)
  /\ \A i, j \in 1..Len(p) : i < j => p[i] < p[j] /\ d[p[i]].level < d[p[j]].level

LEMMA PopIs ==
  ASSUME NEW d \in Docs, NEW p \in Seq(1..Len(d)), NEW level \in Nat
  PROVE  \E k \in 0..Len(p) : /\ Pop(d, p, level) = SubSeq(p, 1, k)
                              /\ k = 0 \/ d[p[k]].level < level
                              /\ \A i \in k + 1..Len(p) : d[p[i]].level >= level
<1>1. PICK n \in Nat : n = Len(p)
  BY LenProperties
<1>2. \A i \in 1..n : d[p[i]].level \in Nat
  BY <1>1, BlockAt, ElementOfSeq
<1> DEFINE T == {k \in 0..n : \A i \in k + 1..n : d[p[i]].level >= level}
<1>3. n \in T
  OBVIOUS
<1>4. T \in SUBSET Nat /\ T # {}
  <2>1. T \subseteq 0..n /\ 0..n \subseteq Nat
    OBVIOUS
  <2> HIDE DEF T
  <2> QED BY <1>3, <2>1
<1>5. PICK k \in T : \A l \in T : k <= l
  <2> HIDE DEF T
  <2> QED BY <1>4, Least
<1>6. k = 0 \/ d[p[k]].level < level
  <2> SUFFICES ASSUME k # 0, ~(d[p[k]].level < level) PROVE FALSE
    OBVIOUS
  <2>1. k \in 1..n /\ k - 1 \in 0..n
    BY <1>5
  <2>2. d[p[k]].level >= level
    BY <1>2, <2>1
  <2>3. \A i \in (k - 1) + 1..n : i = k \/ i \in k + 1..n
    BY <2>1
  <2>4. k - 1 \in T
    BY <1>5, <2>1, <2>2, <2>3
  <2>5. ~(k <= k - 1)
    BY <2>1
  <2> HIDE DEF T
  <2> QED BY <1>5, <2>4, <2>5
<1> DEFINE Is(l) == (l = 0 \/ d[p[l]].level < level) /\ \A i \in l + 1..n : d[p[i]].level >= level
<1>7. k \in 0..n /\ Is(k)
  BY <1>5, <1>6
<1> DEFINE l == CHOOSE l \in 0..n : Is(l)
<1>8. l \in 0..n /\ Is(l)
  <2> HIDE DEF Is
  <2>1. \E x : x \in 0..n /\ Is(x)
    BY <1>7
  <2> QED BY <2>1, Zenon
<1>9. Pop(d, p, level) = SubSeq(p, 1, l)
  BY <1>1 DEF Pop
<1> HIDE DEF l
<1> QED BY <1>1, <1>8, <1>9

LEMMA PopStack ==
  ASSUME NEW d \in Docs, NEW b \in 1..Len(d), NEW p, Stack(d, b - 1, p), d[b].level > 0
  PROVE  Stack(d, b, Append(Pop(d, p, d[b].level), b))
<1>1. /\ p \in Seq(1..Len(d)) /\ Range(p) = Above(d, b - 1)
      /\ \A i, j \in 1..Len(p) : i < j => p[i] < p[j] /\ d[p[i]].level < d[p[j]].level
  BY DEF Stack
<1>2. PICK level \in Nat : level = d[b].level
  BY BlockAt
<1>3. PICK k \in 0..Len(p) : /\ Pop(d, p, level) = SubSeq(p, 1, k)
                             /\ k = 0 \/ d[p[k]].level < level
                             /\ \A i \in k + 1..Len(p) : d[p[i]].level >= level
  BY <1>1, PopIs
<1>4. Len(p) \in Nat /\ Len(d) \in Nat /\ DOMAIN p = 1..Len(p)
      /\ \A i \in 1..Len(p) : p[i] \in 1..Len(d) /\ d[p[i]].level \in Nat
  BY <1>1, BlockAt, LenProperties, ElementOfSeq
<1>5. \A i \in 1..k : i \in 1..Len(p) /\ d[p[i]].level < level
  <2> SUFFICES ASSUME NEW i \in 1..k PROVE i \in 1..Len(p) /\ d[p[i]].level < level
    OBVIOUS
  <2>1. i \in 1..Len(p) /\ k \in 1..Len(p) /\ k # 0 /\ (i = k \/ i < k)
    BY <1>3, <1>4
  <2>2. d[p[k]].level < level
    BY <1>3, <2>1
  <2>3. i < k => d[p[i]].level < d[p[k]].level
    BY <1>1, <2>1
  <2>4. d[p[i]].level \in Nat /\ d[p[k]].level \in Nat
    BY <1>4, <2>1
  <2> QED BY <1>2, <2>1, <2>2, <2>3, <2>4
<1>6. PICK q : q = SubSeq(p, 1, k)
  OBVIOUS
<1>7. q \in Seq(1..Len(d)) /\ Len(q) = k /\ \A i \in 1..k : q[i] = p[i]
  <2>1. 1 \in Int /\ k \in Int /\ \A i \in 1..k : p[i] \in 1..Len(d)
    BY <1>4, <1>5
  <2>2. /\ q \in Seq(1..Len(d)) /\ Len(q) = IF 1 <= k THEN k - 1 + 1 ELSE 0
        /\ \A i \in 1..k - 1 + 1 : q[i] = p[1 + i - 1]
    BY <1>6, <2>1, SubSeqProperties
  <2>3. \A i \in 1..k : i \in 1..k - 1 + 1 /\ 1 + i - 1 = i
    BY <2>1
  <2>4. (IF 1 <= k THEN k - 1 + 1 ELSE 0) = k
    BY <1>3
  <2> QED BY <2>2, <2>3, <2>4
<1>8. PICK r : r = Append(q, b)
  OBVIOUS
<1>9. /\ r \in Seq(1..Len(d)) /\ Len(r) = k + 1 /\ DOMAIN r = 1..k + 1
      /\ r[k + 1] = b /\ \A i \in 1..k : r[i] = p[i]
  <2>1. /\ r \in Seq(1..Len(d)) /\ Len(r) = Len(q) + 1
        /\ \A i \in 1..Len(q) : r[i] = q[i]
        /\ r[Len(q) + 1] = b
    BY <1>7, <1>8, AppendProperties
  <2> QED BY <1>7, <2>1, LenProperties
<1>10. \A i \in 1..k + 1 : i = k + 1 \/ i \in 1..k
  BY <1>3
<1>11. \A i \in 1..Len(p) : p[i] \in Above(d, b - 1) /\ p[i] < b
  <2>1. \A i \in 1..Len(p) : p[i] \in Range(p)
    BY <1>4 DEF Range
  <2>2. \A h \in Above(d, b - 1) : h < b
    BY <1>4 DEF Above
  <2> QED BY <1>1, <2>1, <2>2
<1>12. Range(r) = Above(d, b)
  <2>1. Above(d, b) = {h \in Above(d, b - 1) : d[h].level < level} \union {b}
    BY <1>2, AboveStep
  <2>2. Range(r) \subseteq Above(d, b)
    <3> SUFFICES ASSUME NEW i \in 1..k + 1 PROVE r[i] \in Above(d, b)
      BY <1>9 DEF Range
    <3>1. CASE i = k + 1
      BY <1>9, <2>1, <3>1
    <3>2. CASE i \in 1..k
      BY <1>5, <1>9, <1>11, <2>1, <3>2
    <3> QED BY <1>10, <3>1, <3>2
  <2>3. Above(d, b) \subseteq Range(r)
    <3> SUFFICES ASSUME NEW h \in Above(d, b - 1), d[h].level < level PROVE h \in Range(r)
      <4>1. k + 1 \in 1..k + 1
        BY <1>3
      <4>2. b \in Range(r)
        BY <1>9, <4>1 DEF Range
      <4> QED BY <2>1, <4>2
    <3>1. PICK i \in 1..Len(p) : h = p[i]
      BY <1>1, <1>4 DEF Range
    <3>2. ~(d[p[i]].level >= level)
      BY <1>2, <1>4, <3>1
    <3>3. i \in 1..k
      BY <1>3, <1>4, <3>2
    <3>4. i \in 1..k + 1 /\ r[i] = h
      BY <1>3, <1>9, <3>1, <3>3
    <3> QED BY <1>9, <3>4 DEF Range
  <2> QED BY <2>2, <2>3
<1>13. ASSUME NEW i \in 1..k + 1, NEW j \in 1..k + 1, i < j
       PROVE  r[i] < r[j] /\ d[r[i]].level < d[r[j]].level
  <2>1. i \in 1..k
    BY <1>3, <1>13
  <2>2. CASE j = k + 1
    BY <1>2, <1>5, <1>9, <1>11, <2>1, <2>2
  <2>3. CASE j \in 1..k
    BY <1>1, <1>5, <1>9, <1>13, <2>1, <2>3
  <2> QED BY <1>10, <2>2, <2>3
<1> QED BY <1>2, <1>3, <1>6, <1>8, <1>9, <1>12, <1>13 DEF Stack


(* What is left of the path under a new heading is a path.                     *)
LEMMA PopType ==
  ASSUME NEW d \in Docs, NEW p \in Seq(1..Len(d)), NEW level \in Nat
  PROVE  Pop(d, p, level) \in Seq(1..Len(d))
<1>1. PICK k \in 0..Len(p) : Pop(d, p, level) = SubSeq(p, 1, k)
  BY PopIs
<1>2. Len(p) \in Nat /\ \A i \in 1..Len(p) : p[i] \in 1..Len(d)
  BY LenProperties, ElementOfSeq
<1>3. 1 \in Int /\ k \in Int /\ \A i \in 1..k : p[i] \in 1..Len(d)
  BY <1>1, <1>2
<1> QED BY <1>1, <1>3, SubSeqProperties

-----------------------------------------------------------------------------
(* _parse_sections.                                                            *)
Sect(d) == {s \in [path : Seq(Nat), paras : Seq(Text)] : s.paras \in Seq(Para(Under(d, s.path)))}
SaidOf(secs) == [k \in 1..Len(secs) |-> AllPlaces(secs[k].paras)]
Said(secs) == FlattenSeq(SaidOf(secs))

LEMMA SectAt ==
  ASSUME NEW d, NEW secs \in Seq(Sect(d))
  PROVE  /\ Len(secs) \in Nat /\ SaidOf(secs) \in Seq(Seq(Place)) /\ Len(SaidOf(secs)) = Len(secs)
         /\ \A k \in 1..Len(secs) : /\ secs[k].path \in Seq(Nat)
                                    /\ secs[k].paras \in Seq(Para(Under(d, secs[k].path)))
                                    /\ SaidOf(secs)[k] = AllPlaces(secs[k].paras)
<1>1. Len(secs) \in Nat /\ \A k \in 1..Len(secs) : secs[k] \in Sect(d)
  BY LenProperties, ElementOfSeq
<1>2. \A k \in 1..Len(secs) : /\ secs[k].path \in Seq(Nat) /\ secs[k].paras \in Seq(Text)
                              /\ secs[k].paras \in Seq(Para(Under(d, secs[k].path)))
  BY <1>1 DEF Sect
<1>3. \A k \in 1..Len(secs) : AllPlaces(secs[k].paras) \in Seq(Place)
  BY <1>2, AllPlacesType
<1>4. SaidOf(secs) \in Seq(Seq(Place)) /\ Len(SaidOf(secs)) = Len(secs)
      /\ \A k \in 1..Len(secs) : SaidOf(secs)[k] = AllPlaces(secs[k].paras)
  BY <1>1, <1>3 DEF SaidOf
<1> QED BY <1>1, <1>2, <1>4

LEMMA SaidAppend ==
  ASSUME NEW d, NEW secs \in Seq(Sect(d)), NEW s \in Sect(d)
  PROVE  /\ Append(secs, s) \in Seq(Sect(d))
         /\ Said(Append(secs, s)) = Said(secs) \o AllPlaces(s.paras)
<1>1. PICK t \in Seq(Place) : t = AllPlaces(s.paras)
  BY AllPlacesType DEF Sect
<1>2. PICK r : r = Append(secs, s)
  OBVIOUS
<1>3. /\ r \in Seq(Sect(d)) /\ Len(r) = Len(secs) + 1
      /\ \A i \in 1..Len(secs) : r[i] = secs[i]
      /\ r[Len(secs) + 1] = s
  BY <1>2, AppendProperties
<1>4. PICK n \in Nat : n = Len(secs)
  BY LenProperties
<1>5. /\ SaidOf(secs) \in Seq(Seq(Place)) /\ Len(SaidOf(secs)) = n
      /\ \A k \in 1..n : SaidOf(secs)[k] = AllPlaces(secs[k].paras)
  BY <1>4, SectAt
<1>6. SaidOf(r) \in Seq(Seq(Place)) /\ Len(SaidOf(r)) = n + 1
      /\ \A k \in 1..n + 1 : SaidOf(r)[k] = AllPlaces(r[k].paras)
  BY <1>3, <1>4, SectAt
<1>7. PICK u \in Seq(Seq(Place)) : u = SaidOf(secs)
  BY <1>5
<1>8. PICK w : w = Append(u, t)
  OBVIOUS
<1>9. /\ w \in Seq(Seq(Place)) /\ Len(w) = n + 1
      /\ \A i \in 1..n : w[i] = u[i]
      /\ w[n + 1] = t
  <2>1. /\ w \in Seq(Seq(Place)) /\ Len(w) = Len(u) + 1
        /\ \A i \in 1..Len(u) : w[i] = u[i]
        /\ w[Len(u) + 1] = t
    BY <1>8, AppendProperties
  <2> QED BY <1>5, <1>7, <2>1
<1>10. \A k \in 1..n + 1 : SaidOf(r)[k] = w[k]
  <2> SUFFICES ASSUME NEW k \in 1..n + 1 PROVE SaidOf(r)[k] = w[k]
    OBVIOUS
  <2>1. k = n + 1 \/ k \in 1..n
    BY <1>4
  <2> QED BY <1>1, <1>3, <1>4, <1>5, <1>6, <1>7, <1>9, <2>1
<1>11. SaidOf(r) = w
  BY <1>6, <1>9, <1>10, SeqEqual
<1>12. FlattenSeq(w) = FlattenSeq(u) \o t
  BY <1>8, FlatAppend
<1> QED BY <1>1, <1>2, <1>3, <1>7, <1>11, <1>12 DEF Said


Parsing(d) == [done : Seq([path : Seq(1..Len(d)), paras : Seq(Text)]), path : Seq(1..Len(d)), paras : Seq(Text)]
Ends(d, r, acc, b) == /\ r.done = Append(acc.done, [path |-> acc.path, paras |-> acc.paras])
                      /\ r.path = Append(Pop(d, acc.path, d[b].level), b) /\ r.paras = <<>>
Says(d, r, acc, b) == r.done = acc.done /\ r.path = acc.path /\ r.paras = Append(acc.paras, Sentences(d, b))

LEMMA ParseIs ==
  ASSUME NEW d \in Docs, NEW b \in 1..Len(d), NEW acc \in Parsing(d), NEW r, r = ParseBlock(d, acc, b)
  PROVE  /\ r \in Parsing(d)
         /\ d[b].level > 0 => Ends(d, r, acc, b)
         /\ d[b].level = 0 => Says(d, r, acc, b)
<1> DEFINE S == [path : Seq(1..Len(d)), paras : Seq(Text)]
<1>1. /\ acc.done \in Seq(S) /\ acc.path \in Seq(1..Len(d)) /\ acc.paras \in Seq(Text)
      /\ acc = [done |-> acc.done, path |-> acc.path, paras |-> acc.paras]
  BY DEF Parsing
<1>2. d[b].level \in Nat
  BY BlockAt
<1>3. CASE d[b].level > 0
  <2>1. PICK s \in S : s = [path |-> acc.path, paras |-> acc.paras]
    BY <1>1
  <2>2. PICK q \in Seq(1..Len(d)) : q = Pop(d, acc.path, d[b].level)
    BY <1>1, <1>2, PopType
  <2>3. r = [done |-> Append(acc.done, s), path |-> Append(q, b), paras |-> <<>>]
    BY <1>3, <2>1, <2>2 DEF ParseBlock
  <2>4. Append(acc.done, s) \in Seq(S) /\ Append(q, b) \in Seq(1..Len(d)) /\ <<>> \in Seq(Text)
    <3> HIDE DEF S
    <3> QED BY <1>1, AppendProperties, EmptySeq
  <2>5. r \in Parsing(d)
    BY <2>3, <2>4 DEF Parsing
  <2>6. Ends(d, r, acc, b)
    BY <2>1, <2>2, <2>3 DEF Ends
  <2> QED BY <1>2, <1>3, <2>5, <2>6
<1>4. CASE ~(d[b].level > 0)
  <2>1. PICK t \in Text : t = Sentences(d, b)
    BY SentencesIs
  <2>2. r = [acc EXCEPT !.paras = Append(@, t)]
    BY <1>4, <2>1 DEF ParseBlock
  <2>3. r = [done |-> acc.done, path |-> acc.path, paras |-> Append(acc.paras, t)]
    BY <1>1, <2>2
  <2>4. Append(acc.paras, t) \in Seq(Text)
    BY <1>1, AppendProperties
  <2>5. r \in Parsing(d)
    BY <1>1, <2>3, <2>4 DEF Parsing
  <2>6. Says(d, r, acc, b)
    BY <2>1, <2>3 DEF Says
  <2> QED BY <1>4, <2>5, <2>6
<1> QED BY <1>3, <1>4

(* After each block the sections hold what was read of the paragraphs, each    *)
(* under the path of its headings.                                             *)
Parsed(d, b, acc, h) ==
  /\ acc.done \in Seq(Sect(d)) /\ Stack(d, b, acc.path) /\ acc.paras \in Seq(Para(Under(d, acc.path)))
  /\ Said(acc.done) \o AllPlaces(acc.paras) = h

LEMMA ParsedAt ==
  ASSUME NEW d \in Docs, NEW b, NEW acc, NEW h, Parsed(d, b, acc, h)
  PROVE  /\ acc.done \in Seq(Sect(d)) /\ Stack(d, b, acc.path) /\ acc.path \in Seq(Nat)
         /\ acc.paras \in Seq(Para(Under(d, acc.path))) /\ acc.paras \in Seq(Text)
         /\ Said(acc.done) \in Seq(Place) /\ AllPlaces(acc.paras) \in Seq(Place)
         /\ Said(acc.done) \o AllPlaces(acc.paras) = h
<1>1. /\ acc.done \in Seq(Sect(d)) /\ Stack(d, b, acc.path) /\ acc.paras \in Seq(Para(Under(d, acc.path)))
      /\ Said(acc.done) \o AllPlaces(acc.paras) = h
  BY DEF Parsed
<1>2. acc.path \in Seq(Nat)
  <2>1. acc.path \in Seq(1..Len(d)) /\ 1..Len(d) \subseteq Nat
    BY <1>1, BlockAt DEF Stack
  <2> QED BY <2>1, SeqMonotonic
<1>3. Para(Under(d, acc.path)) \subseteq Text
  <2>1. Under(d, acc.path) \subseteq Sentence
    BY DEF Under
  <2> QED BY <2>1, InText DEF Para
<1>4. acc.paras \in Seq(Text)
  BY <1>1, <1>3, SeqMonotonic
<1>5. Said(acc.done) \in Seq(Place)
  BY <1>1, SectAt, FlatType DEF Said
<1> QED BY <1>1, <1>2, <1>4, <1>5, AllPlacesType

LEMMA EndIsSect ==
  ASSUME NEW d \in Docs, NEW b, NEW acc, NEW h, Parsed(d, b, acc, h),
         NEW s, s = [path |-> acc.path, paras |-> acc.paras]
  PROVE  s \in Sect(d) /\ s.paras = acc.paras
<1>1. /\ acc.path \in Seq(Nat) /\ acc.paras \in Seq(Text) /\ acc.paras \in Seq(Para(Under(d, acc.path)))
  BY ParsedAt
<1>2. s.path = acc.path /\ s.paras = acc.paras /\ s \in [path : Seq(Nat), paras : Seq(Text)]
  BY <1>1
<1> QED BY <1>1, <1>2 DEF Sect

LEMMA EndsParsed ==
  ASSUME NEW d \in Docs, NEW b \in 1..Len(d), d[b].level > 0, NEW acc, NEW h \in Seq(Place),
         Parsed(d, b - 1, acc, h), NEW r, Ends(d, r, acc, b)
  PROVE  Parsed(d, b, r, h)
<1>1. PICK s : s = [path |-> acc.path, paras |-> acc.paras]
  OBVIOUS
<1>2. s \in Sect(d) /\ s.paras = acc.paras
  BY <1>1, EndIsSect
<1>3. acc.done \in Seq(Sect(d)) /\ Said(acc.done) \o AllPlaces(acc.paras) = h
  BY ParsedAt
<1>4. Append(acc.done, s) \in Seq(Sect(d)) /\ Said(Append(acc.done, s)) = h
  BY <1>2, <1>3, SaidAppend
<1>5. r.done = Append(acc.done, s) /\ r.path = Append(Pop(d, acc.path, d[b].level), b) /\ r.paras = <<>>
  BY <1>1 DEF Ends
<1>6. Stack(d, b, r.path)
  <2>1. PICK p : p = acc.path
    OBVIOUS
  <2>2. Stack(d, b - 1, p)
    BY <2>1, ParsedAt
  <2>3. Stack(d, b, Append(Pop(d, p, d[b].level), b))
    BY <2>2, PopStack
  <2> QED BY <1>5, <2>1, <2>3
<1>7. r.paras \in Seq(Para(Under(d, r.path)))
  BY <1>5, EmptySeq
<1>8. Said(r.done) \o AllPlaces(r.paras) = h
  BY <1>4, <1>5, AllEmpty, ConcatEmptySeq
<1> QED BY <1>4, <1>5, <1>6, <1>7, <1>8 DEF Parsed

LEMMA PlacesAssociative ==
  ASSUME NEW u \in Seq(Place), NEW v \in Seq(Place), NEW w \in Seq(Place)
  PROVE  u \o (v \o w) = (u \o v) \o w
BY Associative

LEMMA SaysParsed ==
  ASSUME NEW d \in Docs, NEW b \in 1..Len(d), d[b].level = 0, NEW acc, NEW h \in Seq(Place),
         Parsed(d, b - 1, acc, h), NEW r, Says(d, r, acc, b)
  PROVE  Parsed(d, b, r, h \o Places(Sentences(d, b)))
<1>1. PICK p, x, t : p = acc.path /\ x = acc.paras /\ t = Sentences(d, b)
  OBVIOUS
<1>2. /\ acc.done \in Seq(Sect(d)) /\ Stack(d, b - 1, p) /\ x \in Seq(Para(Under(d, p))) /\ x \in Seq(Text)
      /\ Said(acc.done) \in Seq(Place) /\ AllPlaces(x) \in Seq(Place) /\ Said(acc.done) \o AllPlaces(x) = h
  BY <1>1, ParsedAt
<1>3. r.done = acc.done /\ r.path = p /\ r.paras = Append(x, t)
  BY <1>1 DEF Says
<1>4. Stack(d, b, p)
  BY <1>2, AboveStep DEF Stack
<1>5. Of(b) \subseteq Under(d, p)
  <2>1. DOMAIN p = 1..Len(p)
    BY <1>4, LenProperties DEF Stack
  <2>2. ASSUME NEW s \in Of(b) PROVE s \in Under(d, p)
    <3>1. s \in Sentence /\ s.path = <<>> /\ s.place[1] = b
      BY <2>2 DEF Of
    <3>2. PathOf(d, p, s)
      BY <1>4, <2>1, <3>1 DEF PathOf, Stack
    <3> QED BY <3>1, <3>2 DEF Under
  <2> QED BY <2>2
<1>6. t \in Para(Under(d, p)) /\ t \in Text
  <2>1. t \in Para(Of(b)) /\ t \in Text
    BY <1>1, SentencesIs
  <2>2. t \in Seq(Of(b)) /\ t # <<>>
    BY <2>1 DEF Para
  <2>3. t \in Seq(Under(d, p))
    BY <1>5, <2>2, SeqMonotonic
  <2> QED BY <2>1, <2>2, <2>3 DEF Para
<1>7. Append(x, t) \in Seq(Para(Under(d, p)))
  BY <1>2, <1>6, AppendProperties
<1>8. Append(x, t) \in Seq(Text) /\ AllPlaces(Append(x, t)) = AllPlaces(x) \o Places(t)
  BY <1>2, <1>6, AllAppend
<1>9. Said(r.done) \o AllPlaces(r.paras) = h \o Places(t)
  <2>1. Places(t) \in Seq(Place)
    BY <1>6, PlacesAt
  <2>2. PICK u \in Seq(Place), v \in Seq(Place), w \in Seq(Place) :
            u = Said(acc.done) /\ v = AllPlaces(x) /\ w = Places(t)
    BY <1>2, <2>1
  <2>3. u \o (v \o w) = (u \o v) \o w
    BY PlacesAssociative
  <2> QED BY <1>2, <1>3, <1>8, <2>2, <2>3
<1> QED BY <1>1, <1>2, <1>3, <1>4, <1>7, <1>9 DEF Parsed


(* What the paragraphs of a document say.                                      *)
SaidBy(d) == [b \in 1..Len(d) |-> IF d[b].level > 0 THEN <<>> ELSE Places(Sentences(d, b))]

LEMMA SaidByAt ==
  ASSUME NEW d \in Docs
  PROVE  /\ SaidBy(d) \in Seq(Seq(Place)) /\ Len(SaidBy(d)) = Len(d)
         /\ \A b \in 1..Len(d) :
              /\ d[b].level > 0 => SaidBy(d)[b] = <<>>
              /\ d[b].level = 0 => SaidBy(d)[b] = Places(Sentences(d, b)) /\ SaidBy(d)[b] # <<>>
<1>1. Len(d) \in Nat /\ \A b \in 1..Len(d) : d[b].level \in Nat
  BY BlockAt
<1>2. \A b \in 1..Len(d) : Places(Sentences(d, b)) \in Seq(Place) /\ Places(Sentences(d, b)) # <<>>
  BY SentencesIs, PlacesAt
<1>3. <<>> \in Seq(Place)
  BY EmptySeq
<1>4. \A b \in 1..Len(d) : (IF d[b].level > 0 THEN <<>> ELSE Places(Sentences(d, b))) \in Seq(Place)
  BY <1>2, <1>3
<1>5. SaidBy(d) \in Seq(Seq(Place)) /\ Len(SaidBy(d)) = Len(d)
      /\ \A b \in 1..Len(d) : SaidBy(d)[b] = IF d[b].level > 0 THEN <<>> ELSE Places(Sentences(d, b))
  BY <1>1, <1>4 DEF SaidBy
<1> QED BY <1>1, <1>2, <1>5

(* The sections hold the paragraphs, in order, under the paths of headings.    *)
LEMMA SectionsAre ==
  ASSUME NEW d \in Docs
  PROVE  Sections(d) \in Seq(Sect(d)) /\ Said(Sections(d)) = FlattenSeq(SaidBy(d))
<1>1. PICK n \in Nat : n = Len(d)
  BY BlockAt
<1>2. PICK V : V = Parsing(d)
  OBVIOUS
<1> DEFINE start == [done |-> <<>>, path |-> <<>>, paras |-> <<>>]
<1>3. start \in V /\ start.done = <<>> /\ start.path = <<>> /\ start.paras = <<>>
  <2>1. start.done = <<>> /\ start.path = <<>> /\ start.paras = <<>>
    OBVIOUS
  <2>2. start \in Parsing(d)
    BY EmptySeq DEF Parsing
  <2> QED BY <1>2, <2>1, <2>2
<1> HIDE DEF start
<1>4. \A i \in 1..n, v \in V : ParseBlock(d, v, i) \in V
  BY <1>1, <1>2, ParseIs
<1> DEFINE step == [y \in (1..n) \X V |-> ParseBlock(d, y[2], y[1])]
<1>5. step \in Steps(V, n) /\ \A i \in 1..n, v \in V : step[<<i, v>>] = ParseBlock(d, v, i)
  BY <1>4 DEF Steps
<1> HIDE DEF step
<1>6. PICK f : IsIterate(f, V, start, n, step)
  BY <1>3, <1>5, Iterates
<1>7. f \in [0..n -> V] /\ f[0] = start /\ \A i \in 1..n : f[i] = step[<<i, f[i - 1]>>]
  BY <1>6 DEF IsIterate
<1>8. \A i \in 1..n : f[i - 1] \in V /\ f[i] = ParseBlock(d, f[i - 1], i)
  <2>1. \A i \in 1..n : i - 1 \in 0..n
    OBVIOUS
  <2>2. \A i \in 1..n : f[i - 1] \in V
    BY <1>7, <2>1
  <2> QED BY <1>5, <1>7, <2>2, Zenon
<1> DEFINE Eq(a) == a = [i \in 0..n |-> IF i = 0 THEN start ELSE ParseBlock(d, a[i - 1], i)]
<1>9. Eq(f)
  BY <1>7, <1>8
<1> DEFINE acc == CHOOSE a : Eq(a)
<1>10. Eq(acc)
  BY <1>9
<1>11. PICK end : end = acc[n]
  OBVIOUS
<1>12. Sections(d) = Append(end.done, [path |-> end.path, paras |-> end.paras])
  BY <1>1, <1>11 DEF Sections, start
<1> HIDE DEF acc
<1>13. acc[0] = start /\ \A i \in 1..n : acc[i - 1] \in V => acc[i] = step[<<i, acc[i - 1]>>]
  BY <1>5, <1>10
<1>14. end = f[n]
  <2>1. \A j \in 0..n : acc[j] = f[j]
    BY <1>3, <1>5, <1>6, <1>13, SameIterate
  <2> QED BY <1>11, <2>1
<1>15. PICK y : y = SaidBy(d)
  OBVIOUS
<1>16. /\ y \in Seq(Seq(Place)) /\ Len(y) = n
       /\ \A b \in 1..n : /\ d[b].level > 0 => y[b] = <<>>
                          /\ d[b].level = 0 => y[b] = Places(Sentences(d, b))
  BY <1>1, <1>15, SaidByAt
<1>17. PICK g : IsRun(g, Place, y)
  BY <1>16, RunExists
<1>18. /\ g[0] = <<>> /\ \A i \in 0..n : g[i] \in Seq(Place)
       /\ \A i \in 1..n : g[i] = g[i - 1] \o y[i]
  BY <1>16, <1>17, RunAt
<1> DEFINE T == {j \in Nat : j \in 0..n => Parsed(d, j, f[j], g[j])}
<1>19. 0 \in T
  <2>1. Stack(d, 0, <<>>)
    <3>1. Above(d, 0) = {} /\ Range(<<>>) = {}
      BY AboveStep DEF Range
    <3>2. <<>> \in Seq(1..Len(d)) /\ Len(<<>>) = 0 /\ 1..0 = {}
      BY EmptySeq
    <3>3. 1..Len(<<>>) = {}
      BY <3>2
    <3>4. PICK p : p = <<>>
      OBVIOUS
    <3>5. p \in Seq(1..Len(d)) /\ Range(p) = Above(d, 0) /\ 1..Len(p) = {}
      BY <3>1, <3>2, <3>3, <3>4
    <3>6. Stack(d, 0, p)
      BY <3>5, Zenon DEF Stack
    <3> QED BY <3>4, <3>6
  <2>2. Said(<<>>) = <<>>
    <3>1. SaidOf(<<>>) = <<>>
      BY DEF SaidOf
    <3> QED BY <3>1, FlatEmpty DEF Said
  <2>3. Said(<<>>) \o AllPlaces(<<>>) = <<>>
    BY <2>2, AllEmpty, ConcatEmptySeq, EmptySeq
  <2>4. Parsed(d, 0, start, <<>>)
    BY <1>3, <2>1, <2>3, EmptySeq DEF Parsed
  <2> QED BY <1>7, <1>18, <2>4
<1>20. ASSUME NEW j \in Nat, j \in T PROVE j + 1 \in T
  <2> SUFFICES ASSUME j + 1 \in 0..n PROVE Parsed(d, j + 1, f[j + 1], g[j + 1])
    OBVIOUS
  <2>1. PICK b \in 1..Len(d) : b = j + 1 /\ b - 1 = j
    BY <1>1
  <2>2. Parsed(d, j, f[j], g[j])
    BY <1>20, <2>1
  <2>3. g[j] \in Seq(Place) /\ g[b] = g[j] \o y[b] /\ f[j] \in V /\ f[b] = ParseBlock(d, f[j], b)
    <3>1. b \in 1..n /\ j \in 0..n /\ b - 1 = j
      BY <1>1, <2>1
    <3>2. g[j] \in Seq(Place)
      BY <1>18, <3>1
    <3>3. g[b] = g[b - 1] \o y[b] /\ f[b - 1] \in V /\ f[b] = ParseBlock(d, f[b - 1], b)
      BY <1>8, <1>18, <3>1
    <3> QED BY <3>1, <3>2, <3>3
  <2>4. PICK r, h : r = f[b] /\ h = g[j]
    OBVIOUS
  <2>5. Parsed(d, b - 1, f[j], h)
    BY <2>1, <2>2, <2>4
  <2>6. CASE d[b].level > 0
    <3>1. Ends(d, r, f[j], b)
      BY <1>2, <2>3, <2>4, <2>6, ParseIs
    <3>2. Parsed(d, b, r, h)
      BY <2>3, <2>4, <2>5, <2>6, <3>1, EndsParsed
    <3>3. g[b] = h
      BY <1>1, <1>16, <2>3, <2>4, <2>6, ConcatEmptySeq
    <3> QED BY <2>1, <2>4, <3>2, <3>3
  <2>7. CASE d[b].level = 0
    <3>1. Says(d, r, f[j], b)
      BY <1>2, <2>3, <2>4, <2>7, ParseIs
    <3>2. Parsed(d, b, r, h \o Places(Sentences(d, b)))
      BY <2>3, <2>4, <2>5, <2>7, <3>1, SaysParsed
    <3>3. g[b] = h \o Places(Sentences(d, b))
      BY <1>1, <1>16, <2>3, <2>4, <2>7
    <3> QED BY <2>1, <2>4, <3>2, <3>3
  <2>8. d[b].level \in Nat
    BY BlockAt
  <2> QED BY <2>6, <2>7, <2>8
<1>21. Parsed(d, n, end, g[n])
  <2> HIDE DEF T
  <2>1. n \in T
    BY <1>19, <1>20, Inductive
  <2> USE DEF T
  <2> QED BY <1>14, <2>1
<1>22. PICK s : s = [path |-> end.path, paras |-> end.paras]
  OBVIOUS
<1>23. s \in Sect(d) /\ s.paras = end.paras
  BY <1>21, <1>22, EndIsSect
<1>24. end.done \in Seq(Sect(d)) /\ Said(end.done) \o AllPlaces(end.paras) = g[n]
  BY <1>21, ParsedAt
<1>25. Append(end.done, s) \in Seq(Sect(d)) /\ Said(Append(end.done, s)) = g[n]
  BY <1>23, <1>24, SaidAppend
<1>26. FlattenSeq(y) = g[n]
  BY <1>16, <1>17, FlatIs
<1> QED BY <1>12, <1>15, <1>22, <1>25, <1>26


-----------------------------------------------------------------------------
(* The chunks before the short ones are joined.                                *)
LEMMA FlatNone ==
  ASSUME NEW E, NEW x \in Seq(Seq(E))
  PROVE  FlattenSeq(x) = <<>> <=> \A i \in 1..Len(x) : x[i] = <<>>
<1>1. PICK n \in Nat : n = Len(x)
  BY LenProperties
<1>2. PICK f : IsRun(f, E, x)
  BY RunExists
<1>3. /\ f[0] = <<>> /\ \A i \in 0..n : f[i] \in Seq(E)
      /\ \A i \in 1..n : x[i] \in Seq(E) /\ f[i - 1] \in Seq(E) /\ f[i] = f[i - 1] \o x[i]
  BY <1>1, <1>2, RunAt
<1>4. \A i \in 1..n : f[i] = <<>> <=> f[i - 1] = <<>> /\ x[i] = <<>>
  <2>1. \A u, w \in Seq(E) : u \o w = <<>> <=> u = <<>> /\ w = <<>>
    BY ConcatEqualIffEmpty
  <2> QED BY <1>3, <2>1, Zenon
<1> DEFINE None(j) == \A i \in 1..j : x[i] = <<>>
<1> DEFINE T == {j \in Nat : j \in 0..n => (f[j] = <<>> <=> None(j))}
<1>5. 0 \in T
  BY <1>3
<1>6. ASSUME NEW j \in Nat, j \in T PROVE j + 1 \in T
  <2> SUFFICES ASSUME j + 1 \in 0..n PROVE f[j + 1] = <<>> <=> None(j + 1)
    OBVIOUS
  <2>1. j \in 0..n /\ j + 1 \in 1..n /\ (j + 1) - 1 = j
    BY <1>1
  <2>2. f[j] = <<>> <=> None(j)
    BY <1>6, <2>1
  <2>3. f[j + 1] = <<>> <=> f[j] = <<>> /\ x[j + 1] = <<>>
    BY <1>4, <2>1
  <2>4. 1..j + 1 = (1..j) \union {j + 1}
    BY <1>1
  <2>5. None(j + 1) <=> None(j) /\ x[j + 1] = <<>>
    BY <2>4
  <2> QED BY <2>2, <2>3, <2>5
<1>7. f[n] = <<>> <=> None(n)
  <2> HIDE DEF T
  <2>1. n \in T
    BY <1>5, <1>6, Inductive
  <2> USE DEF T
  <2> QED BY <2>1
<1>8. FlattenSeq(x) = f[n]
  BY <1>1, <1>2, FlatIs
<1> QED BY <1>1, <1>7, <1>8

LEMMA TextsFlat ==
  ASSUME NEW d, NEW x \in Seq(Seq(GoodChunk(d))), NEW y \in Seq(Seq(Place)), Len(x) = Len(y),
         \A k \in 1..Len(x) : AllPlaces(Texts(x[k])) = y[k]
  PROVE  FlattenSeq(x) \in Seq(GoodChunk(d)) /\ AllPlaces(Texts(FlattenSeq(x))) = FlattenSeq(y)
<1>1. PICK n \in Nat : n = Len(x) /\ n = Len(y)
  BY LenProperties
<1>2. PICK C : C = GoodChunk(d)
  OBVIOUS
<1>3. PICK f : IsRun(f, C, x)
  BY <1>2, RunExists
<1>4. PICK g : IsRun(g, Place, y)
  BY RunExists
<1>5. /\ f[0] = <<>> /\ \A i \in 0..n : f[i] \in Seq(GoodChunk(d))
      /\ \A i \in 1..n : /\ x[i] \in Seq(GoodChunk(d)) /\ f[i - 1] \in Seq(GoodChunk(d))
                         /\ f[i] = f[i - 1] \o x[i]
  <2>1. /\ f[0] = <<>> /\ \A i \in 0..Len(x) : f[i] \in Seq(C)
        /\ \A i \in 1..Len(x) : /\ x[i] \in Seq(C) /\ f[i - 1] \in Seq(C)
                                /\ f[i] = f[i - 1] \o x[i]
    <3>1. x \in Seq(Seq(C))
      BY <1>2
    <3> QED BY <1>3, <3>1, RunAt
  <2> QED BY <1>1, <1>2, <2>1
<1>6. g[0] = <<>> /\ \A i \in 1..n : g[i] = g[i - 1] \o y[i]
  <2>1. g[0] = <<>> /\ \A i \in 1..Len(y) : g[i] = g[i - 1] \o y[i]
    BY <1>4, RunAt
  <2> QED BY <1>1, <2>1
<1>7. ASSUME NEW i \in 1..n PROVE AllPlaces(Texts(f[i])) = AllPlaces(Texts(f[i - 1])) \o y[i]
  <2>1. PICK u \in Seq(GoodChunk(d)), w \in Seq(GoodChunk(d)) : u = f[i - 1] /\ w = x[i]
    BY <1>5
  <2>2. Texts(u \o w) = Texts(u) \o Texts(w)
    BY TextsConcat
  <2>3. PICK r \in Seq(Text), s \in Seq(Text) : r = Texts(u) /\ s = Texts(w)
    BY TextsAt
  <2>4. AllPlaces(r \o s) = AllPlaces(r) \o AllPlaces(s)
    BY AllConcat
  <2>5. AllPlaces(Texts(x[i])) = y[i] /\ f[i] = f[i - 1] \o x[i]
    BY <1>1, <1>5
  <2> QED BY <2>1, <2>2, <2>3, <2>4, <2>5
<1> DEFINE T == {j \in Nat : j \in 0..n => AllPlaces(Texts(f[j])) = g[j]}
<1>8. 0 \in T
  <2>1. Texts(<<>>) = <<>>
    BY DEF Texts
  <2> QED BY <1>5, <1>6, <2>1, AllEmpty
<1>9. ASSUME NEW j \in Nat, j \in T PROVE j + 1 \in T
  <2> SUFFICES ASSUME j + 1 \in 0..n PROVE AllPlaces(Texts(f[j + 1])) = g[j + 1]
    OBVIOUS
  <2>1. j \in 0..n /\ j + 1 \in 1..n /\ (j + 1) - 1 = j
    BY <1>1
  <2>2. AllPlaces(Texts(f[j])) = g[j]
    BY <1>9, <2>1
  <2> QED BY <1>6, <1>7, <2>1, <2>2
<1>10. AllPlaces(Texts(f[n])) = g[n]
  <2> HIDE DEF T
  <2>1. n \in T
    BY <1>8, <1>9, Inductive
  <2> USE DEF T
  <2> QED BY <2>1
<1>11. FlattenSeq(x) = f[n] /\ FlattenSeq(y) = g[n]
  BY <1>1, <1>2, <1>3, <1>4, FlatIs
<1> QED BY <1>1, <1>5, <1>10, <1>11

SectionChunks(d) == FlattenSeq([k \in 1..Len(Sections(d)) |-> OfSection(Sections(d)[k])])

LEMMA SectionChunksAre ==
  ASSUME NEW d \in Docs
  PROVE  /\ SectionChunks(d) \in Seq(GoodChunk(d))
         /\ AllPlaces(Texts(SectionChunks(d))) = FlattenSeq(SaidBy(d))
<1>1. PICK secs : secs = Sections(d)
  OBVIOUS
<1>2. secs \in Seq(Sect(d)) /\ Said(secs) = FlattenSeq(SaidBy(d))
  BY <1>1, SectionsAre
<1>3. PICK y : y = SaidOf(secs)
  OBVIOUS
<1>4. PICK n \in Nat : n = Len(secs)
  BY <1>2, SectAt
<1>5. /\ y \in Seq(Seq(Place)) /\ Len(y) = n
      /\ \A k \in 1..n : /\ secs[k].path \in Seq(Nat) /\ secs[k].paras \in Seq(Para(Under(d, secs[k].path)))
                         /\ y[k] = AllPlaces(secs[k].paras)
  BY <1>2, <1>3, <1>4, SectAt
<1>6. \A k \in 1..n : OfSection(secs[k]) \in Seq(GoodChunk(d)) /\ AllPlaces(Texts(OfSection(secs[k]))) = y[k]
  BY <1>5, OfSectionIs
<1>7. PICK x : x = [k \in 1..n |-> OfSection(secs[k])]
  OBVIOUS
<1>8. x \in Seq(Seq(GoodChunk(d))) /\ Len(x) = n /\ \A k \in 1..n : AllPlaces(Texts(x[k])) = y[k]
  BY <1>6, <1>7
<1>9. FlattenSeq(x) \in Seq(GoodChunk(d)) /\ AllPlaces(Texts(FlattenSeq(x))) = FlattenSeq(y)
  BY <1>5, <1>8, TextsFlat
<1>10. SectionChunks(d) = FlattenSeq(x)
  BY <1>1, <1>4, <1>7 DEF SectionChunks
<1> QED BY <1>2, <1>3, <1>9, <1>10 DEF Said

(* There are chunks of sections if and only if there are paragraphs.           *)
LEMMA SectionChunksNone ==
  ASSUME NEW d \in Docs
  PROVE  SectionChunks(d) = <<>> <=> ~HasText(d)
<1>1. PICK cs : cs = SectionChunks(d)
  OBVIOUS
<1>2. cs \in Seq(GoodChunk(d)) /\ AllPlaces(Texts(cs)) = FlattenSeq(SaidBy(d))
  BY <1>1, SectionChunksAre
<1>3. /\ Len(d) \in Nat /\ DOMAIN d = 1..Len(d) /\ SaidBy(d) \in Seq(Seq(Place)) /\ Len(SaidBy(d)) = Len(d)
      /\ \A b \in 1..Len(d) : d[b].level \in Nat /\ (SaidBy(d)[b] = <<>> <=> d[b].level > 0)
  <2>1. \A b \in 1..Len(d) : d[b].level \in Nat
    BY BlockAt
  <2>2. \A b \in 1..Len(d) : SaidBy(d)[b] = <<>> <=> d[b].level > 0
    BY <2>1, SaidByAt
  <2> QED BY <2>1, <2>2, BlockAt, SaidByAt
<1>4. FlattenSeq(SaidBy(d)) = <<>> <=> \A b \in 1..Len(d) : d[b].level > 0
  BY <1>3, FlatNone
<1>5. FlattenSeq(SaidBy(d)) = <<>> <=> ~HasText(d)
  <2>1. \A b \in DOMAIN d : d[b].level > 0 <=> ~(d[b].level = 0)
    BY <1>3
  <2>2. ~HasText(d) <=> \A b \in DOMAIN d : d[b].level > 0
    BY <2>1 DEF HasText
  <2> QED BY <1>3, <1>4, <2>2
<1>6. cs = <<>> => FlattenSeq(SaidBy(d)) = <<>>
  <2>1. Texts(<<>>) = <<>>
    BY DEF Texts
  <2> QED BY <1>2, <2>1, AllEmpty
<1>7. FlattenSeq(SaidBy(d)) = <<>> => cs = <<>>
  <2> SUFFICES ASSUME FlattenSeq(SaidBy(d)) = <<>>, cs # <<>> PROVE FALSE
    OBVIOUS
  <2>1. /\ Len(cs) \in Nat /\ Texts(cs) \in Seq(Text) /\ Len(Texts(cs)) = Len(cs)
        /\ \A i \in 1..Len(cs) : Texts(cs)[i] = cs[i].text /\ cs[i].text # <<>>
    BY <1>2, TextsAt
  <2>2. 1 \in 1..Len(cs)
    BY <1>2, <2>1, EmptySeq
  <2>3. PICK x \in Seq(Text) : x = Texts(cs)
    BY <2>1
  <2>4. PlacesOf(x) \in Seq(Seq(Place)) /\ Len(PlacesOf(x)) = Len(x) /\ PlacesOf(x)[1] = Places(x[1])
    BY <2>1, <2>2, <2>3, PlacesOfAt
  <2>5. FlattenSeq(PlacesOf(x)) = <<>>
    BY <1>2, <2>3 DEF AllPlaces
  <2>6. Places(x[1]) = <<>>
    BY <2>1, <2>2, <2>3, <2>4, <2>5, FlatNone
  <2>7. PICK t \in Text : t = x[1]
    BY <2>1, <2>2, <2>3, ElementOfSeq
  <2>8. Len(t) = 0
    BY <2>6, <2>7, PlacesAt, EmptySeq
  <2> QED BY <2>1, <2>2, <2>3, <2>7, <2>8, EmptySeq DEF Text
<1> QED BY <1>1, <1>5, <1>6, <1>7


(* A part of a text without sections is a good chunk.                          *)
LEMMA FlatIsGood ==
  ASSUME NEW d, NEW Q, Q \subseteq Sentence,
         \A s \in Q : s.path = <<>> /\ (HasText(d) => PathOf(d, <<>>, s)),
         NEW t \in Part(Q, ChunkSize), NEW c, c = Chunk(t)
  PROVE  c \in GoodChunk(d) /\ c.text = t
<1>1. c.text = t /\ c.absorbed = 0 /\ c = [text |-> t, absorbed |-> 0]
  BY DEF Chunk
<1>2. t \in Seq(Q) /\ t \in Text /\ t # <<>> /\ (Weight(t) <= ChunkSize \/ Len(t) = 1)
  BY InTexts
<1>3. c \in [text : Text, absorbed : Nat]
  BY <1>1, <1>2
<1>4. DOMAIN t = 1..Len(t) /\ \A j \in 1..Len(t) : t[j] \in Q
  BY <1>2, LenProperties, ElementOfSeq
<1>5. GoodPaths(d, t)
  <2> SUFFICES ASSUME NEW j \in DOMAIN t, (j = 1 /\ HasText(d)) \/ t[j].path # <<>>
               PROVE  PathOf(d, t[j].path, t[j])
    BY DEF GoodPaths
  <2>1. t[j] \in Q
    BY <1>4
  <2> QED BY <2>1
<1>6. GoodSize(c)
  <2>1. ChunkSize \in Nat /\ MinSize \in Nat
    BY SizesAre
  <2>2. 0 * MinSize = 0
    BY <2>1
  <2>3. CASE Weight(t) <= ChunkSize
    <3>1. ChunkSize + c.absorbed * MinSize = ChunkSize
      BY <1>1, <2>1, <2>2
    <3>2. Weight(c.text) <= ChunkSize + c.absorbed * MinSize
      BY <1>1, <2>3, <3>1
    <3> QED BY <3>2 DEF GoodSize
  <2>4. CASE Len(t) = 1
    <3>1. PICK s \in Sentence : s = t[1]
      BY <1>2, <2>4, SentenceAt DEF Text
    <3>2. t = <<s>>
      BY <1>2, <2>4, <3>1 DEF Text
    <3>3. s.weight \in Nat /\ Weight(<<s>>) = s.weight
      BY WeightOne DEF Sentence
    <3>4. c.text[1].weight = s.weight /\ s.weight + c.absorbed * MinSize = s.weight
      BY <1>1, <2>2, <3>1, <3>3
    <3>5. Weight(c.text) <= c.text[1].weight + c.absorbed * MinSize
      BY <1>1, <3>2, <3>3, <3>4
    <3> QED BY <3>5 DEF GoodSize
  <2> QED BY <1>2, <2>3, <2>4
<1> QED BY <1>1, <1>2, <1>3, <1>5, <1>6 DEF GoodChunk

LEMMA FlatChunksAre ==
  ASSUME NEW d \in Docs, HasText(d) => \A b \in 1..Len(d) : d[b].level = 0
  PROVE  /\ FlatChunks(d) \in Seq(GoodChunk(d))
         /\ AllPlaces(Texts(FlatChunks(d))) = FlattenSeq([b \in 1..Len(d) |-> Places(Sentences(d, b))])
<1>1. PICK n \in Nat : n = Len(d)
  BY BlockAt
<1>2. PICK Q : Q = {s \in Sentence : s.path = <<>> /\ (HasText(d) => PathOf(d, <<>>, s))}
  OBVIOUS
<1>3. Q \subseteq Sentence /\ \A s \in Q : s.path = <<>> /\ (HasText(d) => PathOf(d, <<>>, s))
  BY <1>2
<1>4. ASSUME NEW b \in 1..n PROVE Of(b) \subseteq Q
  <2> SUFFICES ASSUME NEW s \in Of(b) PROVE s \in Q
    OBVIOUS
  <2>1. s \in Sentence /\ s.path = <<>> /\ s.place[1] = b
    BY DEF Of
  <2>2. ASSUME HasText(d) PROVE PathOf(d, <<>>, s)
    <3>1. \A h \in 1..b : h \in 1..n
      BY <1>1
    <3>2. \A h \in 1..b : d[h].level = 0 /\ ~(d[h].level > 0)
      BY <1>1, <2>2, <3>1
    <3>3. Above(d, b) = {}
      BY <3>2, Zenon DEF Above
    <3>4. PICK p : p = <<>>
      OBVIOUS
    <3>5. DOMAIN p = {}
      BY <3>4
    <3>6. Range(p) = Above(d, s.place[1])
      BY <2>1, <3>3, <3>5 DEF Range
    <3>7. \A i, j \in DOMAIN p : i < j => p[i] < p[j]
      BY <3>5
    <3>8. PathOf(d, p, s)
      BY <3>6, <3>7, Zenon DEF PathOf
    <3> QED BY <3>4, <3>8
  <2> QED BY <1>2, <2>1, <2>2
<1>5. \A b \in 1..n : Sentences(d, b) \in Para(Q) /\ Places(Sentences(d, b)) \in Seq(Place)
  <2> SUFFICES ASSUME NEW b \in 1..n PROVE Sentences(d, b) \in Para(Q) /\ Places(Sentences(d, b)) \in Seq(Place)
    OBVIOUS
  <2>1. PICK t : t = Sentences(d, b)
    OBVIOUS
  <2>2. t \in Para(Of(b)) /\ t \in Text
    BY <1>1, <2>1, SentencesIs
  <2>3. t \in Seq(Of(b)) /\ t # <<>>
    BY <2>2 DEF Para
  <2>4. t \in Seq(Q)
    BY <1>4, <2>3, SeqMonotonic
  <2> QED BY <2>1, <2>2, <2>3, <2>4, PlacesAt DEF Para
<1>6. PICK V : V = Cut(Q, ChunkSize)
  OBVIOUS
<1>7. Uncut \in V
  BY <1>6, UncutIs
<1>8. \A b \in 1..n, v \in V : /\ FlatAdd(v, Sentences(d, b)) \in V
                               /\ Held(FlatAdd(v, Sentences(d, b))) = Held(v) \o Places(Sentences(d, b))
  BY <1>3, <1>5, <1>6, FlatAddIs
<1> DEFINE step == [y \in (1..n) \X V |-> FlatAdd(y[2], Sentences(d, y[1]))]
<1>9. step \in Steps(V, n) /\ \A b \in 1..n, v \in V : step[<<b, v>>] = FlatAdd(v, Sentences(d, b))
  BY <1>8 DEF Steps
<1> HIDE DEF step
<1>10. PICK f : IsIterate(f, V, Uncut, n, step)
  BY <1>7, <1>9, Iterates
<1>11. f \in [0..n -> V] /\ f[0] = Uncut /\ \A i \in 1..n : f[i] = step[<<i, f[i - 1]>>]
  BY <1>10 DEF IsIterate
<1>12. \A i \in 1..n : f[i - 1] \in V /\ f[i] = FlatAdd(f[i - 1], Sentences(d, i))
  <2>1. \A i \in 1..n : i - 1 \in 0..n
    OBVIOUS
  <2>2. \A i \in 1..n : f[i - 1] \in V
    BY <1>11, <2>1
  <2> QED BY <1>9, <1>11, <2>2, Zenon
<1> DEFINE Eq(a) == a = [b \in 0..n |-> IF b = 0 THEN Uncut ELSE FlatAdd(a[b - 1], Sentences(d, b))]
<1>13. Eq(f)
  BY <1>11, <1>12
<1> DEFINE acc == CHOOSE a : Eq(a)
<1>14. Eq(acc)
  BY <1>13
<1>15. PICK cut : cut = Closed(acc[n])
  OBVIOUS
<1>16. FlatChunks(d) = [i \in 1..Len(cut) |-> Chunk(cut[i])]
  BY <1>1, <1>15 DEF FlatChunks
<1> HIDE DEF acc
<1>17. acc[0] = Uncut /\ \A i \in 1..n : acc[i - 1] \in V => acc[i] = step[<<i, acc[i - 1]>>]
  BY <1>9, <1>14
<1>18. acc[n] = f[n]
  <2>1. \A j \in 0..n : acc[j] = f[j]
    BY <1>7, <1>9, <1>10, <1>17, SameIterate
  <2> QED BY <2>1
<1>19. PICK y : y = [b \in 1..n |-> Places(Sentences(d, b))]
  OBVIOUS
<1>20. y \in Seq(Seq(Place)) /\ Len(y) = n /\ \A b \in 1..n : y[b] = Places(Sentences(d, b))
  BY <1>5, <1>19
<1>21. \A i \in 1..n : Held(f[i]) = Held(f[i - 1]) \o y[i]
  BY <1>8, <1>12, <1>20, Zenon
<1>22. IsCutting(f, Q, ChunkSize, y)
  BY <1>6, <1>11, <1>20, <1>21 DEF IsCutting
<1>23. cut \in Seq(Part(Q, ChunkSize)) /\ AllPlaces(cut) = FlattenSeq(y)
  BY <1>3, <1>15, <1>18, <1>20, <1>22, CuttingIs
<1>24. PICK cs : cs = [i \in 1..Len(cut) |-> Chunk(cut[i])]
  OBVIOUS
<1>25. Len(cut) \in Nat /\ \A i \in 1..Len(cut) : cut[i] \in Part(Q, ChunkSize)
  BY <1>23, LenProperties, ElementOfSeq
<1>26. \A i \in 1..Len(cut) : cs[i] \in GoodChunk(d) /\ cs[i].text = cut[i]
  <2> SUFFICES ASSUME NEW i \in 1..Len(cut) PROVE cs[i] \in GoodChunk(d) /\ cs[i].text = cut[i]
    OBVIOUS
  <2>1. PICK t, c : t \in Part(Q, ChunkSize) /\ t = cut[i] /\ c = Chunk(t)
    BY <1>25
  <2>2. c \in GoodChunk(d) /\ c.text = t
    BY <1>3, <2>1, FlatIsGood
  <2> QED BY <1>24, <2>1, <2>2
<1>27. cs \in Seq(GoodChunk(d)) /\ Len(cs) = Len(cut)
  BY <1>24, <1>25, <1>26
<1>28. PlacesOf(Texts(cs)) = PlacesOf(cut)
  <2>1. Len(Texts(cs)) = Len(cut) /\ \A i \in 1..Len(cut) : Texts(cs)[i] = cs[i].text
    BY <1>27, TextsAt
  <2>2. \A i \in 1..Len(cut) : Places(Texts(cs)[i]) = Places(cut[i])
    BY <1>26, <2>1
  <2> QED BY <2>1, <2>2 DEF PlacesOf
<1> QED BY <1>1, <1>16, <1>19, <1>23, <1>24, <1>27, <1>28 DEF AllPlaces

(* The chunks hold what they have to hold.                                     *)
LEMMA RawChunksAre ==
  ASSUME NEW d \in Docs
  PROVE  RawChunks(d) \in Seq(GoodChunk(d)) /\ AllPlaces(Texts(RawChunks(d))) = Body(d)
<1>1. DOMAIN d = 1..Len(d) /\ Len(d) # 0 /\ Len(d) \in Nat /\ \A b \in 1..Len(d) : d[b].level \in Nat
  BY BlockAt
<1>2. RawChunks(d) = IF SectionChunks(d) = <<>> \/ \A b \in DOMAIN d : d[b].level = 0
                     THEN FlatChunks(d) ELSE SectionChunks(d)
  BY DEF RawChunks, SectionChunks
<1>3. CASE SectionChunks(d) = <<>> \/ \A b \in DOMAIN d : d[b].level = 0
  <2>1. HasText(d) => \A b \in 1..Len(d) : d[b].level = 0
    BY <1>1, <1>3, SectionChunksNone
  <2>2. \A b \in 1..Len(d) : ~(HasText(d) /\ d[b].level > 0)
    BY <1>1, <2>1
  <2>3. Body(d) = FlattenSeq([b \in 1..Len(d) |-> Places(Sentences(d, b))])
    <3>1. [b \in 1..Len(d) |-> IF HasText(d) /\ d[b].level > 0 THEN <<>> ELSE Places(Sentences(d, b))]
          = [b \in 1..Len(d) |-> Places(Sentences(d, b))]
      BY <2>2
    <3> QED BY <3>1 DEF Body
  <2> QED BY <1>2, <1>3, <2>1, <2>3, FlatChunksAre
<1>4. CASE ~(SectionChunks(d) = <<>> \/ \A b \in DOMAIN d : d[b].level = 0)
  <2>1. HasText(d)
    BY <1>4, SectionChunksNone
  <2>2. Body(d) = FlattenSeq(SaidBy(d))
    BY <2>1 DEF Body, SaidBy
  <2> QED BY <1>2, <1>4, <2>2, SectionChunksAre
<1> QED BY <1>3, <1>4


-----------------------------------------------------------------------------
(* _finalize_chunks: two chunks joined are a good one.                         *)
Joins(e, l, c) == e = [text |-> l.text \o c.text, absorbed |-> l.absorbed + 1]

LEMMA JoinedIsGood ==
  ASSUME NEW d, NEW l \in GoodChunk(d), NEW c \in GoodChunk(d), Weight(c.text) < MinSize,
         NEW e, Joins(e, l, c)
  PROVE  e \in GoodChunk(d) /\ Places(e.text) = Places(l.text) \o Places(c.text)
<1>1. PICK s \in Text, t \in Text, k \in Nat : s = l.text /\ t = c.text /\ k = l.absorbed
  BY GoodAt
<1>2. /\ s # <<>> /\ GoodPaths(d, s) /\ GoodSize(l) /\ t # <<>> /\ GoodPaths(d, t)
  BY <1>1, GoodAt
<1>3. PICK u : u = s \o t
  OBVIOUS
<1>4. e = [text |-> u, absorbed |-> k + 1] /\ e.text = u /\ e.absorbed = k + 1
  BY <1>1, <1>3 DEF Joins
<1>5. PICK m \in Nat, n \in Nat : m = Len(s) /\ n = Len(t) /\ m # 0
  BY <1>2, LenProperties, EmptySeq DEF Text
<1>6. /\ u \in Text /\ Len(u) = m + n /\ DOMAIN u = 1..m + n
      /\ \A j \in 1..m + n : u[j] = IF j <= m THEN s[j] ELSE t[j - m]
  <2>1. /\ u \in Text /\ Len(u) = Len(s) + Len(t)
        /\ \A j \in 1..Len(s) + Len(t) : u[j] = IF j <= Len(s) THEN s[j] ELSE t[j - Len(s)]
    BY <1>3, ConcatProperties DEF Text
  <2>2. DOMAIN u = 1..Len(u)
    BY <2>1, LenProperties DEF Text
  <2> QED BY <1>5, <2>1, <2>2
<1>7. DOMAIN s = 1..m /\ DOMAIN t = 1..n
  BY <1>5, LenProperties DEF Text
<1>8. GoodPaths(d, u)
  <2> SUFFICES ASSUME NEW j \in 1..m + n, (j = 1 /\ HasText(d)) \/ u[j].path # <<>>
               PROVE  PathOf(d, u[j].path, u[j])
    BY <1>6 DEF GoodPaths
  <2>1. CASE j <= m
    <3>1. j \in 1..m /\ u[j] = s[j]
      BY <1>5, <1>6, <2>1
    <3> QED BY <1>2, <1>7, <3>1 DEF GoodPaths
  <2>2. CASE ~(j <= m)
    <3>1. j - m \in 1..n /\ u[j] = t[j - m] /\ j # 1
      BY <1>5, <1>6, <2>2
    <3> QED BY <1>2, <1>7, <3>1 DEF GoodPaths
  <2> QED BY <2>1, <2>2
<1>9. u # <<>>
  BY <1>5, <1>6, EmptySeq
<1>10. u[1] = s[1]
  BY <1>5, <1>6
<1>11. Weight(u) = Weight(s) + Weight(t) /\ Weight(s) \in Nat /\ Weight(t) \in Nat
  BY <1>3, WeightConcat, WeightType DEF Text
<1>12. GoodSize(e)
  <2>1. PICK x \in {ChunkSize, MinSize + Len(s[1].path), s[1].weight} : Weight(s) <= x + k * MinSize
    BY <1>1, <1>2 DEF GoodSize
  <2>2. ChunkSize \in Nat /\ MinSize \in Nat
    BY SizesAre
  <2>3. s[1].weight \in Nat /\ Len(s[1].path) \in Nat
    <3>1. 1 \in 1..Len(s)
      BY <1>5
    <3>2. s[1].weight \in Nat /\ s[1].path \in Seq(Nat)
      BY <3>1, SentenceAt DEF Text
    <3> QED BY <3>2, LenProperties
  <2>4. x \in Nat
    BY <2>1, <2>2, <2>3
  <2>5. Weight(t) < MinSize
    BY <1>1
  <2>6. (k + 1) * MinSize = k * MinSize + MinSize /\ k * MinSize \in Nat
    BY <2>2
  <2>7. Weight(u) <= x + (k + 1) * MinSize
    BY <1>11, <2>1, <2>2, <2>4, <2>5, <2>6
  <2>8. x \in {ChunkSize, MinSize + Len(e.text[1].path), e.text[1].weight}
    BY <1>4, <1>10, <2>1
  <2> QED BY <1>4, <2>7, <2>8 DEF GoodSize
<1>13. e \in [text : Text, absorbed : Nat]
  <2>1. PICK z \in Nat : z = k + 1
    OBVIOUS
  <2>2. e = [text |-> u, absorbed |-> z]
    BY <1>4, <2>1
  <2> QED BY <1>6, <2>2
<1>14. Places(u) = Places(s) \o Places(t)
  BY <1>3, PlacesConcat
<1>15. e.text # <<>> /\ GoodPaths(d, e.text)
  BY <1>4, <1>8, <1>9
<1>16. e \in GoodChunk(d)
  BY <1>12, <1>13, <1>15 DEF GoodChunk
<1> QED BY <1>1, <1>4, <1>14, <1>16

LEMMA JoinAddIs ==
  ASSUME NEW d, NEW acc \in Seq(GoodChunk(d)), NEW c \in GoodChunk(d)
  PROVE  /\ JoinAdd(acc, c) \in Seq(GoodChunk(d))
         /\ AllPlaces(Texts(JoinAdd(acc, c))) = AllPlaces(Texts(acc)) \o Places(c.text)
<1>1. CASE acc # <<>> /\ Weight(c.text) < MinSize
  <2>1. PICK x \in Seq(GoodChunk(d)), l \in GoodChunk(d) : x = Front(acc) /\ l = Last(acc) /\ acc = Append(x, l)
    BY <1>1, FrontLast
  <2>2. PICK e : e = [text |-> l.text \o c.text, absorbed |-> l.absorbed + 1]
    OBVIOUS
  <2>3. e \in GoodChunk(d) /\ Places(e.text) = Places(l.text) \o Places(c.text)
    <3>1. Joins(e, l, c)
      BY <2>2 DEF Joins
    <3> QED BY <1>1, <3>1, JoinedIsGood
  <2>4. JoinAdd(acc, c) = Append(x, e)
    <3>1. JoinAdd(acc, c) = Append(Front(acc), [text |-> Last(acc).text \o c.text, absorbed |-> Last(acc).absorbed + 1])
      BY <1>1, Zenon DEF JoinAdd
    <3> QED BY <2>1, <2>2, <3>1
  <2>5. /\ Append(x, e) \in Seq(GoodChunk(d))
        /\ AllPlaces(Texts(Append(x, e))) = AllPlaces(Texts(x)) \o Places(e.text)
        /\ AllPlaces(Texts(Append(x, l))) = AllPlaces(Texts(x)) \o Places(l.text)
    BY <2>1, <2>3, TextsAppend
  <2>6. PICK u \in Seq(Place), v \in Seq(Place), w \in Seq(Place) :
            u = AllPlaces(Texts(x)) /\ v = Places(l.text) /\ w = Places(c.text)
    <3>1. Texts(x) \in Seq(Text) /\ l.text \in Text /\ c.text \in Text
      BY <2>1, TextsAt, GoodAt
    <3> QED BY <3>1, AllPlacesType, PlacesAt
  <2>7. u \o (v \o w) = (u \o v) \o w
    BY PlacesAssociative
  <2> QED BY <2>1, <2>3, <2>4, <2>5, <2>6, <2>7
<1>2. CASE ~(acc # <<>> /\ Weight(c.text) < MinSize)
  <2>1. JoinAdd(acc, c) = Append(acc, c)
    BY <1>2 DEF JoinAdd
  <2> QED BY <2>1, TextsAppend
<1> QED BY <1>1, <1>2

LEMMA JoinedAre ==
  ASSUME NEW d, NEW raw \in Seq(GoodChunk(d))
  PROVE  Joined(raw) \in Seq(GoodChunk(d)) /\ AllPlaces(Texts(Joined(raw))) = AllPlaces(Texts(raw))
<1>1. PICK n \in Nat : n = Len(raw)
  BY LenProperties
<1>2. \A i \in 1..n : raw[i] \in GoodChunk(d)
  BY <1>1, ElementOfSeq
<1>3. PICK V : V = Seq(GoodChunk(d))
  OBVIOUS
<1>4. <<>> \in V
  BY <1>3, EmptySeq
<1>5. \A i \in 1..n, v \in V : /\ JoinAdd(v, raw[i]) \in V
                               /\ AllPlaces(Texts(JoinAdd(v, raw[i]))) = AllPlaces(Texts(v)) \o Places(raw[i].text)
  BY <1>2, <1>3, JoinAddIs
<1> DEFINE step == [y \in (1..n) \X V |-> JoinAdd(y[2], raw[y[1]])]
<1>6. step \in Steps(V, n) /\ \A i \in 1..n, v \in V : step[<<i, v>>] = JoinAdd(v, raw[i])
  BY <1>5 DEF Steps
<1> HIDE DEF step
<1>7. PICK f : IsIterate(f, V, <<>>, n, step)
  BY <1>4, <1>6, Iterates
<1>8. f \in [0..n -> V] /\ f[0] = <<>> /\ \A i \in 1..n : f[i] = step[<<i, f[i - 1]>>]
  BY <1>7 DEF IsIterate
<1>9. \A i \in 1..n : f[i - 1] \in V /\ f[i] = JoinAdd(f[i - 1], raw[i])
  <2>1. \A i \in 1..n : i - 1 \in 0..n
    OBVIOUS
  <2>2. \A i \in 1..n : f[i - 1] \in V
    BY <1>8, <2>1
  <2> QED BY <1>6, <1>8, <2>2, Zenon
<1> DEFINE Eq(a) == a = [i \in 0..n |-> IF i = 0 THEN <<>> ELSE JoinAdd(a[i - 1], raw[i])]
<1>10. Eq(f)
  BY <1>8, <1>9
<1> DEFINE acc == CHOOSE a : Eq(a)
<1>11. Eq(acc)
  BY <1>10
<1>12. Joined(raw) = acc[n]
  BY <1>1 DEF Joined
<1> HIDE DEF acc
<1>13. acc[0] = <<>> /\ \A i \in 1..n : acc[i - 1] \in V => acc[i] = step[<<i, acc[i - 1]>>]
  BY <1>6, <1>11
<1>14. acc[n] = f[n]
  <2>1. \A j \in 0..n : acc[j] = f[j]
    BY <1>4, <1>6, <1>7, <1>13, SameIterate
  <2> QED BY <2>1
<1>15. PICK y : y = PlacesOf(Texts(raw))
  OBVIOUS
<1>16. y \in Seq(Seq(Place)) /\ Len(y) = n /\ \A i \in 1..n : y[i] = Places(raw[i].text)
  <2>1. Texts(raw) \in Seq(Text) /\ Len(Texts(raw)) = n /\ \A i \in 1..n : Texts(raw)[i] = raw[i].text
    BY <1>1, TextsAt
  <2> QED BY <1>15, <2>1, PlacesOfAt
<1>17. \A i \in 1..n : AllPlaces(Texts(f[i])) = AllPlaces(Texts(f[i - 1])) \o y[i]
  BY <1>5, <1>9, <1>16, Zenon
<1>18. \A i \in 0..n : AllPlaces(Texts(f[i])) \in Seq(Place)
  <2>1. \A i \in 0..n : f[i] \in Seq(GoodChunk(d))
    BY <1>3, <1>8
  <2>2. \A i \in 0..n : Texts(f[i]) \in Seq(Text)
    BY <2>1, TextsAt
  <2> QED BY <2>2, AllPlacesType
<1>19. AllPlaces(Texts(f[0])) = <<>>
  <2>1. Texts(<<>>) = <<>>
    BY DEF Texts
  <2> QED BY <1>8, <2>1, AllEmpty
<1>20. PICK g : g = [i \in 0..n |-> AllPlaces(Texts(f[i]))]
  OBVIOUS
<1>21. IsRun(g, Place, y)
  <2>1. g \in [0..n -> Seq(Place)] /\ g[0] = <<>>
    BY <1>18, <1>19, <1>20
  <2>2. \A i \in 1..n : g[i] = g[i - 1] \o y[i]
    <3>1. \A i \in 1..n : i \in 0..n /\ i - 1 \in 0..n
      OBVIOUS
    <3> QED BY <1>17, <1>20, <3>1
  <2> QED BY <1>16, <2>1, <2>2 DEF IsRun
<1>22. FlattenSeq(y) = g[n]
  BY <1>16, <1>21, FlatIs
<1>23. g[n] = AllPlaces(Texts(f[n])) /\ f[n] \in V
  BY <1>8, <1>20
<1> QED BY <1>3, <1>12, <1>14, <1>15, <1>22, <1>23 DEF AllPlaces


-----------------------------------------------------------------------------
(* _get_tail_by_sentence: the overlap is the end of a chunk.                   *)
LEMMA FromIs ==
  ASSUME NEW t \in Text, NEW k \in 1..Len(t)
  PROVE  From(t, k) \in Text /\ Len(From(t, k)) = Len(t) - k + 1 /\ Weight(From(t, k)) \in Nat
<1>1. Len(t) \in Nat /\ \A i \in 1..Len(t) : t[i] \in Sentence
  BY SentenceAt DEF Text
<1>2. k \in Int /\ Len(t) \in Int /\ k <= Len(t) /\ \A i \in k..Len(t) : t[i] \in Sentence
  BY <1>1
<1>3. SubSeq(t, k, Len(t)) \in Seq(Sentence) /\ Len(SubSeq(t, k, Len(t))) = Len(t) - k + 1
  BY <1>2, SubSeqProperties
<1> QED BY <1>3, WeightType DEF From, Text

LEMMA LastSentencesIs ==
  ASSUME NEW t \in Text, t # <<>>
  PROVE  \E k \in 1..Len(t) : /\ LastSentences(t) = From(t, k)
                              /\ Len(From(t, k)) = 1 \/ Weight(From(t, k)) <= OverlapSize
<1>1. PICK n \in Nat : n = Len(t) /\ n # 0
  BY LenProperties, EmptySeq DEF Text
<1>2. \A k \in 1..n : Weight(From(t, k)) \in Nat /\ Len(From(t, k)) = n - k + 1
  BY <1>1, FromIs
<1>3. OverlapSize \in Nat
  BY SizesAre
<1> DEFINE Reaches(k) == k = n \/ Weight(From(t, k)) <= OverlapSize
<1> DEFINE T == {k \in 1..n : Reaches(k)}
<1>4. T \in SUBSET Nat /\ T # {}
  <2>1. n \in T
    BY <1>1
  <2>2. T \subseteq 1..n /\ 1..n \subseteq Nat
    OBVIOUS
  <2> HIDE DEF T
  <2> QED BY <2>1, <2>2
<1>5. PICK k \in T : \A l \in T : k <= l
  <2> HIDE DEF T
  <2> QED BY <1>4, Least
<1>6. k = 1 \/ Weight(From(t, k - 1)) > OverlapSize
  <2> SUFFICES ASSUME k # 1 PROVE Weight(From(t, k - 1)) > OverlapSize
    OBVIOUS
  <2>1. k - 1 \in 1..n /\ ~(k <= k - 1)
    BY <1>5
  <2>2. k - 1 \notin T
    <3> HIDE DEF T
    <3> QED BY <1>5, <2>1
  <2>3. ~(Weight(From(t, k - 1)) <= OverlapSize)
    BY <2>1, <2>2
  <2> QED BY <1>2, <1>3, <2>1, <2>3
<1> DEFINE Is(j) == Reaches(j) /\ (j = 1 \/ Weight(From(t, j - 1)) > OverlapSize)
<1>7. k \in 1..n /\ Is(k)
  BY <1>5, <1>6
<1> DEFINE m == CHOOSE j \in 1..n : Is(j)
<1>8. m \in 1..n /\ Is(m)
  <2> HIDE DEF Is
  <2>1. \E x : x \in 1..n /\ Is(x)
    BY <1>7
  <2> QED BY <2>1, Zenon
<1>9. LastSentences(t) = From(t, m)
  BY <1>1 DEF LastSentences
<1> HIDE DEF m
<1>10. m \in 1..n => (m = n => Len(From(t, m)) = 1)
  <2>1. \A j \in 1..n : Len(From(t, j)) = n - j + 1
    BY <1>2
  <2>2. \A j \in 1..n : j = n => Len(From(t, j)) = 1
    <3>1. \A j \in 1..n : j = n => n - j + 1 = 1
      OBVIOUS
    <3> QED BY <2>1, <3>1, Zenon
  <2> QED BY <1>8, <2>2, Zenon
<1> QED BY <1>1, <1>8, <1>9, <1>10

-----------------------------------------------------------------------------
(* What a split says of its document.                                          *)
GoodOverlap(ch, i) ==
  ch[i].overlap # <<>> =>
    /\ i > 1 /\ \E k \in DOMAIN ch[i - 1].text : ch[i].overlap = From(ch[i - 1].text, k)
    /\ Len(ch[i].overlap) = 1 \/ Weight(ch[i].overlap) <= OverlapSize
Kept(d, ch) ==
  /\ FlattenSeq([i \in DOMAIN ch |-> Places(ch[i].text)]) = Body(d)
  /\ \A i \in DOMAIN ch : GoodPaths(d, ch[i].text) /\ GoodSize(ch[i]) /\ GoodOverlap(ch, i)

LEMMA OverlapIs ==
  ASSUME NEW d, NEW cs \in Seq(GoodChunk(d)), NEW i \in 1..Len(cs), Overlap(cs, i) # <<>>
  PROVE  /\ i > 1 /\ \E k \in DOMAIN cs[i - 1].text : Overlap(cs, i) = From(cs[i - 1].text, k)
         /\ Len(Overlap(cs, i)) = 1 \/ Weight(Overlap(cs, i)) <= OverlapSize
<1>1. i > 1 /\ Overlap(cs, i) = LastSentences(cs[i - 1].text)
  BY DEF Overlap
<1>2. i - 1 \in 1..Len(cs)
  BY <1>1, LenProperties
<1>3. PICK t \in Text : t = cs[i - 1].text /\ t # <<>>
  BY <1>2, TextsAt, GoodAt
<1>4. PICK k \in 1..Len(t) : /\ LastSentences(t) = From(t, k)
                             /\ Len(From(t, k)) = 1 \/ Weight(From(t, k)) <= OverlapSize
  BY <1>3, LastSentencesIs
<1>5. DOMAIN t = 1..Len(t)
  BY LenProperties DEF Text
<1> QED BY <1>1, <1>3, <1>4, <1>5

LEMMA SplitKeeps ==
  ASSUME NEW d \in Docs PROVE Kept(d, SplitOf(d))
<1>1. PICK raw : raw = RawChunks(d)
  OBVIOUS
<1>2. raw \in Seq(GoodChunk(d)) /\ AllPlaces(Texts(raw)) = Body(d)
  BY <1>1, RawChunksAre
<1>3. PICK cs : cs = Joined(raw)
  OBVIOUS
<1>4. cs \in Seq(GoodChunk(d)) /\ AllPlaces(Texts(cs)) = Body(d)
  BY <1>2, <1>3, JoinedAre
<1>5. PICK ch : ch = SplitOf(d)
  OBVIOUS
<1>6. PICK n \in Nat : n = Len(cs)
  BY <1>4, TextsAt
<1>7. ch = [i \in 1..n |-> [text |-> cs[i].text, absorbed |-> cs[i].absorbed, overlap |-> Overlap(cs, i)]]
  BY <1>1, <1>3, <1>5, <1>6 DEF SplitOf
<1>8. DOMAIN ch = 1..n
      /\ \A i \in 1..n : ch[i].text = cs[i].text /\ ch[i].absorbed = cs[i].absorbed /\ ch[i].overlap = Overlap(cs, i)
  BY <1>7
<1>9. FlattenSeq([i \in DOMAIN ch |-> Places(ch[i].text)]) = Body(d)
  <2>1. Len(Texts(cs)) = n /\ \A i \in 1..n : Texts(cs)[i] = cs[i].text
    BY <1>4, <1>6, TextsAt
  <2>2. PlacesOf(Texts(cs)) = [i \in DOMAIN ch |-> Places(ch[i].text)]
    BY <1>8, <2>1 DEF PlacesOf
  <2> QED BY <1>4, <2>2 DEF AllPlaces
<1>10. ASSUME NEW i \in 1..n PROVE GoodPaths(d, ch[i].text) /\ GoodSize(ch[i]) /\ GoodOverlap(ch, i)
  <2>1. cs[i] \in GoodChunk(d)
    BY <1>4, <1>6, TextsAt
  <2>2. GoodPaths(d, cs[i].text) /\ GoodSize(cs[i])
    BY <2>1, GoodAt
  <2>3. GoodSize(ch[i])
    BY <1>8, <2>2 DEF GoodSize
  <2>4. GoodOverlap(ch, i)
    <3> SUFFICES ASSUME ch[i].overlap # <<>>
                 PROVE  /\ i > 1 /\ \E k \in DOMAIN ch[i - 1].text : ch[i].overlap = From(ch[i - 1].text, k)
                        /\ Len(ch[i].overlap) = 1 \/ Weight(ch[i].overlap) <= OverlapSize
      BY DEF GoodOverlap
    <3>1. /\ i > 1 /\ \E k \in DOMAIN cs[i - 1].text : Overlap(cs, i) = From(cs[i - 1].text, k)
          /\ Len(Overlap(cs, i)) = 1 \/ Weight(Overlap(cs, i)) <= OverlapSize
      BY <1>4, <1>6, <1>8, OverlapIs
    <3>2. i - 1 \in 1..n
      BY <3>1
    <3> QED BY <1>8, <3>1, <3>2
  <2> QED BY <1>8, <2>2, <2>3, <2>4
<1> QED BY <1>5, <1>8, <1>9, <1>10 DEF Kept

(* Every sentence of a document is in its chunks exactly once and in order,    *)
(* under the path of its headings, and no chunk or overlap is larger than the  *)
(* size allows: what SemanticSplitter.split promises, for documents, sizes     *)
(* and weights of any number.                                                  *)
THEOREM ChunksKeepTextCorrect == SPSpec => []ChunksKeepText
<1> DEFINE Inv == doc \in Docs /\ (chunks = <<>> \/ chunks = SplitOf(doc))
<1>1. SPInit => Inv
  <2> SUFFICES ASSUME SPInit PROVE Inv
    OBVIOUS
  <2>1. PICK n \in 1..MaxBlocks : doc \in [1..n -> Blocks]
    BY DEF SPInit
  <2>2. n \in Nat /\ n # 0
    BY <2>1, SplitterAssumption
  <2>3. doc \in Seq(Blocks) /\ Len(doc) = n
    BY <2>1, <2>2
  <2>4. doc # <<>>
    BY <2>2, <2>3, EmptySeq
  <2> QED BY <2>3, <2>4 DEF Docs, SPInit
<1>2. Inv /\ [SPNext]_spVars => Inv'
  BY DEF SPNext, Split, spVars
<1>3. Inv => ChunksKeepText
  <2> SUFFICES ASSUME doc \in Docs, chunks = SplitOf(doc) PROVE ChunksKeepText
    BY DEF ChunksKeepText
  <2>1. Kept(doc, chunks)
    BY SplitKeeps
  <2> QED BY <2>1 DEF ChunksKeepText, Kept, GoodPaths, GoodSize, GoodOverlap
<1> QED BY <1>1, <1>2, <1>3, PTL DEF SPSpec

=============================================================================
