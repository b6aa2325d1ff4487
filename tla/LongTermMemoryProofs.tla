------------------------ MODULE LongTermMemoryProofs ------------------------
(* NamespacesApart, DeadStayDead, OverflowOnly and LinksSound for any      *)
(* number of clients, memories, entities, operations and failing requests. *)
EXTENDS LongTermMemory, FiniteSetTheorems, SequenceTheorems, TLAPS

-----------------------------------------------------------------------------
(* What capacity_evict takes.                                              *)

LEMMA WeightIsInt ==
  ASSUME NEW text \in DOMAIN About
  PROVE  Weight(text) \in Int
<1>1. CASE About[text].kind = "rule"
  <2>1. About[text].confidence \in {"low", "medium", "high"}
    BY <1>1, LongTermAssumption
  <2> QED BY <1>1, <2>1 DEF Weight
<1>2. CASE About[text].kind # "rule"
  BY <1>2 DEF Weight
<1> QED BY <1>1, <1>2

(* The order of tuples of five.                                            *)
Keys == [1 .. 5 -> Int]
Less(u, v) == \E k \in 1 .. 5 : u[k] < v[k] /\ \A j \in 1 .. k - 1 : u[j] = v[j]

LEMMA LessOrder ==
  ASSUME NEW u \in Keys, NEW v \in Keys, NEW w \in Keys
  PROVE  /\ ~Less(u, u)
         /\ Less(u, v) /\ Less(v, w) => Less(u, w)
         /\ u[5] # v[5] => Less(u, v) \/ Less(v, u)
<1>1. ~Less(u, u)
  BY DEF Less, Keys
<1>2. ASSUME Less(u, v), Less(v, w) PROVE Less(u, w)
  <2>1. PICK k \in 1 .. 5 : u[k] < v[k] /\ \A j \in 1 .. k - 1 : u[j] = v[j]
    BY <1>2 DEF Less
  <2>2. PICK l \in 1 .. 5 : v[l] < w[l] /\ \A j \in 1 .. l - 1 : v[j] = w[j]
    BY <1>2 DEF Less
  <2>3. CASE k <= l
    <3>1. u[k] < w[k] /\ \A j \in 1 .. k - 1 : u[j] = w[j]
      BY <2>1, <2>2, <2>3 DEF Keys
    <3> QED BY <3>1 DEF Less
  <2>4. CASE l < k
    <3>1. u[l] < w[l] /\ \A j \in 1 .. l - 1 : u[j] = w[j]
      BY <2>1, <2>2, <2>4 DEF Keys
    <3> QED BY <3>1 DEF Less
  <2> QED BY <2>3, <2>4
<1>3. ASSUME u[5] # v[5] PROVE Less(u, v) \/ Less(v, u)
  <2>1. PICK k \in 1 .. 5 : u[k] # v[k] /\ \A j \in 1 .. k - 1 : u[j] = v[j]
    <3>1. CASE u[1] # v[1]
      BY <3>1
    <3>2. CASE u[1] = v[1] /\ u[2] # v[2]
      BY <3>2
    <3>3. CASE u[1] = v[1] /\ u[2] = v[2] /\ u[3] # v[3]
      BY <3>3
    <3>4. CASE u[1] = v[1] /\ u[2] = v[2] /\ u[3] = v[3] /\ u[4] # v[4]
      BY <3>4
    <3>5. CASE u[1] = v[1] /\ u[2] = v[2] /\ u[3] = v[3] /\ u[4] = v[4]
      BY <3>5, <1>3
    <3> QED BY <3>1, <3>2, <3>3, <3>4, <3>5
  <2>2. u[k] \in Int /\ v[k] \in Int
    BY DEF Keys
  <2>3. u[k] < v[k] \/ v[k] < u[k]
    BY <2>1, <2>2
  <2> QED BY <2>1, <2>3 DEF Less
<1> QED BY <1>1, <1>2, <1>3

Key(got, id) == <<Weight(got[id].text), got[id].last, got[id].count, got[id].made, id>>

LEMMA BeforeOrder ==
  ASSUME NEW got, DOMAIN got \subseteq Int, \A id \in DOMAIN got : got[id] \in Memories,
         NEW a \in DOMAIN got, NEW b \in DOMAIN got, NEW d \in DOMAIN got
  PROVE  /\ ~Before(got, a, a)
         /\ Before(got, a, b) /\ Before(got, b, d) => Before(got, a, d)
         /\ a # b => Before(got, a, b) \/ Before(got, b, a)
<1>1. \A i \in DOMAIN got : Key(got, i) \in Keys /\ Key(got, i)[5] = i
  <2> TAKE i \in DOMAIN got
  <2>1. Weight(got[i].text) \in Int
    BY WeightIsInt DEF Memories
  <2> QED BY <2>1 DEF Key, Keys, Memories
<1>2. \A i, j \in DOMAIN got : Before(got, i, j) <=> Less(Key(got, i), Key(got, j))
  BY DEF Before, Less, Key
<1> QED BY <1>1, <1>2, LessOrder

Prior(got, id) == {b \in DOMAIN got : Before(got, b, id)}

LEMMA PriorGrows ==
  ASSUME NEW got, IsFiniteSet(DOMAIN got), DOMAIN got \subseteq Int,
         \A id \in DOMAIN got : got[id] \in Memories,
         NEW x \in DOMAIN got, NEW y \in DOMAIN got, Before(got, x, y)
  PROVE  Cardinality(Prior(got, x)) < Cardinality(Prior(got, y))
<1>1. IsFiniteSet(Prior(got, x)) /\ IsFiniteSet(Prior(got, y))
  BY FS_Subset DEF Prior
<1>2. Cardinality(Prior(got, x)) \in Nat /\ Cardinality(Prior(got, y)) \in Nat
  BY <1>1, FS_CardinalityType
<1>3. x \notin Prior(got, x) /\ Prior(got, x) \cup {x} \subseteq Prior(got, y)
  BY BeforeOrder DEF Prior
<1>4. Cardinality(Prior(got, x) \cup {x}) = Cardinality(Prior(got, x)) + 1
  BY <1>1, <1>3, FS_AddElement
<1>5. Cardinality(Prior(got, x) \cup {x}) <= Cardinality(Prior(got, y))
  BY <1>1, <1>3, FS_Subset
<1> QED BY <1>2, <1>4, <1>5

(* Where every two are ordered, at most k have fewer than k before them.   *)
LEMMA FewVictims ==
  ASSUME NEW got, IsFiniteSet(DOMAIN got), DOMAIN got \subseteq Int,
         \A id \in DOMAIN got : got[id] \in Memories, NEW k \in Int,
         NEW out, out # {}, out \subseteq DOMAIN got,
         \A id \in out : Cardinality(Prior(got, id)) < k
  PROVE  k \in Nat /\ IsFiniteSet(out) /\ Cardinality(out) <= k
<1>1. \A id \in DOMAIN got : Cardinality(Prior(got, id)) \in Nat
  <2> TAKE id \in DOMAIN got
  <2>1. IsFiniteSet(Prior(got, id))
    BY FS_Subset DEF Prior
  <2> QED BY <2>1, FS_CardinalityType
<1>2. k \in Nat
  BY <1>1
<1> DEFINE f == [id \in out |-> Cardinality(Prior(got, id))]
<1>3. f \in [out -> 0 .. k - 1]
  BY <1>1, <1>2
<1>4. ASSUME NEW x \in out, NEW y \in out, x # y PROVE f[x] # f[y]
  <2>1. x \in DOMAIN got /\ y \in DOMAIN got
    OBVIOUS
  <2>2. Before(got, x, y) \/ Before(got, y, x)
    BY <1>4, <2>1, BeforeOrder
  <2>3. Cardinality(Prior(got, x)) # Cardinality(Prior(got, y))
    BY <1>1, <2>1, <2>2, PriorGrows
  <2> QED BY <2>3
<1> HIDE DEF f
<1>5. f \in Injection(out, 0 .. k - 1)
  BY <1>3, <1>4 DEF Injection, IsInjective
<1>6. IsFiniteSet(0 .. k - 1) /\ Cardinality(0 .. k - 1) = k
  <2>1. PICK m \in Int : m = k - 1
    BY <1>2
  <2>2. IsFiniteSet(0 .. m) /\ Cardinality(0 .. m) = IF 0 > m THEN 0 ELSE m - 0 + 1
    BY <2>1, FS_Interval
  <2> QED BY <1>2, <2>1, <2>2
<1> QED BY <1>2, <1>5, <1>6, FS_Injection

-----------------------------------------------------------------------------
(* The invariant.                                                          *)

(* A UUID is given once, so an id says whose a point is.                   *)
Stored ==
  /\ clock \in Int
  /\ points = [id \in DOMAIN points |-> points[id]] /\ IsFiniteSet(DOMAIN points)
  /\ DOMAIN points \subseteq used /\ dead \subseteq used
  /\ \A id \in DOMAIN points : IF id \in Ids THEN points[id] \in Memories ELSE points[id].ns # Ours

Graph ==
  /\ \A e \in nodes : e.id \in Entities \cap used /\ \A f \in nodes : e.id = f.id => e = f
  /\ \A l \in wanted : l = <<l[1], l[2]>>

(* What a client may be in the middle of.  The stores are parameters (po   *)
(* for points, no for nodes, u, w and de for used, wanted and dead), since *)
(* the question is what one client's step does to another's.               *)
WriteShape(s, w) ==
  /\ DOMAIN s = {"op", "pc", "after", "strict", "rels", "items", "names", "links", "entity"}
  /\ s.after = "upsert"
  /\ s.rels \in Seq([from : Names, to : Names]) /\ s.items \in Seq(Items)
  /\ s.links \subseteq w

(* An entity once resolved has the name asked for as long as it is there.  *)
ResolvedTo(l, u, no, w) ==
  /\ l = <<l[1], l[2]>> /\ l[1] \in u
  /\ \A e \in no : e.id = l[1] => <<e.name, l[2]>> \in w

Writes(s, u, no, w) ==
  /\ s.op = "write" /\ WriteShape(s, w)
  /\ s.pc \in {"relate", "ensure", "create", "upsert", "resolve", "link"}
  /\ s.pc = "relate" => s.rels # <<>>
  /\ s.pc \in {"ensure", "create", "upsert"} => s.items # <<>>
  /\ s.pc = "link" => ResolvedTo(s.entity, u, no, w)

(* A point in hand that will be written back.                              *)
Copy(id, p, po) == p \in Memories /\ (id \in DOMAIN po => p.type = po[id].type)
Copies(read, u, de, po) ==
  /\ read = [id \in DOMAIN read |-> read[id]] /\ IsFiniteSet(DOMAIN read)
  /\ DOMAIN read \subseteq (Ids \cap u) \ de
  /\ \A id \in DOMAIN read : Copy(id, read[id], po)

Searches(s, u, de, po) ==
  /\ s.op = "search"
  /\ DOMAIN s = {"op", "pc", "after", "types", "read"} /\ s.after = "query"
  /\ s.pc \in {"ensure", "create", "query", "bump", "graph"}
  /\ s.types \in Seq(Range(Types)) /\ (s.pc # "graph" => s.types # <<>>)
  /\ s.pc = "bump" => Copies(s.read, u, de, po)

Forgets(s, u) ==
  /\ s.op = "forget"
  /\ DOMAIN s = {"op", "pc", "id"}
  /\ s.pc \in {"retrieve", "delete"} /\ s.id \in u
  /\ s.pc = "delete" => s.id \in Ids

JobRecs == [kind : {"clear", "ttl", "capacity", "graph"}, type : Range(Types)]
Matching(po, type) == {id \in DOMAIN po : po[id].ns = Ours /\ po[id].type = type}

TidyShape(s) ==
  DOMAIN s = {"op", "pc", "jobs", "now", "from", "got", "out", "alone"}

(* What a scan has seen, and what a capacity eviction leaves, as long as   *)
(* no other deletion came in between.                                      *)
Seen(s, u, po) ==
  /\ s.got = [id \in DOMAIN s.got |-> s.got[id]] /\ IsFiniteSet(DOMAIN s.got)
  /\ DOMAIN s.got \subseteq Ids \cap u
  /\ \A id \in DOMAIN s.got : s.got[id] \in Memories
  /\ s.alone => DOMAIN s.got \subseteq Matching(po, Head(s.jobs).type)
Leaves(s, u, po) ==
  /\ s.out \subseteq Ids \cap u
  /\ s.alone /\ Head(s.jobs).kind = "capacity" =>
       Cardinality(Matching(po, Head(s.jobs).type) \ s.out) >= MaxItems

Tidies(s, u, po) ==
  /\ s.op = "tidy" /\ TidyShape(s)
  /\ s.pc \in {"scan", "remove", "clear"}
  /\ s.jobs \in Seq(JobRecs) /\ s.jobs # <<>> /\ s.alone \in BOOLEAN
  /\ s.pc = "scan" => Seen(s, u, po)
  /\ s.pc = "remove" => Leaves(s, u, po)

Sound(s, u, de, po, no, w) ==
  \/ s = Idle
  \/ Writes(s, u, no, w) \/ Searches(s, u, de, po) \/ Forgets(s, u) \/ Tidies(s, u, po)

(* Two copies of a point agree on its kind.                                *)
Agree ==
  \A c, d \in Clients : At(c, "bump") /\ At(d, "bump") =>
    \A id \in DOMAIN cl[c].read \cap DOMAIN cl[d].read : cl[c].read[id].type = cl[d].read[id].type

Working ==
  /\ cl = [c \in Clients |-> cl[c]]
  /\ \A c \in Clients : Sound(cl[c], used, dead, points, nodes, wanted)

MemoryInv ==
  Stored /\ Graph /\ Working /\ Agree /\ NamespacesApart /\ DeadStayDead /\ LinksSound

LEMMA TypesAre == Range(Types) = {"episodic", "semantic"}
BY DEF Types, Range

LEMMA OursIn == \A type : Match(type) = Matching(points, type)
BY DEF Match, Matching

LEMMA MemoryInit == Init => MemoryInv
<1> SUFFICES ASSUME Init PROVE MemoryInv
  OBVIOUS
<1>1. PICK s \in Existing : coll = s.coll /\ points = s.points
  BY DEF Init
<1>2. used = DOMAIN points /\ dead = {} /\ nodes = {} /\ links = {} /\ wanted = {}
  BY DEF Init
<1>3. Working /\ Agree
  <2>1. cl = [c \in Clients |-> Idle]
    BY DEF Init
  <2> QED BY <2>1 DEF Working, Sound, Agree, At, Idle
<1>4. Stored
  <2>1. clock \in Int
    BY LongTermAssumption DEF Init
  <2>2. points = [id \in DOMAIN points |-> points[id]]
    BY <1>1, LongTermAssumption
  <2>3. IsFiniteSet(DOMAIN points)
    BY <1>1, LongTermAssumption
  <2>4. \A id \in DOMAIN points : IF id \in Ids THEN points[id] \in Memories ELSE points[id].ns # Ours
    BY <1>1, LongTermAssumption
  <2> QED BY <1>2, <2>1, <2>2, <2>3, <2>4 DEF Stored
<1>5. Graph /\ DeadStayDead /\ LinksSound
  BY <1>2 DEF Graph, DeadStayDead, LinksSound
<1>6. NamespacesApart
  BY <1>1, <1>2, LongTermAssumption DEF NamespacesApart
<1> QED BY <1>3, <1>4, <1>5, <1>6 DEF MemoryInv

-----------------------------------------------------------------------------
(* What a client's step does to the others.                                *)

LEMMA WritesStay ==
  ASSUME NEW s, NEW u, NEW no, NEW w, NEW u2, NEW no2, NEW w2, Writes(s, u, no, w),
         u \subseteq u2, w \subseteq w2, \A e \in no2 : e \in no \/ e.id \notin u
  PROVE  Writes(s, u2, no2, w2)
<1>1. WriteShape(s, w2)
  BY DEF Writes, WriteShape
<1>2. s.pc = "link" => ResolvedTo(s.entity, u2, no2, w2)
  BY DEF Writes, ResolvedTo
<1> QED BY <1>1, <1>2 DEF Writes

LEMMA SearchesStay ==
  ASSUME NEW s, NEW u, NEW de, NEW po, NEW u2, NEW de2, NEW po2, Searches(s, u, de, po),
         u \subseteq u2,
         s.pc = "bump" => /\ DOMAIN s.read \cap de2 = {}
                          /\ \A id \in DOMAIN s.read \cap DOMAIN po2 : s.read[id].type = po2[id].type
  PROVE  Searches(s, u2, de2, po2)
<1>1. s.pc = "bump" => Copies(s.read, u2, de2, po2)
  BY DEF Searches, Copies, Copy
<1> QED BY <1>1 DEF Searches

LEMMA TidiesStay ==
  ASSUME NEW s, NEW u, NEW po, NEW u2, NEW po2, Tidies(s, u, po), u \subseteq u2,
         IsFiniteSet(DOMAIN po2), \A type : Matching(po, type) \subseteq Matching(po2, type)
  PROVE  Tidies(s, u2, po2)
<1>1. s.pc = "scan" => Seen(s, u2, po2)
  BY DEF Tidies, Seen
<1>2. ASSUME s.pc = "remove" PROVE Leaves(s, u2, po2)
  <2> DEFINE A == Matching(po, Head(s.jobs).type) \ s.out
             B == Matching(po2, Head(s.jobs).type) \ s.out
  <2>1. Leaves(s, u, po)
    BY <1>2 DEF Tidies
  <2>2. IsFiniteSet(B) /\ A \subseteq B
    <3>1. B \subseteq DOMAIN po2
      BY DEF Matching
    <3> QED BY <3>1, FS_Subset
  <2>3. IsFiniteSet(A) /\ Cardinality(A) <= Cardinality(B)
    BY <2>2, FS_Subset
  <2>4. Cardinality(A) \in Nat /\ Cardinality(B) \in Nat /\ MaxItems \in Nat
    BY <2>2, <2>3, FS_CardinalityType, LongTermAssumption
  <2> HIDE DEF A, B
  <2>5. Cardinality(A) >= MaxItems => Cardinality(B) >= MaxItems
    BY <2>3, <2>4
  <2> QED BY <2>1, <2>5 DEF A, B, Leaves
<1> QED BY <1>1, <1>2 DEF Tidies

LEMMA ForgetsStay ==
  ASSUME NEW s, NEW u, NEW u2, Forgets(s, u), u \subseteq u2
  PROVE  Forgets(s, u2)
BY DEF Forgets

(* A scan that has been overtaken promises nothing.                        *)
LEMMA TidiesOvertaken ==
  ASSUME NEW s, NEW u, NEW po, NEW po2, Tidies(s, u, po)
  PROVE  Tidies([s EXCEPT !.alone = FALSE], u, po2)
<1> DEFINE t == [s EXCEPT !.alone = FALSE]
<1>1. /\ t.op = s.op /\ t.pc = s.pc /\ t.jobs = s.jobs /\ t.now = s.now /\ t.from = s.from
      /\ t.got = s.got /\ t.out = s.out /\ t.alone = FALSE
  BY DEF Tidies, TidyShape
<1>4. TidyShape(t)
  BY DEF Tidies, TidyShape
<1> HIDE DEF t
<1>5. s.pc = "scan" => Seen(t, u, po2)
  BY <1>1 DEF Tidies, Seen
<1>6. s.pc = "remove" => Leaves(t, u, po2)
  BY <1>1 DEF Tidies, Leaves
<1>7. Tidies(t, u, po2)
  BY <1>1, <1>4, <1>5, <1>6 DEF Tidies
<1> QED BY <1>7 DEF t

(* At a step that begins in pc, the operation is known.                    *)
LEMMA Operation ==
  ASSUME MemoryInv, NEW c \in Clients
  PROVE  /\ cl[c].pc \in {"relate", "upsert", "resolve", "link"} =>
              cl[c].op = "write" /\ Writes(cl[c], used, nodes, wanted)
         /\ cl[c].pc \in {"query", "bump", "graph"} =>
              cl[c].op = "search" /\ Searches(cl[c], used, dead, points)
         /\ cl[c].pc \in {"ensure", "create"} =>
              Writes(cl[c], used, nodes, wanted) \/ Searches(cl[c], used, dead, points)
         /\ cl[c].pc \in {"retrieve", "delete"} => Forgets(cl[c], used)
         /\ cl[c].pc \in {"scan", "remove", "clear"} => Tidies(cl[c], used, points)
         /\ cl[c].op = "tidy" => Tidies(cl[c], used, points)
         /\ cl[c].op = "write" => Writes(cl[c], used, nodes, wanted)
         /\ cl[c].op = "search" => Searches(cl[c], used, dead, points)
<1>1. Sound(cl[c], used, dead, points, nodes, wanted)
  BY DEF MemoryInv, Working
<1>2. CASE cl[c] = Idle
  BY <1>2 DEF Idle
<1>3. CASE Writes(cl[c], used, nodes, wanted)
  BY <1>3 DEF Writes
<1>4. CASE Searches(cl[c], used, dead, points)
  BY <1>4 DEF Searches
<1>5. CASE Forgets(cl[c], used)
  BY <1>5 DEF Forgets
<1>6. CASE Tidies(cl[c], used, points)
  BY <1>6 DEF Tidies
<1> QED BY <1>1, <1>2, <1>3, <1>4, <1>5, <1>6 DEF Sound

(* A step of c that touches no store.  Only a query takes points in hand,  *)
(* and it takes them as they are.                                          *)
LEMMA Onward ==
  ASSUME MemoryInv, NEW c \in Clients, NEW STATE s,
         Sound(s, used, dead, points, nodes, wanted),
         s.pc = "bump" => DOMAIN s.read \subseteq DOMAIN points /\ Copies(s.read, used, dead, points),
         Go(c, s), UNCHANGED <<clock, points, nodes, links, used, wanted, dead>>
  PROVE  MemoryInv'
<1>1. cl' = [cl EXCEPT ![c] = s] /\ cl = [d \in Clients |-> cl[d]]
  BY DEF Go, MemoryInv, Working
<1>2. cl'[c] = s /\ \A d \in Clients : d # c => cl'[d] = cl[d]
  BY <1>1
<1>3. Stored' /\ Graph' /\ NamespacesApart' /\ DeadStayDead' /\ LinksSound'
  BY DEF MemoryInv, Stored, Graph, NamespacesApart, DeadStayDead, LinksSound
<1>4. Working'
  <2>1. cl' = [d \in Clients |-> cl'[d]]
    BY <1>1
  <2>2. ASSUME NEW d \in Clients PROVE Sound(cl'[d], used, dead, points, nodes, wanted)
    BY <1>2 DEF MemoryInv, Working
  <2> QED BY <2>1, <2>2 DEF Working
<1>5. Agree'
  <2> SUFFICES ASSUME NEW d \in Clients, NEW e \in Clients, cl'[d].pc = "bump", cl'[e].pc = "bump",
                      NEW id \in DOMAIN cl'[d].read \cap DOMAIN cl'[e].read
               PROVE  cl'[d].read[id].type = cl'[e].read[id].type
    BY DEF Agree, At
  <2>1. CASE d # c /\ e # c
    BY <1>2, <2>1 DEF MemoryInv, Agree, At
  <2>2. ASSUME NEW f \in Clients, f # c, cl[f].pc = "bump", s.pc = "bump", NEW i \in DOMAIN s.read \cap DOMAIN cl[f].read
        PROVE  s.read[i].type = cl[f].read[i].type
    <3>1. Copies(cl[f].read, used, dead, points)
      BY <2>2, Operation DEF Searches
    <3> QED BY <2>2, <3>1 DEF Copies, Copy
  <2> QED BY <1>2, <2>1, <2>2
<1> QED BY <1>3, <1>4, <1>5 DEF MemoryInv

(* A step of c that touches the stores.                                    *)
LEMMA Beside ==
  ASSUME MemoryInv, NEW c \in Clients, NEW STATE s, s.pc # "bump", Go(c, s),
         Sound(s, used', dead', points', nodes', wanted'),
         Stored', Graph', NamespacesApart', DeadStayDead', LinksSound',
         \A d \in Clients \ {c} : Sound(cl[d], used', dead', points', nodes', wanted')
  PROVE  MemoryInv'
<1>1. cl' = [cl EXCEPT ![c] = s] /\ cl = [d \in Clients |-> cl[d]]
  BY DEF Go, MemoryInv, Working
<1>2. cl'[c] = s /\ \A d \in Clients : d # c => cl'[d] = cl[d]
  BY <1>1
<1>3. Working'
  <2>1. cl' = [d \in Clients |-> cl'[d]]
    BY <1>1
  <2>2. \A d \in Clients : Sound(cl'[d], used', dead', points', nodes', wanted')
    BY <1>2
  <2> QED BY <2>1, <2>2 DEF Working
<1>4. Agree'
  BY <1>2 DEF MemoryInv, Agree, At
<1> QED BY <1>3, <1>4 DEF MemoryInv

LEMMA OnGraph ==
  ASSUME MemoryInv, NEW c \in Clients, NEW STATE s, s.pc # "bump", Go(c, s),
         UNCHANGED <<clock, points, dead, wanted>>,
         used \subseteq used', used' \ used \subseteq Entities,
         \A e \in nodes' : e \in nodes \/ e.id \notin used,
         Graph', LinksSound', Sound(s, used', dead, points, nodes', wanted)
  PROVE  MemoryInv'
<1>1. Stored' /\ DeadStayDead'
  BY DEF MemoryInv, Stored, DeadStayDead
<1>2. NamespacesApart'
  <2> SUFFICES ASSUME NEW t \in Existing, NEW id \in DOMAIN t.points, id \in used', id \notin Ids
               PROVE  id \in DOMAIN points /\ points[id] = t.points[id]
    BY DEF NamespacesApart
  <2>1. id \in used
    BY LongTermAssumption
  <2> QED BY <2>1 DEF MemoryInv, NamespacesApart
<1>3. ASSUME NEW d \in Clients \ {c} PROVE Sound(cl[d], used', dead, points, nodes', wanted)
  <2>1. Sound(cl[d], used, dead, points, nodes, wanted)
    BY DEF MemoryInv, Working
  <2>2. CASE Writes(cl[d], used, nodes, wanted)
    BY <2>2, WritesStay DEF Sound
  <2>3. CASE Searches(cl[d], used, dead, points)
    <3>1. cl[d].pc = "bump" =>
            /\ DOMAIN cl[d].read \cap dead = {}
            /\ \A id \in DOMAIN cl[d].read \cap DOMAIN points : cl[d].read[id].type = points[id].type
      BY <2>3 DEF Searches, Copies, Copy
    <3> QED BY <2>3, <3>1, SearchesStay DEF Sound
  <2>4. CASE Forgets(cl[d], used)
    BY <2>4, ForgetsStay DEF Sound
  <2>5. CASE Tidies(cl[d], used, points)
    <3>1. IsFiniteSet(DOMAIN points)
      BY DEF MemoryInv, Stored
    <3> QED BY <2>5, <3>1, TidiesStay DEF Sound
  <2> QED BY <2>1, <2>2, <2>3, <2>4, <2>5 DEF Sound
<1> QED BY <1>1, <1>2, <1>3, Beside

LEMMA OnPoints ==
  ASSUME MemoryInv, NEW c \in Clients, NEW STATE s, s.pc # "bump", Go(c, s),
         UNCHANGED <<nodes, links, dead>>, used \subseteq used', wanted \subseteq wanted',
         \A type : Matching(points, type) \subseteq Matching(points', type),
         \A d \in Clients \ {c} : cl[d].pc = "bump" =>
           \A id \in DOMAIN cl[d].read \cap DOMAIN points' : cl[d].read[id].type = points'[id].type,
         Stored', Graph', NamespacesApart', DeadStayDead',
         Sound(s, used', dead, points', nodes, wanted')
  PROVE  MemoryInv'
<1>1. LinksSound'
  BY DEF MemoryInv, LinksSound
<1>2. ASSUME NEW d \in Clients \ {c} PROVE Sound(cl[d], used', dead, points', nodes, wanted')
  <2>1. Sound(cl[d], used, dead, points, nodes, wanted)
    BY DEF MemoryInv, Working
  <2>2. CASE Writes(cl[d], used, nodes, wanted)
    BY <2>2, WritesStay DEF Sound
  <2>3. CASE Searches(cl[d], used, dead, points)
    <3>1. cl[d].pc = "bump" => DOMAIN cl[d].read \cap dead = {}
      BY <2>3 DEF Searches, Copies
    <3> QED BY <2>3, <3>1, SearchesStay DEF Sound
  <2>4. CASE Forgets(cl[d], used)
    BY <2>4, ForgetsStay DEF Sound
  <2>5. CASE Tidies(cl[d], used, points)
    <3>1. IsFiniteSet(DOMAIN points')
      BY DEF Stored
    <3> QED BY <2>5, <3>1, TidiesStay DEF Sound
  <2> QED BY <2>1, <2>2, <2>3, <2>4, <2>5 DEF Sound
<1> QED BY <1>1, <1>2, Beside

(* A deletion of points of ours.                                           *)
LEMMA Deleting ==
  ASSUME MemoryInv, NEW c \in Clients, NEW STATE ids, ids \subseteq Ids \cap used,
         NEW STATE s, s.pc # "bump", Delete(c, ids, s),
         UNCHANGED <<clock, nodes, links, used, wanted>>,
         Sound(s, used, dead', points', nodes, wanted)
  PROVE  MemoryInv'
<1>1. /\ DOMAIN points' = DOMAIN points \ ids
      /\ \A id \in DOMAIN points \ ids : points'[id] = points[id]
      /\ points' = [id \in DOMAIN points' |-> points'[id]]
  BY DEF Delete, Without, Restrict
<1>2. dead' = dead \cup {id \in ids : ~Held(id)}
  BY DEF Delete
<1>3. /\ cl' = [d \in Clients |-> cl'[d]] /\ cl'[c] = s
      /\ \A d \in Clients \ {c} :
           cl'[d] = IF cl[d].op = "tidy" THEN [cl[d] EXCEPT !.alone = FALSE] ELSE cl[d]
  BY DEF Delete
<1>4. Stored'
  <2>1. IsFiniteSet(DOMAIN points')
    BY <1>1, FS_Subset DEF MemoryInv, Stored
  <2>2. \A id \in DOMAIN points' :
          IF id \in Ids THEN points'[id] \in Memories ELSE points'[id].ns # Ours
    BY <1>1 DEF MemoryInv, Stored
  <2> QED BY <1>1, <1>2, <2>1, <2>2 DEF MemoryInv, Stored
<1>5. Graph' /\ LinksSound'
  BY DEF MemoryInv, Graph, LinksSound
<1>6. NamespacesApart' /\ DeadStayDead'
  BY <1>1, <1>2 DEF MemoryInv, NamespacesApart, DeadStayDead
<1>7. ASSUME NEW d \in Clients \ {c}
      PROVE  /\ Sound(cl'[d], used, dead', points', nodes, wanted)
             /\ cl'[d].pc = "bump" => cl'[d] = cl[d]
  <2>1. Sound(cl[d], used, dead, points, nodes, wanted)
    BY DEF MemoryInv, Working
  <2>2. CASE cl[d] = Idle
    BY <1>3, <2>2 DEF Sound, Idle
  <2>3. CASE Writes(cl[d], used, nodes, wanted)
    BY <1>3, <2>3 DEF Sound, Writes
  <2>4. CASE Searches(cl[d], used, dead, points)
    <3>1. cl'[d] = cl[d]
      BY <1>3, <2>4 DEF Searches
    <3>2. cl[d].pc = "bump" =>
            /\ DOMAIN cl[d].read \cap dead' = {}
            /\ \A id \in DOMAIN cl[d].read \cap DOMAIN points' : cl[d].read[id].type = points'[id].type
      BY <1>1, <1>2, <2>4 DEF Searches, Copies, Copy, Held, At
    <3>3. Searches(cl[d], used, dead', points')
      BY <2>4, <3>2, SearchesStay
    <3> QED BY <3>1, <3>3 DEF Sound
  <2>5. CASE Forgets(cl[d], used)
    BY <1>3, <2>5 DEF Sound, Forgets
  <2>6. CASE Tidies(cl[d], used, points)
    <3>1. cl'[d] = [cl[d] EXCEPT !.alone = FALSE]
      BY <1>3, <2>6 DEF Tidies
    <3>2. Tidies(cl'[d], used, points')
      BY <2>6, <3>1, TidiesOvertaken
    <3> QED BY <3>2 DEF Sound, Tidies
  <2> QED BY <2>1, <2>2, <2>3, <2>4, <2>5, <2>6 DEF Sound
<1>8. Working'
  <2>1. \A d \in Clients : Sound(cl'[d], used, dead', points', nodes, wanted)
    BY <1>3, <1>7
  <2> QED BY <1>3, <2>1 DEF Working
<1>9. Agree'
  BY <1>3, <1>7 DEF MemoryInv, Agree, At
<1> QED BY <1>4, <1>5, <1>6, <1>8, <1>9 DEF MemoryInv

-----------------------------------------------------------------------------
(* What the helpers make of a client.                                      *)

LEMMA SettleSound ==
  ASSUME NEW s, NEW u, NEW de, NEW po, NEW no, NEW w, s.op = "write", WriteShape(s, w)
  PROVE  Sound(Settle(s), u, de, po, no, w) /\ Settle(s).pc # "bump"
<1>1. CASE s.rels # <<>>
  <2> DEFINE t == [s EXCEPT !.pc = "relate"]
  <2>1. WriteShape(t, w) /\ t.op = "write" /\ t.pc = "relate" /\ t.rels # <<>>
    BY <1>1 DEF WriteShape
  <2>2. Settle(s) = t
    BY <1>1 DEF Settle
  <2> HIDE DEF t
  <2> QED BY <2>1, <2>2 DEF Sound, Writes
<1>2. CASE s.rels = <<>> /\ s.items # <<>>
  <2> DEFINE t == [s EXCEPT !.pc = "ensure"]
  <2>1. WriteShape(t, w) /\ t.op = "write" /\ t.pc = "ensure" /\ t.items # <<>>
    BY <1>2 DEF WriteShape
  <2>2. Settle(s) = t
    BY <1>2 DEF Settle
  <2> HIDE DEF t
  <2> QED BY <2>1, <2>2 DEF Sound, Writes
<1>3. CASE s.rels = <<>> /\ s.items = <<>> /\ s.links # {}
  <2> DEFINE t == [s EXCEPT !.pc = "resolve"]
  <2>1. WriteShape(t, w) /\ t.op = "write" /\ t.pc = "resolve"
    BY <1>3 DEF WriteShape
  <2>2. Settle(s) = t
    BY <1>3 DEF Settle
  <2> HIDE DEF t
  <2> QED BY <2>1, <2>2 DEF Sound, Writes
<1>4. CASE s.rels = <<>> /\ s.items = <<>> /\ s.links = {}
  BY <1>4 DEF Settle, Sound, Idle
<1> QED BY <1>1, <1>2, <1>3, <1>4

LEMMA NotEmpty ==
  ASSUME NEW q, Len(q) >= 1
  PROVE  q # <<>>
<1> SUFFICES ASSUME q = <<>> PROVE FALSE
  OBVIOUS
<1>1. Len(q) = Len(<<>>)
  OBVIOUS
<1>2. Len(<<>>) = 0
  BY EmptySeq
<1> QED BY <1>1, <1>2

LEMMA TailKinds ==
  ASSUME NEW S, NEW T, NEW q \in Seq(S), Len(q) >= 2, \A i \in 2 .. Len(q) : q[i] \in T
  PROVE  Tail(q) \in Seq(T) /\ Len(Tail(q)) >= 1
<1> DEFINE t == Tail(q)
<1>1. q # <<>>
  BY NotEmpty
<1>2. t \in Seq(S) /\ Len(t) = Len(q) - 1 /\ \A i \in 1 .. Len(t) : t[i] = q[i + 1]
  BY <1>1, HeadTailProperties
<1> HIDE DEF t
<1>3. Len(t) \in Nat /\ Len(q) \in Nat
  BY <1>2
<1>4. \A i \in 1 .. Len(t) : t[i] \in T
  BY <1>2, <1>3
<1>5. t \in [1 .. Len(t) -> T]
  BY <1>2, <1>4, LenProperties
<1>6. t \in Seq(T)
  BY <1>3, <1>5, SeqDef
<1> QED BY <1>2, <1>3, <1>6 DEF t

LEMMA NextJobSound ==
  ASSUME NEW s, NEW u, NEW de, NEW po, NEW no, NEW w, s.op = "tidy", TidyShape(s),
         s.jobs \in Seq(JobRecs \cup {None}), s.jobs # <<>>,
         \A i \in 2 .. Len(s.jobs) : s.jobs[i] \in JobRecs
  PROVE  Sound(NextJob(s), u, de, po, no, w) /\ NextJob(s).pc # "bump"
<1>1. CASE Len(s.jobs) < 2
  BY <1>1 DEF NextJob, Sound, Idle
<1>2. CASE Len(s.jobs) >= 2
  <2> DEFINE t == NextJob(s)
  <2>1. Len(s.jobs) \in Nat
    OBVIOUS
  <2>2. t = [s EXCEPT !.pc = IF s.jobs[2].kind = "graph" THEN "clear" ELSE "scan",
                      !.jobs = Tail(@), !.from = 0, !.got = <<>>, !.out = {}, !.alone = TRUE]
    BY <1>2, <2>1 DEF NextJob
  <2>3. TidyShape(t) /\ t.op = "tidy" /\ t.pc \in {"clear", "scan"} /\ t.alone = TRUE
    BY <2>2 DEF TidyShape
  <2>4. t.jobs = Tail(s.jobs) /\ t.got = <<>>
    BY <2>2 DEF TidyShape
  <2>5. t.jobs \in Seq(JobRecs) /\ t.jobs # <<>>
    <3>1. Tail(s.jobs) \in Seq(JobRecs) /\ Len(Tail(s.jobs)) >= 1
      BY <1>2, <2>1, TailKinds
    <3>3. Tail(s.jobs) # <<>>
      BY <3>1, NotEmpty
    <3> QED BY <2>4, <3>1, <3>3
  <2>6. Seen(t, u, po)
    <3>1. <<>> = [id \in DOMAIN <<>> |-> <<>>[id]] /\ DOMAIN <<>> = {}
      OBVIOUS
    <3>2. t.got = [id \in DOMAIN t.got |-> t.got[id]] /\ DOMAIN t.got = {}
      BY <2>4, <3>1
    <3> QED BY <3>2, FS_EmptySet DEF Seen
  <2> HIDE DEF t
  <2>7. Tidies(t, u, po)
    BY <2>3, <2>5, <2>6 DEF Tidies
  <2> QED BY <2>3, <2>7 DEF t, Sound
<1> QED BY <1>1, <1>2

LEMMA TidyStarts ==
  ASSUME MemoryInv, NEW c \in Clients, NEW jobs \in Seq(JobRecs), Tidy(c, jobs),
         UNCHANGED <<clock, stores, used, wanted, dead>>
  PROVE  MemoryInv'
<1> DEFINE s == [op |-> "tidy", pc |-> "", jobs |-> <<None>> \o jobs, now |-> clock,
                 from |-> 0, got |-> <<>>, out |-> {}, alone |-> TRUE]
<1>1. s.op = "tidy" /\ TidyShape(s) /\ s.jobs = <<None>> \o jobs
  BY DEF TidyShape
<1>2. /\ s.jobs \in Seq(JobRecs \cup {None}) /\ s.jobs # <<>>
      /\ \A i \in 2 .. Len(s.jobs) : s.jobs[i] \in JobRecs
  <2>1. <<None>> \in Seq(JobRecs \cup {None}) /\ jobs \in Seq(JobRecs \cup {None})
    OBVIOUS
  <2>2. Len(<<None>> \o jobs) = 1 + Len(jobs) /\ Len(jobs) \in Nat
    OBVIOUS
  <2>3. \A i \in 2 .. 1 + Len(jobs) : (<<None>> \o jobs)[i] = jobs[i - 1]
    BY <2>2
  <2>4. \A i \in 2 .. 1 + Len(jobs) : jobs[i - 1] \in JobRecs
    BY <2>2
  <2>5. <<None>> \o jobs \in Seq(JobRecs \cup {None})
    BY <2>1, ConcatProperties
  <2>6. <<None>> \o jobs # <<>>
    BY <2>2
  <2>7. \A i \in 2 .. 1 + Len(jobs) : (<<None>> \o jobs)[i] \in JobRecs
    BY <2>3, <2>4
  <2> HIDE DEF s
  <2>8. Len(s.jobs) = 1 + Len(jobs) /\ \A i : s.jobs[i] = (<<None>> \o jobs)[i]
    BY <1>1, <2>2
  <2> QED BY <1>1, <2>5, <2>6, <2>7, <2>8
<1>3. Go(c, NextJob(s))
  <2>1. Start(c, NextJob(s))
    BY DEF Tidy
  <2> HIDE DEF s
  <2> QED BY <2>1 DEF Start
<1> HIDE DEF s
<1>5. Sound(NextJob(s), used, dead, points, nodes, wanted) /\ NextJob(s).pc # "bump"
  BY <1>1, <1>2, NextJobSound
<1> QED BY <1>3, <1>5, Onward DEF stores

LEMMA NextTidy ==
  ASSUME NEW s, NEW u, NEW po, Tidies(s, u, po), NEW u2, NEW de2, NEW po2, NEW no, NEW w
  PROVE  Sound(NextJob(s), u2, de2, po2, no, w) /\ NextJob(s).pc # "bump"
<1>1. s.op = "tidy" /\ TidyShape(s) /\ s.jobs \in Seq(JobRecs) /\ s.jobs # <<>>
  BY DEF Tidies
<1>2. s.jobs \in Seq(JobRecs \cup {None}) /\ \A i \in 2 .. Len(s.jobs) : s.jobs[i] \in JobRecs
  BY <1>1
<1> QED BY <1>1, <1>2, NextJobSound

-----------------------------------------------------------------------------
(* The steps that touch no point and no node.                              *)

LEMMA CollectionSteps ==
  ASSUME MemoryInv, NEW c \in Clients, Ensure(c) \/ Create(c)
  PROVE  MemoryInv'
<1>1. PICK p \in {"create", cl[c].after} : Go(c, [cl[c] EXCEPT !.pc = p])
  BY DEF Ensure, Create
<1>2. UNCHANGED <<clock, points, nodes, links, used, wanted, dead>>
  BY DEF Ensure, Create, stores
<1>3. cl[c].pc \in {"ensure", "create"}
  BY DEF Ensure, Create, At
<1> DEFINE s == [cl[c] EXCEPT !.pc = p]
<1>4. CASE Writes(cl[c], used, nodes, wanted)
  <2>1. WriteShape(s, wanted) /\ s.op = "write" /\ s.items = cl[c].items /\ s.pc \in {"create", "upsert"}
    BY <1>4 DEF Writes, WriteShape
  <2>2. s.items # <<>>
    BY <1>3, <1>4, <2>1 DEF Writes
  <2> HIDE DEF s
  <2>3. Writes(s, used, nodes, wanted)
    BY <2>1, <2>2 DEF Writes
  <2>4. Sound(s, used, dead, points, nodes, wanted) /\ s.pc # "bump"
    BY <2>1, <2>3 DEF Sound
  <2>5. Go(c, s)
    BY <1>1 DEF s
  <2> QED BY <1>2, <2>4, <2>5, Onward
<1>5. CASE Searches(cl[c], used, dead, points)
  <2>1. Searches(s, used, dead, points) /\ s.pc # "bump"
    BY <1>3, <1>5 DEF Searches
  <2> HIDE DEF s
  <2>2. Sound(s, used, dead, points, nodes, wanted) /\ s.pc # "bump"
    BY <2>1 DEF Sound
  <2>3. Go(c, s)
    BY <1>1 DEF s
  <2> QED BY <1>2, <2>2, <2>3, Onward
<1> QED BY <1>3, <1>4, <1>5, Operation

(* Back to the idle loop.                                                  *)
LEMMA Done ==
  ASSUME MemoryInv, NEW c \in Clients, Go(c, Idle),
         UNCHANGED <<clock, points, nodes, links, used, wanted, dead>>
  PROVE  MemoryInv'
<1>1. Sound(Idle, used, dead, points, nodes, wanted) /\ Idle.pc # "bump"
  BY DEF Sound, Idle
<1> QED BY <1>1, Onward

LEMMA ConsolidateStep ==
  ASSUME MemoryInv, NEW c \in Clients, Consolidate(c)
  PROVE  MemoryInv'
<1>1. PICK x \in Extractions :
        Start(c, Settle([op |-> "write", pc |-> "", after |-> "upsert", strict |-> x.strict,
                         rels |-> x.rels, items |-> x.items, names |-> {},
                         links |-> {}, entity |-> None]))
  BY DEF Consolidate
<1> DEFINE s == [op |-> "write", pc |-> "", after |-> "upsert", strict |-> x.strict,
                 rels |-> x.rels, items |-> x.items, names |-> {}, links |-> {}, entity |-> None]
<1>2. x.rels \in Seq([from : Names, to : Names]) /\ x.items \in Seq(Items)
  BY LongTermAssumption DEF Extracted
<1>3. s.op = "write" /\ WriteShape(s, wanted)
  BY <1>2 DEF WriteShape
<1>4. Start(c, Settle(s))
  BY <1>1
<1> HIDE DEF s
<1>5. Sound(Settle(s), used, dead, points, nodes, wanted) /\ Settle(s).pc # "bump"
  BY <1>3, SettleSound
<1>6. Go(c, Settle(s))
  BY <1>4 DEF Start
<1>7. UNCHANGED <<clock, points, nodes, links, used, wanted, dead>>
  BY DEF Consolidate, stores
<1> QED BY <1>5, <1>6, <1>7, Onward

LEMMA ResolveStep ==
  ASSUME MemoryInv, NEW c \in Clients, Resolve(c)
  PROVE  MemoryInv'
<1>1. cl[c].op = "write" /\ Writes(cl[c], used, nodes, wanted)
  BY Operation DEF Resolve, At
<1>2. UNCHANGED <<clock, points, nodes, links, used, wanted, dead>>
  BY DEF Resolve, stores
<1>3. PICK todo \in cl[c].links :
        Go(c, IF Named(todo[1]) = {} THEN Settle([cl[c] EXCEPT !.links = @ \ {todo}])
              ELSE [cl[c] EXCEPT !.pc = "link", !.links = @ \ {todo},
                      !.entity = <<(CHOOSE e \in Named(todo[1]) : TRUE).id, todo[2]>>])
  BY DEF Resolve
<1>4. CASE Named(todo[1]) = {}
  <2> DEFINE s == [cl[c] EXCEPT !.links = @ \ {todo}]
  <2>1. s.op = "write" /\ WriteShape(s, wanted)
    BY <1>1 DEF Writes, WriteShape
  <2>2. Go(c, Settle(s))
    BY <1>3, <1>4
  <2> HIDE DEF s
  <2>3. Sound(Settle(s), used, dead, points, nodes, wanted) /\ Settle(s).pc # "bump"
    BY <2>1, SettleSound
  <2> QED BY <1>2, <2>2, <2>3, Onward
<1>5. CASE Named(todo[1]) # {}
  <2>1. PICK e \in nodes : e = (CHOOSE f \in Named(todo[1]) : TRUE) /\ e.name = todo[1]
    BY <1>5 DEF Named
  <2> DEFINE l == <<e.id, todo[2]>>
             s == [cl[c] EXCEPT !.pc = "link", !.links = @ \ {todo}, !.entity = l]
  <2>2. Go(c, s)
    BY <1>3, <1>5, <2>1
  <2>3. ResolvedTo(l, used, nodes, wanted)
    <3>1. todo \in wanted /\ todo = <<todo[1], todo[2]>>
      BY <1>1 DEF Writes, WriteShape, MemoryInv, Graph
    <3>2. e.id \in used /\ \A f \in nodes : f.id = e.id => f.name = todo[1]
      BY <2>1 DEF MemoryInv, Graph
    <3> QED BY <3>1, <3>2 DEF ResolvedTo
  <2> HIDE DEF l
  <2>4. WriteShape(s, wanted) /\ s.op = "write" /\ s.pc = "link" /\ s.entity = l
    BY <1>1 DEF Writes, WriteShape
  <2> HIDE DEF s
  <2>5. Writes(s, used, nodes, wanted)
    BY <2>3, <2>4 DEF Writes
  <2>6. Sound(s, used, dead, points, nodes, wanted) /\ s.pc # "bump"
    BY <2>4, <2>5 DEF Sound
  <2> QED BY <1>2, <2>2, <2>6, Onward
<1> QED BY <1>4, <1>5

LEMMA SearchStep ==
  ASSUME MemoryInv, NEW c \in Clients, Search(c)
  PROVE  MemoryInv'
<1> DEFINE s == [op |-> "search", pc |-> "ensure", after |-> "query", types |-> Types, read |-> <<>>]
<1>1. Types \in Seq(Range(Types)) /\ Types # <<>>
  BY TypesAre DEF Types
<1>2. Searches(s, used, dead, points)
  BY <1>1 DEF Searches
<1>3. Start(c, s)
  BY DEF Search
<1>4. s.pc # "bump"
  OBVIOUS
<1> HIDE DEF s
<1>5. Sound(s, used, dead, points, nodes, wanted) /\ Go(c, s)
  BY <1>2, <1>3 DEF Sound, Start
<1>6. UNCHANGED <<clock, points, nodes, links, used, wanted, dead>>
  BY DEF Search, stores
<1> QED BY <1>4, <1>5, <1>6, Onward

LEMMA SearchedSound ==
  ASSUME NEW s, NEW u, NEW de, NEW po, NEW u2, NEW de2, NEW po2, NEW no, NEW w,
         Searches(s, u, de, po), s.pc # "graph"
  PROVE  Sound(Searched(s), u2, de2, po2, no, w) /\ Searched(s).pc # "bump"
<1>1. s.types \in Seq(Range(Types)) /\ s.types # <<>>
  BY DEF Searches
<1>2. CASE Len(s.types) > 1
  <2>1. Tail(s.types) \in Seq(Range(Types)) /\ Len(Tail(s.types)) = Len(s.types) - 1
    BY <1>1, HeadTailProperties
  <2>2. Tail(s.types) # <<>>
    <3>1. Len(Tail(s.types)) >= 1
      BY <1>1, <1>2, <2>1
    <3> QED BY <3>1, NotEmpty
  <2> DEFINE t == [s EXCEPT !.pc = "query", !.types = Tail(@), !.read = <<>>]
  <2>3. t.op = "search" /\ DOMAIN t = DOMAIN s /\ t.after = s.after /\ t.pc = "query" /\ t.types = Tail(s.types)
    BY DEF Searches
  <2> HIDE DEF t
  <2>4. Searches(t, u2, de2, po2)
    BY <2>1, <2>2, <2>3 DEF Searches
  <2> QED BY <1>2, <2>3, <2>4 DEF Searched, Sound, t
<1>3. CASE ~(Len(s.types) > 1)
  <2> DEFINE t == [s EXCEPT !.pc = "graph", !.types = <<>>, !.read = <<>>]
  <2>1. t.op = "search" /\ DOMAIN t = DOMAIN s /\ t.after = s.after /\ t.pc = "graph" /\ t.types = <<>>
    BY DEF Searches
  <2> HIDE DEF t
  <2>2. Searches(t, u2, de2, po2)
    BY <2>1, EmptySeq DEF Searches
  <2> QED BY <1>3, <2>1, <2>2 DEF Searched, Sound, t
<1> QED BY <1>2, <1>3

LEMMA Accessed ==
  ASSUME NEW p \in Memories, NEW t \in Int
  PROVE  LET q == [p EXCEPT !.last = t, !.count = @ + 1]
         IN  q \in Memories /\ q.type = p.type
<1> DEFINE k == p.count + 1
           q == [p EXCEPT !.last = t, !.count = k]
<1>1. k \in Int
  BY DEF Memories
<1> HIDE DEF k
<1>2. q \in Memories /\ q.type = p.type
  BY <1>1 DEF Memories
<1> QED BY <1>2 DEF k

LEMMA QueryStep ==
  ASSUME MemoryInv, NEW c \in Clients, Query(c)
  PROVE  MemoryInv'
<1>1. cl[c].pc = "query" /\ Searches(cl[c], used, dead, points)
  BY Operation DEF Query, At
<1>2. UNCHANGED <<clock, points, nodes, links, used, wanted, dead>>
  BY DEF Query, stores
<1>3. PICK hits \in SUBSET Match(Head(cl[c].types)) :
        Go(c, IF hits = {} THEN Searched(cl[c])
              ELSE [cl[c] EXCEPT !.pc = "bump",
                      !.read = [id \in hits |-> [points[id] EXCEPT !.last = clock, !.count = @ + 1]]])
  BY DEF Query
<1>4. CASE hits = {}
  <2>1. Go(c, Searched(cl[c]))
    BY <1>3, <1>4
  <2>2. Sound(Searched(cl[c]), used, dead, points, nodes, wanted) /\ Searched(cl[c]).pc # "bump"
    BY <1>1, SearchedSound
  <2> QED BY <1>2, <2>1, <2>2, Onward
<1>5. CASE hits # {}
  <2> DEFINE read == [id \in hits |-> [points[id] EXCEPT !.last = clock, !.count = @ + 1]]
             s == [cl[c] EXCEPT !.pc = "bump", !.read = read]
  <2>1. Go(c, s)
    BY <1>3, <1>5
  <2>2. Copies(read, used, dead, points)
    <3>1. \A id \in hits : id \in DOMAIN points /\ points[id].ns = Ours
      BY DEF Match
    <3>2. hits \subseteq Ids \cap used
      BY <3>1 DEF MemoryInv, Stored
    <3>3. hits \cap dead = {} /\ IsFiniteSet(hits)
      BY <3>1, FS_Subset DEF MemoryInv, DeadStayDead, Stored
    <3>4. ASSUME NEW id \in hits
          PROVE  Copy(id, read[id], points)
      <4>1. points[id] \in Memories /\ clock \in Int
        BY <3>1, <3>2 DEF MemoryInv, Stored
      <4>2. read[id] = [points[id] EXCEPT !.last = clock, !.count = @ + 1]
        OBVIOUS
      <4>3. read[id] \in Memories /\ read[id].type = points[id].type
        BY <4>1, <4>2, Accessed
      <4> QED BY <4>3 DEF Copy
    <3>5. DOMAIN read = hits
      OBVIOUS
    <3> HIDE DEF read
    <3>6. read = [id \in DOMAIN read |-> read[id]]
      BY DEF read
    <3> QED BY <3>2, <3>3, <3>4, <3>5, <3>6 DEF Copies
  <2>3. DOMAIN read \subseteq DOMAIN points
    BY DEF Match
  <2> HIDE DEF read
  <2>4. s.op = "search" /\ DOMAIN s = DOMAIN cl[c] /\ s.after = cl[c].after /\ s.pc = "bump"
        /\ s.types = cl[c].types /\ s.read = read
    BY <1>1 DEF Searches
  <2> HIDE DEF s
  <2>5. Searches(s, used, dead, points)
    BY <1>1, <2>2, <2>4 DEF Searches
  <2>6. Sound(s, used, dead, points, nodes, wanted)
    BY <2>5 DEF Sound
  <2> QED BY <1>2, <2>1, <2>2, <2>3, <2>4, <2>6, Onward
<1> QED BY <1>4, <1>5

LEMMA ForgetSteps ==
  ASSUME MemoryInv, NEW c \in Clients, Forget(c) \/ Retrieve(c) \/ RecallGraph(c)
  PROVE  MemoryInv'
<1>1. UNCHANGED <<clock, points, nodes, links, used, wanted, dead>>
  BY DEF Forget, Retrieve, RecallGraph, stores
<1>2. CASE Forget(c)
  <2>1. PICK id \in used \ Entities : Start(c, [op |-> "forget", pc |-> "retrieve", id |-> id])
    BY <1>2 DEF Forget
  <2> DEFINE s == [op |-> "forget", pc |-> "retrieve", id |-> id]
  <2>2. Forgets(s, used) /\ s.pc # "bump"
    BY DEF Forgets
  <2>3. Start(c, s)
    BY <2>1
  <2> HIDE DEF s
  <2>4. Sound(s, used, dead, points, nodes, wanted) /\ Go(c, s)
    BY <2>2, <2>3 DEF Sound, Start
  <2> QED BY <1>1, <2>2, <2>4, Onward
<1>3. CASE Retrieve(c)
  <2>1. CASE cl[c].id \in DOMAIN points /\ points[cl[c].id].ns = Ours
    <3> DEFINE s == [cl[c] EXCEPT !.pc = "delete"]
    <3>1. Forgets(cl[c], used)
      BY <1>3, Operation DEF Retrieve, At
    <3>2. cl[c].id \in Ids
      BY <2>1 DEF MemoryInv, Stored
    <3>3. Forgets(s, used) /\ s.pc # "bump"
      BY <3>1, <3>2 DEF Forgets
    <3>4. Go(c, s)
      BY <1>3, <2>1 DEF Retrieve
    <3> HIDE DEF s
    <3>5. Sound(s, used, dead, points, nodes, wanted)
      BY <3>3 DEF Sound
    <3> QED BY <1>1, <3>3, <3>4, <3>5, Onward
  <2>2. CASE ~(cl[c].id \in DOMAIN points /\ points[cl[c].id].ns = Ours)
    <3>1. Go(c, Idle)
      BY <1>3, <2>2 DEF Retrieve
    <3> QED BY <1>1, <3>1, Done
  <2> QED BY <2>1, <2>2
<1>4. CASE RecallGraph(c)
  <2>1. Go(c, Idle)
    BY <1>4 DEF RecallGraph
  <2> QED BY <1>1, <2>1, Done
<1> QED BY <1>2, <1>3, <1>4

LEMMA JobsAre ==
  ASSUME NEW kinds \in Seq({"clear", "ttl", "capacity", "graph"}), NEW type \in Range(Types)
  PROVE  Jobs(kinds, type) \in Seq(JobRecs)
<1>1. kinds \in [1 .. Len(kinds) -> {"clear", "ttl", "capacity", "graph"}] /\ Len(kinds) \in Nat
  BY LenProperties
<1>2. Jobs(kinds, type) \in [1 .. Len(kinds) -> JobRecs]
  BY <1>1 DEF Jobs, JobRecs
<1> QED BY <1>1, <1>2, SeqDef

LEMMA TidySteps ==
  ASSUME MemoryInv, NEW c \in Clients, ClearAll(c) \/ Maintain(c)
  PROVE  MemoryInv'
<1>1. "episodic" \in Range(Types) /\ "semantic" \in Range(Types)
  BY TypesAre
<1> DEFINE K == {"clear", "ttl", "capacity", "graph"}
<1>2. <<"clear">> \in Seq(K) /\ <<"clear", "graph">> \in Seq(K) /\ <<"ttl", "capacity">> \in Seq(K)
  OBVIOUS
<1>3. /\ Jobs(<<"clear">>, "episodic") \in Seq(JobRecs)
      /\ Jobs(<<"clear", "graph">>, "semantic") \in Seq(JobRecs)
      /\ Jobs(<<"ttl", "capacity">>, "episodic") \in Seq(JobRecs)
      /\ Jobs(<<"ttl", "capacity">>, "semantic") \in Seq(JobRecs)
  BY <1>1, <1>2, JobsAre
<1>4. /\ Jobs(<<"clear">>, "episodic") \o Jobs(<<"clear", "graph">>, "semantic") \in Seq(JobRecs)
      /\ Jobs(<<"ttl", "capacity">>, "episodic") \o Jobs(<<"ttl", "capacity">>, "semantic") \in Seq(JobRecs)
  BY <1>3, ConcatProperties
<1>5. PICK jobs \in Seq(JobRecs) : Tidy(c, jobs)
  BY <1>3, <1>4 DEF ClearAll, Maintain
<1>6. UNCHANGED <<clock, stores, used, wanted, dead>>
  BY DEF ClearAll, Maintain
<1> QED BY <1>5, <1>6, TidyStarts

(* A page of the scroll, and after the last one what goes.                 *)
LEMMA ScanStep ==
  ASSUME MemoryInv, NEW c \in Clients, Scan(c)
  PROVE  MemoryInv'
<1> DEFINE s    == cl[c]
           type == Head(s.jobs).type
           rest == {id \in Match(type) : id > s.from}
           page == {id \in rest : Cardinality({b \in rest : b < id}) < Page}
           got  == Over(s.got, Restrict(points, page))
           out  == Victims(s, got)
<1>1. s.pc = "scan" /\ Tidies(s, used, points)
  BY Operation DEF Scan, At
<1>2. Go(c, IF page # rest
              THEN [s EXCEPT !.got = got, !.from = CHOOSE m \in page : \A b \in page : b <= m]
            ELSE IF out = {} THEN NextJob(s)
            ELSE [s EXCEPT !.pc = "remove", !.got = <<>>, !.out = out])
  BY DEF Scan, Job
<1>3. UNCHANGED <<clock, points, nodes, links, used, wanted, dead>>
  BY DEF Scan, stores
<1>4. page \subseteq Match(type) /\ Match(type) = Matching(points, type)
  BY DEF Match, Matching
<1> HIDE DEF page
<1>5. /\ got = [id \in DOMAIN got |-> got[id]] /\ IsFiniteSet(DOMAIN got)
      /\ DOMAIN got \subseteq Ids \cap used
      /\ \A id \in DOMAIN got : got[id] \in Memories
      /\ s.alone => DOMAIN got \subseteq Matching(points, type)
  <2>1. /\ page \subseteq DOMAIN points /\ page \subseteq Ids \cap used /\ IsFiniteSet(page)
        /\ \A id \in page : points[id] \in Memories
    <3>1. \A id \in page : id \in DOMAIN points /\ points[id].ns = Ours
      BY <1>4 DEF Matching
    <3> QED BY <3>1, FS_Subset DEF MemoryInv, Stored
  <2>2. DOMAIN got = DOMAIN s.got \cup page /\ got = [id \in DOMAIN got |-> got[id]]
        /\ \A id \in DOMAIN got : got[id] = IF id \in DOMAIN s.got THEN s.got[id] ELSE points[id]
    BY DEF Restrict, Over
  <2>3. Seen(s, used, points)
    BY <1>1 DEF Tidies
  <2> HIDE DEF got
  <2>4. IsFiniteSet(DOMAIN got)
    <3>1. IsFiniteSet(DOMAIN s.got)
      BY <2>3 DEF Seen
    <3>2. IsFiniteSet(DOMAIN s.got \cup page)
      BY <2>1, <3>1, FS_Union
    <3> QED BY <2>2, <3>2
  <2>5. DOMAIN got \subseteq Ids \cap used /\ \A id \in DOMAIN got : got[id] \in Memories
    BY <2>1, <2>2, <2>3 DEF Seen
  <2>6. s.alone => DOMAIN got \subseteq Matching(points, type)
    BY <1>4, <2>2, <2>3 DEF Seen
  <2> QED BY <2>2, <2>4, <2>5, <2>6
<1> HIDE DEF got
<1>6. CASE page # rest
  <2> DEFINE from == CHOOSE m \in page : \A b \in page : b <= m
             t    == [s EXCEPT !.got = got, !.from = from]
  <2>1. Go(c, t)
    BY <1>2, <1>6
  <2> HIDE DEF from
  <2>2. TidyShape(t) /\ t.op = "tidy" /\ t.pc = "scan" /\ t.jobs = s.jobs /\ t.alone = s.alone /\ t.got = got
    BY <1>1 DEF Tidies, TidyShape
  <2> HIDE DEF t
  <2>3. Seen(t, used, points)
    BY <1>5, <2>2 DEF Seen
  <2>4. Tidies(t, used, points)
    BY <1>1, <2>2, <2>3 DEF Tidies
  <2>5. Sound(t, used, dead, points, nodes, wanted) /\ t.pc # "bump"
    BY <2>2, <2>4 DEF Sound
  <2> QED BY <1>3, <2>1, <2>5, Onward
<1>7. CASE page = rest /\ out = {}
  <2>1. Go(c, NextJob(s))
    BY <1>2, <1>7
  <2>2. Sound(NextJob(s), used, dead, points, nodes, wanted) /\ NextJob(s).pc # "bump"
    BY <1>1, NextTidy
  <2> QED BY <1>3, <2>1, <2>2, Onward
<1>8. CASE page = rest /\ out # {}
  <2> DEFINE t == [s EXCEPT !.pc = "remove", !.got = <<>>, !.out = out]
  <2>1. Go(c, t)
    BY <1>2, <1>8
  <2>2. out \subseteq DOMAIN got
    BY DEF Victims
  <2>3. ASSUME s.alone, Head(s.jobs).kind = "capacity"
        PROVE  Cardinality(Matching(points, type) \ out) >= MaxItems
    <3> DEFINE k == Cardinality(DOMAIN got) - MaxItems
    <3>1. Cardinality(DOMAIN got) \in Nat /\ MaxItems \in Nat /\ k \in Int
      BY <1>5, FS_CardinalityType, LongTermAssumption
    <3>2. \A id \in out : Cardinality(Prior(got, id)) < k
      BY <2>3 DEF Victims, Prior
    <3> HIDE DEF k, out
    <3>3. DOMAIN got \subseteq Int
      BY <1>5, LongTermAssumption
    <3>4. IsFiniteSet(out) /\ Cardinality(out) <= k
      BY <1>5, <1>8, <2>2, <3>1, <3>2, <3>3, FewVictims
    <3> DEFINE left == DOMAIN got \ out
               all  == Matching(points, type) \ out
    <3>5. Cardinality(left) = Cardinality(DOMAIN got) - Cardinality(out)
      <4>1. DOMAIN got \cap out = out
        BY <2>2
      <4>2. Cardinality(left) = Cardinality(DOMAIN got) - Cardinality(DOMAIN got \cap out)
        BY <1>5, <3>4, FS_Difference
      <4> QED BY <4>1, <4>2
    <3>6. IsFiniteSet(all) /\ left \subseteq all
      <4>1. all \subseteq DOMAIN points
        BY DEF Matching
      <4>2. IsFiniteSet(DOMAIN points)
        BY DEF MemoryInv, Stored
      <4> QED BY <1>5, <2>3, <4>1, <4>2, FS_Subset
    <3>7. Cardinality(left) <= Cardinality(all) /\ Cardinality(all) \in Nat /\ Cardinality(out) \in Nat
      BY <3>4, <3>6, FS_Subset, FS_CardinalityType
    <3> HIDE DEF left, all
    <3>8. Cardinality(left) >= MaxItems
      BY <3>1, <3>4, <3>5, <3>7 DEF k
    <3>9. Cardinality(left) \in Int
      BY <3>1, <3>5, <3>7
    <3>10. Cardinality(all) >= MaxItems
      BY <3>1, <3>7, <3>8, <3>9
    <3> QED BY <3>10 DEF all
  <2> HIDE DEF out
  <2>4. TidyShape(t) /\ t.op = "tidy" /\ t.pc = "remove" /\ t.jobs = s.jobs /\ t.alone = s.alone /\ t.out = out
    BY <1>1 DEF Tidies, TidyShape
  <2> HIDE DEF t
  <2>5. Leaves(t, used, points)
    BY <1>5, <2>2, <2>3, <2>4 DEF Leaves
  <2>6. Tidies(t, used, points)
    BY <1>1, <2>4, <2>5 DEF Tidies
  <2>7. Sound(t, used, dead, points, nodes, wanted) /\ t.pc # "bump"
    BY <2>4, <2>6 DEF Sound
  <2> QED BY <1>3, <2>1, <2>7, Onward
<1> QED BY <1>6, <1>7, <1>8


-----------------------------------------------------------------------------
(* An exception.                                                           *)

LEMMA FailStep ==
  ASSUME MemoryInv, NEW c \in Clients, Fail(c)
  PROVE  MemoryInv'
<1> DEFINE s == cl[c]
<1>1. Go(c, Failed(s)) /\ UNCHANGED <<clock, points, nodes, links, used, wanted, dead>>
  BY DEF Fail, stores
<1>2. CASE Failed(s) = Idle
  BY <1>1, <1>2, Done
<1>3. CASE s.op = "write" /\ Failed(s) # Idle
  <2>1. Writes(s, used, nodes, wanted)
    BY <1>3, Operation
  <2> DEFINE a == [s EXCEPT !.rels = Tail(@)]
             b == [s EXCEPT !.entity = None]
             d == [s EXCEPT !.items = Tail(@)]
  <2>2. \/ s.pc = "relate" /\ Failed(s) = Settle(a)
        \/ Failed(s) = Settle(b)
        \/ s.items # <<>> /\ Failed(s) = Settle(d)
    BY <1>3 DEF Failed
  <2>3. b.op = "write" /\ WriteShape(b, wanted)
    BY <2>1 DEF Writes, WriteShape
  <2>4. ASSUME s.pc = "relate" PROVE a.op = "write" /\ WriteShape(a, wanted)
    <3>1. Tail(s.rels) \in Seq([from : Names, to : Names])
      BY <2>1, <2>4, HeadTailProperties DEF Writes, WriteShape
    <3> QED BY <2>1, <3>1 DEF Writes, WriteShape
  <2>5. ASSUME s.items # <<>> PROVE d.op = "write" /\ WriteShape(d, wanted)
    <3>1. Tail(s.items) \in Seq(Items)
      BY <2>1, <2>5, HeadTailProperties DEF Writes, WriteShape
    <3> QED BY <2>1, <3>1 DEF Writes, WriteShape
  <2> HIDE DEF a, b, d
  <2>6. PICK t \in {a, b, d} : t.op = "write" /\ WriteShape(t, wanted) /\ Failed(s) = Settle(t)
    BY <2>2, <2>3, <2>4, <2>5
  <2>7. Sound(Settle(t), used, dead, points, nodes, wanted) /\ Settle(t).pc # "bump"
    BY <2>6, SettleSound
  <2>8. Go(c, Settle(t))
    BY <1>1, <2>6
  <2> QED BY <1>1, <2>7, <2>8, Onward
<1>4. CASE s.op # "write" /\ Failed(s) # Idle
  <2> DEFINE t == [s EXCEPT !.pc = "graph", !.types = <<>>, !.read = <<>>]
  <2>1. s.op = "search" /\ Failed(s) = t
    BY <1>4 DEF Failed
  <2>2. Searches(s, used, dead, points)
    BY <2>1, Operation
  <2>3. t.op = "search" /\ DOMAIN t = DOMAIN s /\ t.after = s.after /\ t.pc = "graph" /\ t.types = <<>>
    BY <2>2 DEF Searches
  <2>4. Go(c, t)
    BY <1>1, <2>1
  <2> HIDE DEF t
  <2>5. Searches(t, used, dead, points)
    BY <2>2, <2>3, EmptySeq DEF Searches
  <2>6. Sound(t, used, dead, points, nodes, wanted)
    BY <2>5 DEF Sound
  <2> QED BY <1>1, <2>3, <2>4, <2>6, Onward
<1> QED BY <1>2, <1>3, <1>4

LEMMA TickStep ==
  ASSUME MemoryInv, Tick
  PROVE  MemoryInv'
<1>1. UNCHANGED <<points, nodes, links, cl, used, wanted, dead>>
  BY DEF Tick, stores
<1>2. clock' \in Int
  BY DEF Tick, MemoryInv, Stored
<1>3. Stored' /\ Graph' /\ NamespacesApart' /\ DeadStayDead' /\ LinksSound'
  BY <1>1, <1>2 DEF MemoryInv, Stored, Graph, NamespacesApart, DeadStayDead, LinksSound
<1>4. Working'
  BY <1>1 DEF MemoryInv, Working
<1>5. Agree'
  BY <1>1 DEF MemoryInv, Agree, At
<1> QED BY <1>3, <1>4, <1>5 DEF MemoryInv

-----------------------------------------------------------------------------
(* The steps on the graph.                                                 *)

(* One relation: an entity that is made has an id that no entity had.      *)
LEMMA RelateStep ==
  ASSUME MemoryInv, NEW c \in Clients, Relate(c)
  PROVE  MemoryInv'
<1> DEFINE s == cl[c]
           r == Head(s.rels)
           Id(name) == IF name = r.from THEN NewId ELSE OtherId
           new == {[id |-> Id(name), name |-> name] :
                     name \in {m \in {r.from, r.to} : Named(m) = {}}}
           t == [s EXCEPT !.rels = Tail(@), !.names = @ \cup {r.from, r.to}]
<1>1. s.pc = "relate" /\ s.op = "write" /\ Writes(s, used, nodes, wanted)
  BY Operation DEF Relate, At
<1>2. /\ nodes' = nodes \cup new /\ used' = used \cup {e.id : e \in new}
      /\ Go(c, Settle(t))
      /\ UNCHANGED <<clock, points, links, wanted, dead>>
  BY DEF Relate
<1>3. NewId \in Entities \ used /\ OtherId \in Entities \ used /\ NewId # OtherId
  <2>1. PICK x, y \in Entities \ used : x # y
    BY DEF Relate
  <2>2. NewId \in Entities \ used
    BY <2>1 DEF NewId
  <2>3. Entities \ (used \cup {NewId}) # {}
    BY <2>1, <2>2
  <2>4. OtherId \in Entities \ (used \cup {NewId})
    BY <2>3 DEF OtherId
  <2> QED BY <2>2, <2>4
<1>4. /\ \A e \in new : e.id \in Entities \ used
      /\ \A e, f \in new : e.id = f.id => e = f
  BY <1>3
<1>5. t.op = "write" /\ WriteShape(t, wanted)
  <2>1. Tail(s.rels) \in Seq([from : Names, to : Names])
    BY <1>1, HeadTailProperties DEF Writes, WriteShape
  <2> QED BY <1>1, <2>1 DEF Writes, WriteShape
<1> HIDE DEF new, t
<1>6. Graph'
  <2> SUFFICES ASSUME NEW e \in nodes'
               PROVE  e.id \in Entities \cap used' /\ \A f \in nodes' : e.id = f.id => e = f
    BY <1>2 DEF Graph, MemoryInv
  <2>1. \A f \in nodes : f.id \in Entities \cap used
    BY DEF MemoryInv, Graph
  <2>2. CASE e \in nodes
    BY <1>2, <1>4, <2>1, <2>2 DEF MemoryInv, Graph
  <2>3. CASE e \in new
    BY <1>2, <1>4, <2>1, <2>3
  <2> QED BY <1>2, <2>2, <2>3
<1>7. LinksSound'
  BY <1>2 DEF MemoryInv, LinksSound
<1>8. Sound(Settle(t), used', dead, points, nodes', wanted) /\ Settle(t).pc # "bump"
  BY <1>5, SettleSound
<1>9. used \subseteq used' /\ used' \ used \subseteq Entities /\ \A e \in nodes' : e \in nodes \/ e.id \notin used
  BY <1>2, <1>4
<1> QED BY <1>2, <1>6, <1>7, <1>8, <1>9, OnGraph

LEMMA RememberEntityStep ==
  ASSUME MemoryInv, NEW c \in Clients, RememberEntity(c)
  PROVE  MemoryInv'
<1>1. PICK name \in Names :
        nodes' = nodes \cup {[id |-> NewId, name |-> name]} /\ used' = used \cup {NewId}
  BY DEF RememberEntity
<1>2. NewId \in Entities \ used
  BY DEF RememberEntity, NewId
<1>3. Go(c, Idle) /\ UNCHANGED <<clock, points, links, wanted, dead>>
  BY DEF RememberEntity, Start
<1>4. Graph'
  BY <1>1, <1>2, <1>3 DEF MemoryInv, Graph
<1>5. LinksSound'
  BY <1>1, <1>3 DEF MemoryInv, LinksSound
<1>6. Sound(Idle, used', dead, points, nodes', wanted) /\ Idle.pc # "bump"
  BY DEF Sound, Idle
<1> QED BY <1>1, <1>2, <1>3, <1>4, <1>5, <1>6, OnGraph

(* The entity has gone or has the name that was resolved.                  *)
LEMMA LinkStep ==
  ASSUME MemoryInv, NEW c \in Clients, Link(c)
  PROVE  MemoryInv'
<1> DEFINE s == cl[c]
           t == [s EXCEPT !.entity = None]
<1>1. s.pc = "link" /\ s.op = "write" /\ Writes(s, used, nodes, wanted)
  BY Operation DEF Link, At
<1>2. Go(c, Settle(t)) /\ UNCHANGED <<clock, points, nodes, used, wanted, dead>>
  BY DEF Link
<1>3. t.op = "write" /\ WriteShape(t, wanted)
  BY <1>1 DEF Writes, WriteShape
<1>4. LinksSound'
  <2>1. CASE \E e \in nodes : e.id = s.entity[1]
    <3>1. links' = links \cup {s.entity}
      BY <2>1 DEF Link
    <3>2. \E e \in nodes : e.id = s.entity[1] /\ <<e.name, s.entity[2]>> \in wanted
      BY <1>1, <2>1 DEF Writes, ResolvedTo
    <3> QED BY <1>2, <3>1, <3>2 DEF MemoryInv, LinksSound
  <2>2. CASE ~ \E e \in nodes : e.id = s.entity[1]
    BY <1>2, <2>2 DEF Link, MemoryInv, LinksSound
  <2> QED BY <2>1, <2>2
<1>5. Graph'
  BY <1>2 DEF MemoryInv, Graph
<1> HIDE DEF t
<1>6. Sound(Settle(t), used', dead, points, nodes', wanted) /\ Settle(t).pc # "bump"
  BY <1>3, SettleSound
<1>7. used \subseteq used' /\ used' \ used \subseteq Entities /\ \A e \in nodes' : e \in nodes
  BY <1>2
<1> QED BY <1>2, <1>4, <1>5, <1>6, <1>7, OnGraph

LEMMA ForgetEntityStep ==
  ASSUME MemoryInv, NEW c \in Clients, ForgetEntity(c)
  PROVE  MemoryInv'
<1>1. PICK e \in nodes : nodes' = nodes \ {e} /\ links' = {l \in links : l[1] # e.id}
  BY DEF ForgetEntity
<1>2. Go(c, Idle) /\ UNCHANGED <<clock, points, used, wanted, dead>>
  BY DEF ForgetEntity, Start
<1>3. Graph'
  BY <1>1, <1>2 DEF MemoryInv, Graph
<1>4. LinksSound'
  BY <1>1, <1>2 DEF MemoryInv, LinksSound
<1>5. Sound(Idle, used', dead, points, nodes', wanted) /\ Idle.pc # "bump"
  BY DEF Sound, Idle
<1> QED BY <1>1, <1>2, <1>3, <1>4, <1>5, OnGraph

LEMMA ClearGraphStep ==
  ASSUME MemoryInv, NEW c \in Clients, ClearGraph(c)
  PROVE  MemoryInv'
<1>1. Tidies(cl[c], used, points)
  BY Operation DEF ClearGraph, At
<1>2. nodes' = {} /\ links' = {} /\ Go(c, NextJob(cl[c])) /\ UNCHANGED <<clock, points, used, wanted, dead>>
  BY DEF ClearGraph
<1>3. Graph'
  BY <1>2 DEF MemoryInv, Graph
<1>4. LinksSound'
  BY <1>2 DEF LinksSound
<1>5. Sound(NextJob(cl[c]), used', dead, points, nodes', wanted) /\ NextJob(cl[c]).pc # "bump"
  BY <1>1, NextTidy
<1> QED BY <1>2, <1>3, <1>4, <1>5, OnGraph

-----------------------------------------------------------------------------
(* The steps on the points.                                                *)

LEMMA UpsertStep ==
  ASSUME MemoryInv, NEW c \in Clients, Upsert(c)
  PROVE  MemoryInv'
<1> DEFINE s == cl[c]
           item == Head(s.items)
<1>1. s.pc = "upsert" /\ s.op = "write" /\ Writes(s, used, nodes, wanted)
  BY Operation DEF Upsert, At
<1>2. PICK id \in Ids \ used :
        LET todo == {<<name, id>> : name \in Targets(item.text, s.names)}
        IN  /\ points' = Over([i \in {id} |-> Fresh(item)], points)
            /\ used' = used \cup {id} /\ wanted' = wanted \cup todo
            /\ Go(c, Settle([s EXCEPT !.items = Tail(@), !.links = @ \cup todo]))
  BY DEF Upsert
<1> DEFINE todo == {<<name, id>> : name \in Targets(item.text, s.names)}
           t == [s EXCEPT !.items = Tail(@), !.links = @ \cup todo]
<1>3. used' = used \cup {id} /\ wanted' = wanted \cup todo /\ Go(c, Settle(t))
  BY <1>2
<1>4. UNCHANGED <<clock, nodes, links, dead>>
  BY DEF Upsert
<1>5. item \in Items /\ Tail(s.items) \in Seq(Items)
  BY <1>1, HeadTailProperties DEF Writes, WriteShape
<1>6. Fresh(item) \in Memories
  BY <1>5 DEF Fresh, Items, Memories, MemoryInv, Stored
<1>7. \A l \in todo : l = <<l[1], l[2]>>
  OBVIOUS
<1> HIDE DEF item, todo
<1>8. t.op = "write" /\ WriteShape(t, wanted')
  BY <1>1, <1>3, <1>5 DEF Writes, WriteShape
<1> HIDE DEF t
<1>9. /\ DOMAIN points' = DOMAIN points \cup {id} /\ points' = [i \in DOMAIN points' |-> points'[i]]
      /\ points'[id] = Fresh(item) /\ \A i \in DOMAIN points : points'[i] = points[i]
  <2>1. id \notin DOMAIN points
    BY DEF MemoryInv, Stored
  <2>2. points' = Over([i \in {id} |-> Fresh(item)], points)
    BY <1>2 DEF item
  <2> QED BY <2>1, <2>2 DEF Over
<1>10. Stored'
  <2>1. IsFiniteSet(DOMAIN points')
    BY <1>9, FS_AddElement DEF MemoryInv, Stored
  <2>2. \A i \in DOMAIN points' : IF i \in Ids THEN points'[i] \in Memories ELSE points'[i].ns # Ours
    BY <1>6, <1>9 DEF MemoryInv, Stored
  <2> QED BY <1>3, <1>4, <1>9, <2>1, <2>2 DEF MemoryInv, Stored
<1>11. Graph'
  BY <1>3, <1>4, <1>7 DEF MemoryInv, Graph
<1>12. DeadStayDead' /\ NamespacesApart'
  BY <1>3, <1>4, <1>9 DEF MemoryInv, Stored, DeadStayDead, NamespacesApart
<1>13. \A type : Matching(points, type) \subseteq Matching(points', type)
  BY <1>9 DEF Matching
<1>14. ASSUME NEW d \in Clients \ {c}, cl[d].pc = "bump",
              NEW i \in DOMAIN cl[d].read \cap DOMAIN points'
       PROVE  cl[d].read[i].type = points'[i].type
  <2>1. Copies(cl[d].read, used, dead, points)
    BY <1>14, Operation DEF Searches
  <2> QED BY <1>9, <2>1 DEF Copies, Copy
<1>15. Sound(Settle(t), used', dead, points', nodes, wanted') /\ Settle(t).pc # "bump"
  BY <1>8, SettleSound
<1>16. used \subseteq used' /\ wanted \subseteq wanted'
  BY <1>3
<1> QED BY <1>3, <1>4, <1>10, <1>11, <1>12, <1>13, <1>14, <1>15, <1>16, OnPoints

(* The points in hand come back, as they were but for time and count, none *)
(* of them one that is dead.                                               *)
LEMMA BumpStep ==
  ASSUME MemoryInv, NEW c \in Clients, Bump(c)
  PROVE  MemoryInv'
<1> DEFINE s == cl[c]
           read == s.read
<1>1. s.pc = "bump" /\ s.op = "search" /\ Searches(s, used, dead, points)
  BY Operation DEF Bump, At
<1>2. points' = Over(read, points) /\ Go(c, Searched(s)) /\ UNCHANGED <<clock, nodes, links, used, wanted, dead>>
  BY DEF Bump
<1>3. Copies(read, used, dead, points)
  BY <1>1 DEF Searches
<1>4. /\ DOMAIN points' = DOMAIN read \cup DOMAIN points /\ points' = [i \in DOMAIN points' |-> points'[i]]
      /\ \A i \in DOMAIN read : points'[i] = read[i]
      /\ \A i \in DOMAIN points \ DOMAIN read : points'[i] = points[i]
  BY <1>2 DEF Over
<1>5. Stored'
  <2>1. IsFiniteSet(DOMAIN points')
    <3>1. IsFiniteSet(DOMAIN read) /\ IsFiniteSet(DOMAIN points)
      BY <1>3 DEF Copies, MemoryInv, Stored
    <3>2. IsFiniteSet(DOMAIN read \cup DOMAIN points)
      BY <3>1, FS_Union
    <3> QED BY <1>4, <3>2
  <2>2. \A i \in DOMAIN read : i \in Ids /\ i \in used /\ read[i] \in Memories
    BY <1>3 DEF Copies, Copy
  <2>3. \A i \in DOMAIN points' : IF i \in Ids THEN points'[i] \in Memories ELSE points'[i].ns # Ours
    BY <1>4, <2>2 DEF MemoryInv, Stored
  <2>4. DOMAIN points' \subseteq used
    BY <1>4, <2>2 DEF MemoryInv, Stored
  <2> QED BY <1>2, <1>4, <2>1, <2>3, <2>4 DEF MemoryInv, Stored
<1>6. Graph'
  BY <1>2 DEF MemoryInv, Graph
<1>7. DeadStayDead' /\ NamespacesApart'
  <2>1. DOMAIN read \subseteq Ids /\ DOMAIN read \cap dead = {}
    BY <1>3 DEF Copies
  <2>2. DeadStayDead'
    BY <1>2, <1>4, <2>1 DEF MemoryInv, DeadStayDead
  <2>3. NamespacesApart'
    BY <1>2, <1>4, <2>1 DEF MemoryInv, NamespacesApart
  <2> QED BY <2>2, <2>3
<1>8. \A type : Matching(points, type) \subseteq Matching(points', type)
  <2>1. \A i \in DOMAIN read : read[i].ns = Ours /\ (i \in DOMAIN points => read[i].type = points[i].type)
    BY <1>3 DEF Copies, Copy, Memories
  <2> QED BY <1>4, <2>1 DEF Matching
<1>9. ASSUME NEW d \in Clients \ {c}, cl[d].pc = "bump",
             NEW i \in DOMAIN cl[d].read \cap DOMAIN points'
      PROVE  cl[d].read[i].type = points'[i].type
  <2>1. CASE i \in DOMAIN read
    BY <1>1, <1>4, <1>9, <2>1 DEF MemoryInv, Agree, At
  <2>2. CASE i \notin DOMAIN read
    <3>1. Copies(cl[d].read, used, dead, points)
      BY <1>9, Operation DEF Searches
    <3> QED BY <1>4, <2>2, <3>1 DEF Copies, Copy
  <2> QED BY <2>1, <2>2
<1>10. Sound(Searched(s), used', dead, points', nodes, wanted') /\ Searched(s).pc # "bump"
  BY <1>1, SearchedSound
<1>11. used \subseteq used' /\ wanted \subseteq wanted'
  BY <1>2
<1> QED BY <1>2, <1>5, <1>6, <1>7, <1>8, <1>9, <1>10, <1>11, OnPoints

LEMMA DeleteSteps ==
  ASSUME MemoryInv, NEW c \in Clients, Erase(c) \/ Sweep(c)
  PROVE  MemoryInv'
<1>1. UNCHANGED <<clock, nodes, links, used, wanted>>
  BY DEF Erase, Sweep
<1>2. CASE Erase(c)
  <2>1. Forgets(cl[c], used) /\ cl[c].pc = "delete"
    BY <1>2, Operation DEF Erase, At
  <2>2. {cl[c].id} \subseteq Ids \cap used
    BY <2>1 DEF Forgets
  <2>3. Sound(Idle, used, dead', points', nodes, wanted) /\ Idle.pc # "bump"
    BY DEF Sound, Idle
  <2>4. Delete(c, {cl[c].id}, Idle)
    BY <1>2 DEF Erase
  <2> QED BY <1>1, <2>2, <2>3, <2>4, Deleting
<1>3. CASE Sweep(c)
  <2>1. Tidies(cl[c], used, points) /\ cl[c].pc = "remove"
    BY <1>3, Operation DEF Sweep, At
  <2>2. cl[c].out \subseteq Ids \cap used
    BY <2>1 DEF Tidies, Leaves
  <2>3. Sound(NextJob(cl[c]), used, dead', points', nodes, wanted) /\ NextJob(cl[c]).pc # "bump"
    BY <2>1, NextTidy
  <2>4. Delete(c, cl[c].out, NextJob(cl[c]))
    BY <1>3 DEF Sweep
  <2> QED BY <1>1, <2>2, <2>3, <2>4, Deleting
<1> QED BY <1>2, <1>3

-----------------------------------------------------------------------------
(* The theorems.                                                           *)

LEMMA MemoryNext == MemoryInv /\ [Next]_vars => MemoryInv'
<1> SUFFICES ASSUME MemoryInv, [Next]_vars PROVE MemoryInv'
  OBVIOUS
<1>1. CASE Tick
  BY <1>1, TickStep
<1>2. ASSUME NEW c \in Clients,
             \/ Ensure(c) \/ Create(c) \/ Fail(c)
             \/ Consolidate(c) \/ Relate(c) \/ RememberEntity(c) \/ Upsert(c) \/ Resolve(c) \/ Link(c)
             \/ Search(c) \/ Query(c) \/ Bump(c) \/ RecallGraph(c)
             \/ Forget(c) \/ Retrieve(c) \/ Erase(c) \/ ForgetEntity(c)
             \/ ClearAll(c) \/ Maintain(c) \/ Scan(c) \/ Sweep(c) \/ ClearGraph(c)
      PROVE  MemoryInv'
  <2>1. CASE Ensure(c) \/ Create(c) \/ Fail(c)
    BY <2>1, CollectionSteps, FailStep
  <2>2. CASE Consolidate(c) \/ Upsert(c) \/ Resolve(c) \/ Link(c)
    BY <2>2, ConsolidateStep, UpsertStep, ResolveStep, LinkStep
  <2>3. CASE Relate(c) \/ RememberEntity(c) \/ ForgetEntity(c) \/ ClearGraph(c)
    BY <2>3, RelateStep, RememberEntityStep, ForgetEntityStep, ClearGraphStep
  <2>4. CASE Search(c) \/ Query(c) \/ Bump(c)
    BY <2>4, SearchStep, QueryStep, BumpStep
  <2>5. CASE Forget(c) \/ Retrieve(c) \/ RecallGraph(c) \/ Erase(c)
    BY <2>5, ForgetSteps, DeleteSteps
  <2>6. CASE ClearAll(c) \/ Maintain(c) \/ Scan(c) \/ Sweep(c)
    BY <2>6, TidySteps, ScanStep, DeleteSteps
  <2> QED BY <1>2, <2>1, <2>2, <2>3, <2>4, <2>5, <2>6
<1>3. CASE UNCHANGED vars
  <2>1. UNCHANGED <<clock, points, nodes, links, cl, used, wanted, dead>>
    BY <1>3 DEF vars, stores
  <2>2. Stored' /\ Graph' /\ NamespacesApart' /\ DeadStayDead' /\ LinksSound'
    BY <2>1 DEF MemoryInv, Stored, Graph, NamespacesApart, DeadStayDead, LinksSound
  <2>3. Working' /\ Agree'
    BY <2>1 DEF MemoryInv, Working, Agree, At
  <2> QED BY <2>2, <2>3 DEF MemoryInv
<1> QED BY <1>1, <1>2, <1>3 DEF Next

(* A writer, a recall, a deletion of one memory and a clean-up only ever   *)
(* hold ids of ours, and an entity once resolved keeps its name: the       *)
(* invariant of QdrantMemoryStore, Neo4jStore and of those who use them.   *)
THEOREM MemoryInvariant == Spec => []MemoryInv
<1> QED BY MemoryInit, MemoryNext, PTL DEF Spec

(* No operation of a MemoryManager changes or deletes a memory of another  *)
(* namespace in the shared collection (_build_filter, delete).             *)
THEOREM NamespacesApartCorrect == Spec => []NamespacesApart
<1>1. MemoryInv => NamespacesApart
  BY DEF MemoryInv
<1> QED BY <1>1, MemoryInvariant, PTL

(* A memory deleted while no recall had it in hand never comes back:       *)
(* _search is the only one that writes old points, and an id is given once.*)
THEOREM DeadStayDeadCorrect == Spec => []DeadStayDead
<1>1. MemoryInv => DeadStayDead
  BY DEF MemoryInv
<1> QED BY <1>1, MemoryInvariant, PTL

(* A link joins an entity that is there to a memory an extraction said was *)
(* about that name (_link_vectors_to_entities, link_memory).               *)
THEOREM LinksSoundCorrect == Spec => []LinksSound
<1>1. MemoryInv => LinksSound
  BY DEF MemoryInv
<1> QED BY <1>1, MemoryInvariant, PTL

(* capacity_evict leaves max_items of its kind, whatever was written while *)
(* it scanned, unless another deletion came in between; the order it goes  *)
(* by leaves no two memories equal, so it never takes one too many.        *)
THEOREM OverflowOnlyCorrect == Spec => []OverflowOnly
<1>1. MemoryInv => OverflowOnly
  <2> SUFFICES ASSUME MemoryInv, NEW c \in Clients, cl[c].pc = "remove",
                      Head(cl[c].jobs).kind = "capacity", cl[c].alone
               PROVE  Cardinality(Match(Head(cl[c].jobs).type) \ cl[c].out) >= MaxItems
    BY DEF OverflowOnly, At, Job
  <2>1. Leaves(cl[c], used, points)
    BY Operation DEF Tidies
  <2> QED BY <2>1, OursIn DEF Leaves
<1> QED BY <1>1, MemoryInvariant, PTL

=============================================================================
