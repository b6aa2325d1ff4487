--------------------------- MODULE LongTermMemory ---------------------------
(***************************************************************************)
(* Long-term memory: episodic and semantic memories as points of one       *)
(* Qdrant collection, associative memory as a graph of entities in Neo4j,  *)
(* which refers to the points, and the operations of MemoryManager on      *)
(* both.  A client is a coroutine of any process, in the middle of one     *)
(* operation; every request to a store is a step, so whatever was read     *)
(* may be old when it is used.                                             *)
(*                                                                         *)
(* Qdrant and Neo4j are external: a request is atomic, a scroll goes by    *)
(* pages in the order of the ids, and creating a collection that exists    *)
(* is refused.                                                             *)
(***************************************************************************)
EXTENDS Integers, FiniteSets, SequencesExt

CONSTANTS
  Clients,
  Ids,         \* of points of ours, in the order of a scroll; bound: memories
  Entities,    \* ids of entities; bound: entities
  Names,       \* of entities
  About,       \* what each text is: a case, a rule or a plain sentence
  Mentions,    \* the names each text contains
  Ours,        \* the namespace of the managers
  None,
  Dim,         \* the size of each client's embeddings
  Extractions, \* what a model may extract: [rels, items, strict]
  Existing,    \* the stores at the start: [coll, points]
  Ttl, MaxItems, TopK,
  Page,        \* points of one page of a scroll
  MaxTime,     \* bound: the clock
  MaxOps,      \* bound: operations
  MaxFaults    \* bound: requests that fail

Types == <<"episodic", "semantic">>

Items == [type : Range(Types), text : DOMAIN About]
Extracted == [rels : Seq([from : Names, to : Names]), items : Seq(Items), strict : BOOLEAN]
Memories == [ns : {Ours}, type : Range(Types), text : DOMAIN About, made : Int, last : Int, count : Int]

(* What is in the collection at the start and not ours is another's, and   *)
(* the same in whichever of the stores it is.                              *)
ASSUME LongTermAssumption ==
  /\ Ids \subseteq Int /\ Ids \cap Entities = {}
  /\ {MaxItems, MaxTime, Ttl, TopK, Page} \subseteq Nat
  /\ \A t \in DOMAIN About : About[t].kind = "rule" => About[t].confidence \in {"low", "medium", "high"}
  /\ \A t \in DOMAIN Mentions : Mentions[t] \subseteq Names
  /\ Extractions \subseteq Extracted
  /\ \A s \in Existing :
       /\ s.points = [id \in DOMAIN s.points |-> s.points[id]]
       /\ IsFiniteSet(DOMAIN s.points) /\ DOMAIN s.points \cap Entities = {}
       /\ \A id \in DOMAIN s.points \cap Ids : s.points[id] \in Memories
       /\ \A id \in DOMAIN s.points \ Ids :
            s.points[id].ns # Ours
            /\ \A t \in Existing : id \in DOMAIN t.points => t.points[id] = s.points[id]

Idle == [op |-> "none", pc |-> "idle"]

VARIABLES
  clock,
  coll,    \* the vector size of the collection, None before there is one
  points,  \* id -> [ns, type, text, made, last, count]
  nodes,   \* entities: [id, name]
  edges,   \* RELATES_TO
  refs,    \* MemoryRef nodes, by the point they refer to
  links,   \* HAS_MEMORY: <<entity, point>>
  cl,      \* per client: the operation it is in
  ops,     \* operations so far
  faults,
  used,    \* history: ids given away; an id is a UUID, given once
  wanted,  \* history: links the extractions called for
  dead     \* history: points deleted while no recall held them

stores == <<coll, points, nodes, edges, refs, links>>
vars == <<clock, stores, cl, ops, faults, used, wanted, dead>>

Init ==
  /\ clock = MaxTime - 1
  /\ \E s \in Existing : coll = s.coll /\ points = s.points
  /\ nodes = {} /\ edges = {} /\ refs = {} /\ links = {}
  /\ cl = [c \in Clients |-> Idle]
  /\ ops = 0 /\ faults = 0 /\ wanted = {} /\ dead = {}
  /\ used = DOMAIN points

At(c, pc) == cl[c].pc = pc
Go(c, s) == cl' = [cl EXCEPT ![c] = s]
Start(c, s) == At(c, "idle") /\ ops < MaxOps /\ ops' = ops + 1 /\ Go(c, s)

(* _build_filter                                                           *)
Match(type) ==
  {id \in DOMAIN points : points[id].ns = Ours /\ points[id].type = type}

Without(ids) == Restrict(points, DOMAIN points \ ids)
Over(f, g) == [id \in DOMAIN f \cup DOMAIN g |-> IF id \in DOMAIN f THEN f[id] ELSE g[id]]

-----------------------------------------------------------------------------
(* The collection, made by whoever first needs it.                         *)

(* _ensure_collection; a size once found right stays right.                *)
Ensure(c) ==
  /\ At(c, "ensure") /\ coll \in {None, Dim[c]}
  /\ Go(c, [cl[c] EXCEPT !.pc = IF coll = None THEN "create" ELSE cl[c].after])
  /\ UNCHANGED <<clock, stores, ops, faults, used, wanted, dead>>

Create(c) ==
  /\ At(c, "create") /\ coll = None /\ coll' = Dim[c]
  /\ Go(c, [cl[c] EXCEPT !.pc = cl[c].after])
  /\ UNCHANGED <<clock, points, nodes, edges, refs, links, ops, faults, used, wanted, dead>>

-----------------------------------------------------------------------------
(* Writing: what a consolidation extracted, relations first, then          *)
(* memories, then the links between the two.                               *)

Settle(s) ==
  IF s.rels # <<>> THEN [s EXCEPT !.pc = "relate"]
  ELSE IF s.items # <<>> THEN [s EXCEPT !.pc = "ensure"]
  ELSE IF s.links # {} THEN [s EXCEPT !.pc = "resolve"]
  ELSE Idle

(* apply_extraction, of MemoryConsolidator (strict: a memory that cannot   *)
(* be written ends it) and of MemoryBatchConsolidator (no relations, and a *)
(* failure is noted); one remember of a user's is an extraction of one.    *)
Consolidate(c) ==
  /\ \E x \in Extractions :
       Start(c, Settle([op |-> "write", pc |-> "", after |-> "upsert", strict |-> x.strict,
                        rels |-> x.rels, items |-> x.items, names |-> {},
                        links |-> {}, entity |-> None]))
  /\ UNCHANGED <<clock, stores, faults, used, wanted, dead>>

Named(name) == {e \in nodes : e.name = name}
NewId == CHOOSE e \in Entities \ used : TRUE
OtherId == CHOOSE e \in Entities \ (used \cup {NewId}) : TRUE

(* relate: MERGE of both entities and of the edge.                         *)
Relate(c) ==
  /\ At(c, "relate") /\ \E x, y \in Entities \ used : x # y
  /\ LET r   == Head(cl[c].rels)
         Id(name) == IF name = r.from THEN NewId ELSE OtherId
         new == {[id |-> Id(name), name |-> name] :
                   name \in {m \in {r.from, r.to} : Named(m) = {}}}
     IN  /\ nodes' = nodes \cup new /\ used' = used \cup {e.id : e \in new}
         /\ edges' = edges \cup {<<x.id, y.id>> : x \in {e \in nodes' : e.name = r.from},
                                                  y \in {e \in nodes' : e.name = r.to}}
         /\ Go(c, Settle([cl[c] EXCEPT !.rels = Tail(@), !.names = @ \cup {r.from, r.to}]))
  /\ UNCHANGED <<clock, coll, points, refs, links, ops, faults, wanted, dead>>

(* upsert_entity: MERGE of one entity.                                     *)
RememberEntity(c) ==
  /\ Entities \ used # {} /\ Start(c, Idle)
  /\ \E name \in Names :
       /\ Named(name) = {} /\ nodes' = nodes \cup {[id |-> NewId, name |-> name]}
       /\ used' = used \cup {NewId}
  /\ UNCHANGED <<clock, coll, points, edges, refs, links, faults, wanted, dead>>

(* The entities a memory is linked to: those it mentions, or else all.     *)
Targets(text, names) ==
  IF Mentions[text] \cap names # {} THEN Mentions[text] \cap names ELSE names

(* The importance a memory is written with.                                *)
Weight(text) ==
  LET x == About[text]
  IN  CASE x.kind = "case" -> IF x.satisfied = "no" \/ x.outcome = "failed" THEN 70
                              ELSE IF x.outcome = "success" /\ x.lesson THEN 50 ELSE 30
        [] x.kind = "rule" -> [low |-> 40, medium |-> 55, high |-> 75][x.confidence]
        [] OTHER -> 0

Fresh(item) ==
  [ns |-> Ours, type |-> item.type, text |-> item.text,
   made |-> clock, last |-> clock, count |-> 0]

(* _upsert of a new memory, under a new id.                                *)
Upsert(c) ==
  /\ At(c, "upsert")
  /\ \E id \in Ids \ used :
       LET item == Head(cl[c].items)
           todo == {<<name, id>> : name \in Targets(item.text, cl[c].names)}
       IN  /\ points' = Over([i \in {id} |-> Fresh(item)], points)
           /\ used' = used \cup {id} /\ wanted' = wanted \cup todo
           /\ Go(c, Settle([cl[c] EXCEPT !.items = Tail(@), !.links = @ \cup todo]))
  /\ UNCHANGED <<clock, coll, nodes, edges, refs, links, ops, faults, dead>>

(* _resolve_entity_id: the id a name has now.                              *)
Resolve(c) ==
  /\ At(c, "resolve")
  /\ \E todo \in cl[c].links :
       Go(c, IF Named(todo[1]) = {} THEN Settle([cl[c] EXCEPT !.links = @ \ {todo}])
             ELSE [cl[c] EXCEPT !.pc = "link", !.links = @ \ {todo},
                     !.entity = <<(CHOOSE e \in Named(todo[1]) : TRUE).id, todo[2]>>])
  /\ UNCHANGED <<clock, stores, ops, faults, used, wanted, dead>>

(* Mutant: the entity is taken for there and not matched.                  *)
LinkUnmatched(c) ==
  /\ At(c, "link")
  /\ refs' = refs \cup {cl[c].entity[2]} /\ links' = links \cup {cl[c].entity}
  /\ Go(c, Settle(cl[c]))
  /\ UNCHANGED <<clock, coll, points, nodes, edges, ops, faults, used, wanted, dead>>

(* link_memory: an entity that is gone is not matched; that there is no    *)
(* row then raises in link_memory, and the consolidator skips the link.    *)
Link(c) ==
  /\ At(c, "link")
  /\ IF \E e \in nodes : e.id = cl[c].entity[1]
       THEN refs' = refs \cup {cl[c].entity[2]} /\ links' = links \cup {cl[c].entity}
       ELSE UNCHANGED <<refs, links>>
  /\ Go(c, Settle([cl[c] EXCEPT !.entity = None]))
  /\ UNCHANGED <<clock, coll, points, nodes, edges, ops, faults, used, wanted, dead>>

-----------------------------------------------------------------------------
(* Reading: recall_for_context.                                            *)

(* Both kinds of memory, then the graph, if the provider's flag says so;   *)
(* it is the flag of all searches, so another may have set it meanwhile.   *)
Search(c) ==
  /\ Start(c, [op |-> "search", pc |-> "ensure", after |-> "query", types |-> Types,
               read |-> <<>>])
  /\ UNCHANGED <<clock, stores, faults, used, wanted, dead>>

Searched(s) ==
  IF Len(s.types) > 1 THEN [s EXCEPT !.pc = "query", !.types = Tail(@), !.read = <<>>]
  ELSE [s EXCEPT !.pc = "graph", !.types = <<>>, !.read = <<>>]

(* Mutant: the hits of both kinds are written back at the end.             *)
QueryLater(c) ==
  /\ At(c, "query")
  /\ \E hits \in SUBSET Match(Head(cl[c].types)) :
       /\ Cardinality(hits) <= 2 * TopK
       /\ LET bumped == [id \in hits |-> [points[id] EXCEPT !.last = clock, !.count = @ + 1]]
              read == Over(cl[c].read, bumped)
          IN  Go(c, IF Len(cl[c].types) > 1 \/ DOMAIN read = {}
                      THEN [Searched(cl[c]) EXCEPT !.read = read]
                    ELSE [cl[c] EXCEPT !.pc = "bump", !.read = read])
  /\ UNCHANGED <<clock, stores, ops, faults, used, wanted, dead>>

(* _search: the hits, at most twice TopK of them when two kinds are asked, *)
(* with their new time and count ...                                       *)
Query(c) ==
  /\ At(c, "query")
  /\ \E hits \in SUBSET Match(Head(cl[c].types)) :
       /\ Cardinality(hits) <= 2 * TopK
       /\ LET bumped == [id \in hits |-> [points[id] EXCEPT !.last = clock, !.count = @ + 1]]
          IN  Go(c, IF hits = {} THEN Searched(cl[c])
                    ELSE [cl[c] EXCEPT !.pc = "bump", !.read = bumped])
  /\ UNCHANGED <<clock, stores, ops, faults, used, wanted, dead>>

(* ... and the upsert that writes the whole points back.                   *)
Bump(c) ==
  /\ At(c, "bump") /\ points' = Over(cl[c].read, points)
  /\ Go(c, Searched(cl[c]))
  /\ UNCHANGED <<clock, coll, nodes, edges, refs, links, ops, faults, used, wanted, dead>>

(* recall_neighbors: reads only.                                           *)
RecallGraph(c) ==
  /\ At(c, "graph") /\ Go(c, Idle)
  /\ UNCHANGED <<clock, stores, ops, faults, used, wanted, dead>>

-----------------------------------------------------------------------------
(* Deleting.                                                               *)

Held(id) == \E c \in Clients : At(c, "bump") /\ id \in DOMAIN cl[c].read

(* What a deletion leaves behind: the points in dead are deleted for good, *)
(* and a scan that has begun has been overtaken.                           *)
Delete(c, ids, s) ==
  /\ points' = Without(ids) /\ dead' = dead \cup {id \in ids : ~Held(id)}
  /\ cl' = [d \in Clients |->
              IF d = c THEN s
              ELSE IF cl[d].op = "tidy" THEN [cl[d] EXCEPT !.alone = FALSE] ELSE cl[d]]

(* Mutant: the namespace of the point is not looked at.                    *)
RetrieveAny(c) ==
  /\ At(c, "retrieve") /\ Go(c, IF cl[c].id \in DOMAIN points THEN [cl[c] EXCEPT !.pc = "delete"] ELSE Idle)
  /\ UNCHANGED <<clock, stores, ops, faults, used, wanted, dead>>

(* forget, a point: retrieved first, for its namespace.                    *)
Forget(c) ==
  /\ \E id \in used \ Entities : Start(c, [op |-> "forget", pc |-> "retrieve", id |-> id])
  /\ UNCHANGED <<clock, stores, faults, used, wanted, dead>>
Retrieve(c) ==
  /\ At(c, "retrieve")
  /\ Go(c, IF cl[c].id \in DOMAIN points /\ points[cl[c].id].ns = Ours
             THEN [cl[c] EXCEPT !.pc = "delete"] ELSE Idle)
  /\ UNCHANGED <<clock, stores, ops, faults, used, wanted, dead>>
Erase(c) ==
  /\ At(c, "delete") /\ Delete(c, {cl[c].id}, Idle)
  /\ UNCHANGED <<clock, coll, nodes, edges, refs, links, ops, faults, used, wanted>>

(* forget, an entity, with its edges; what it referred to stays a node.    *)
ForgetEntity(c) ==
  /\ \E e \in nodes :
       /\ nodes' = nodes \ {e}
       /\ edges' = {r \in edges : e.id \notin {r[1], r[2]}}
       /\ links' = {l \in links : l[1] # e.id}
  /\ Start(c, Idle)
  /\ UNCHANGED <<clock, coll, points, refs, faults, used, wanted, dead>>

(* One job after the other: a scan of one kind and what follows from it.   *)
Jobs(kinds, type) == [i \in DOMAIN kinds |-> [kind |-> kinds[i], type |-> type]]
Job(c) == Head(cl[c].jobs)
NextJob(s) ==
  IF Len(s.jobs) < 2 THEN Idle
  ELSE [s EXCEPT !.pc = IF s.jobs[2].kind = "graph" THEN "clear" ELSE "scan",
                 !.jobs = Tail(@), !.from = 0, !.got = <<>>, !.out = {}, !.alone = TRUE]
Tidy(c, jobs) ==
  Start(c, NextJob([op |-> "tidy", pc |-> "", jobs |-> <<None>> \o jobs, now |-> clock,
                    from |-> 0, got |-> <<>>, out |-> {}, alone |-> TRUE]))

(* clear_all, of one kind or of everything.                                *)
ClearAll(c) ==
  /\ \E jobs \in {Jobs(<<"clear">>, "episodic"),
                  Jobs(<<"clear">>, "episodic") \o Jobs(<<"clear", "graph">>, "semantic")} :
       Tidy(c, jobs)
  /\ UNCHANGED <<clock, stores, faults, used, wanted, dead>>

(* run_maintenance: TTLBasedPolicy of one kind, then of the other.         *)
Maintain(c) ==
  /\ Tidy(c, Jobs(<<"ttl", "capacity">>, "episodic") \o Jobs(<<"ttl", "capacity">>, "semantic"))
  /\ UNCHANGED <<clock, stores, faults, used, wanted, dead>>

(* The key of capacity_evict: importance, last access, count, creation,    *)
(* and for equal keys the order of the scroll.                             *)
Before(got, a, b) ==
  LET Key(id) == <<Weight(got[id].text), got[id].last, got[id].count, got[id].made, id>>
  IN  \E k \in 1..5 : Key(a)[k] < Key(b)[k] /\ \A j \in 1 .. k - 1 : Key(a)[j] = Key(b)[j]

(* Mutant: the overflow is counted one too high.                           *)
VictimsMore(s, got) ==
  {id \in DOMAIN got :
     CASE Head(s.jobs).kind = "clear" -> TRUE
       [] Head(s.jobs).kind = "ttl" -> got[id].last < s.now - Ttl
       [] OTHER -> Cardinality({b \in DOMAIN got : Before(got, b, id)})
                     <= Cardinality(DOMAIN got) - MaxItems}

(* clear_namespace, ttl_evict and capacity_evict: what goes of what was    *)
(* scanned.                                                                *)
Victims(s, got) ==
  {id \in DOMAIN got :
     CASE Head(s.jobs).kind = "clear" -> TRUE
       [] Head(s.jobs).kind = "ttl" -> got[id].last < s.now - Ttl
       [] OTHER -> Cardinality({b \in DOMAIN got : Before(got, b, id)})
                     < Cardinality(DOMAIN got) - MaxItems}

(* _scroll_all, a page at a time.                                          *)
Scan(c) ==
  /\ At(c, "scan")
  /\ LET s    == cl[c]
         rest == {id \in Match(Job(c).type) : id > s.from}
         page == {id \in rest : Cardinality({b \in rest : b < id}) < Page}
         got  == Over(s.got, Restrict(points, page))
         out  == Victims(s, got)
     IN  Go(c, IF page # rest
                 THEN [s EXCEPT !.got = got, !.from = CHOOSE m \in page : \A b \in page : b <= m]
               ELSE IF out = {} THEN NextJob(s)
               ELSE [s EXCEPT !.pc = "remove", !.got = <<>>, !.out = out])
  /\ UNCHANGED <<clock, stores, ops, faults, used, wanted, dead>>

Sweep(c) ==
  /\ At(c, "remove") /\ Delete(c, cl[c].out, NextJob(cl[c]))
  /\ UNCHANGED <<clock, coll, nodes, edges, refs, links, ops, faults, used, wanted>>

(* clear_namespace of the graph.                                           *)
ClearGraph(c) ==
  /\ At(c, "clear") /\ nodes' = {} /\ edges' = {} /\ refs' = {} /\ links' = {}
  /\ Go(c, NextJob(cl[c]))
  /\ UNCHANGED <<clock, coll, points, ops, faults, used, wanted, dead>>

-----------------------------------------------------------------------------
(* An exception: the stores are out of reach, the collection is there or   *)
(* has another size.                                                       *)

Failed(s) ==
  IF s.op = "write" /\ s.pc = "relate" THEN Settle([s EXCEPT !.rels = Tail(@)])
  ELSE IF s.op = "write" /\ s.pc = "link" THEN Settle([s EXCEPT !.entity = None])
  ELSE IF s.op = "write" /\ ~s.strict /\ s.items # <<>> THEN Settle([s EXCEPT !.items = Tail(@)])
  ELSE IF s.op = "search" /\ s.pc # "graph" THEN [s EXCEPT !.pc = "graph", !.types = <<>>, !.read = <<>>]
  ELSE Idle

Refused(c) ==
  \/ At(c, "ensure") /\ coll \notin {None, Dim[c]}
  \/ At(c, "create") /\ coll # None

Fail(c) ==
  /\ \/ Refused(c) /\ UNCHANGED faults
     \/ ~At(c, "idle") /\ faults < MaxFaults /\ faults' = faults + 1
  /\ Go(c, Failed(cl[c]))
  /\ UNCHANGED <<clock, stores, ops, used, wanted, dead>>

Tick ==
  /\ clock < MaxTime /\ clock' = clock + 1
  /\ UNCHANGED <<stores, cl, ops, faults, used, wanted, dead>>

Next ==
  \/ Tick
  \/ \E c \in Clients :
       \/ Ensure(c) \/ Create(c) \/ Fail(c)
       \/ Consolidate(c) \/ Relate(c) \/ RememberEntity(c) \/ Upsert(c) \/ Resolve(c) \/ Link(c)
       \/ Search(c) \/ Query(c) \/ Bump(c) \/ RecallGraph(c)
       \/ Forget(c) \/ Retrieve(c) \/ Erase(c) \/ ForgetEntity(c)
       \/ ClearAll(c) \/ Maintain(c) \/ Scan(c) \/ Sweep(c) \/ ClearGraph(c)

Spec == Init /\ [][Next]_vars

-----------------------------------------------------------------------------
(* Properties.                                                             *)

(* Nothing a manager does, a recall that writes points back included,      *)
(* changes or deletes a memory of another namespace (_build_filter, and    *)
(* the check in delete).                                                   *)
NamespacesApart ==
  \A s \in Existing : \A id \in (DOMAIN s.points \cap used) \ Ids :
    id \in DOMAIN points /\ points[id] = s.points[id]

(* A memory that was deleted while no recall had it in hand stays deleted  *)
(* (a recall in hand writes it back: _search upserts whole points).        *)
DeadStayDead == dead \cap DOMAIN points = {}

(* A capacity eviction that no other deletion has overtaken leaves at      *)
(* least max_items of its kind, however many were written or recalled      *)
(* since its scan (capacity_evict).                                        *)
OverflowOnly ==
  \A c \in Clients :
    At(c, "remove") /\ Job(c).kind = "capacity" /\ cl[c].alone =>
      Cardinality(Match(Job(c).type) \ cl[c].out) >= MaxItems

(* A link of the graph joins an entity that is there to a memory of which  *)
(* an extraction said that it is about that very name, whatever entities   *)
(* were deleted and made again between the look-up and the link            *)
(* (_link_vectors_to_entities, link_memory).                               *)
LinksSound ==
  \A l \in links : \E e \in nodes : e.id = l[1] /\ <<e.name, l[2]>> \in wanted

=============================================================================
