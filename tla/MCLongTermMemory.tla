-------------------------- MODULE MCLongTermMemory --------------------------
EXTENDS LongTermMemory

CONSTANTS a, b

MCDim == [c \in Clients |-> 1]
MCAbout ==
  [x |-> [kind |-> "case", outcome |-> "success", satisfied |-> "unknown", lesson |-> TRUE],
   y |-> [kind |-> "rule", confidence |-> "high"], z |-> [kind |-> "plain"]]
MCMentions == [x |-> {a}, y |-> {}, z |-> {a}]
Item(type, text) == [type |-> type, text |-> text]
MCExtractions ==
  {[rels |-> <<[from |-> a, to |-> b]>>, items |-> <<Item("episodic", "z")>>, strict |-> TRUE],
   [rels |-> <<>>, items |-> <<Item("episodic", "x"), Item("semantic", "y")>>, strict |-> FALSE]}

Symmetry == Permutations(Clients)

Point(ns, last) ==
  [ns |-> ns, type |-> "episodic", text |-> "x", made |-> 0, last |-> last, count |-> 0]
MCExisting ==
  {[coll |-> None, points |-> <<>>], [coll |-> 2, points |-> <<>>],
   [coll |-> 1, points |-> (1 :> Point("ours", 0)) @@ (2 :> Point("ours", 2))
                            @@ (6 :> Point("other", 0))]}
=============================================================================
