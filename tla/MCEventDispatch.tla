---------------------------- MODULE MCEventDispatch ----------------------------
(* Instances of EventDispatch for TLC: two deliveries of one event with all    *)
(* that may go wrong, or two of one event and one of another of the same       *)
(* session with one mishap.                                                    *)
EXTENDS EventDispatch

CONSTANTS d1, d2, d3, e1, e2, s1, p1, p2

OneSession == [e \in {e1, e2} |-> s1]
Same == [d \in {d1, d2, d3} |-> IF d = d3 THEN None ELSE e1]
Mixed == [d \in {d1, d2, d3} |-> IF d = d3 THEN e2 ELSE e1]
Each(m) == [k \in Kinds |-> m]

Watched == [host: {"serve", "embed"}, event: {Same}, max: {Each(1)}, total: {5}]
           \cup [host: {"serve", "embed"}, event: {Mixed}, max: {Each(1)}, total: {1}]
================================================================================
