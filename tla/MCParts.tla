------------------------------ MODULE MCParts ------------------------------
(* Parts that share no state: each behaviour is about one of them, chosen  *)
(* at the start, and the others stay at rest.                              *)
EXTENDS ModelTurn, ChatHistory, Splitter, WeCom, Knowledge, Consolidation

VARIABLE about

MCBlocks == {[level |-> l, weights |-> <<>>] : l \in 1..2}
            \union {[level |-> 0, weights |-> w] : w \in {<<1>>, <<3>>, <<1, 3>>, <<2, 2, 2>>, <<6>>}}

\* Two files of one name in two directories, and an empty one.
MCFileName == [f \in Files |-> IF f = "empty" THEN "n" ELSE "m"]
MCChunks == [f \in Files |-> CASE f = "a" -> 2 [] f = "b" -> 1 [] OTHER -> 0]
MCLines == {<<>>, <<"v", "q">>, <<"v", "v", "q">>}
MCScore == [q \in {"q", "v"} |-> [f \in Files |-> [i \in 1..2 |->
              IF f = "b" THEN 2 ELSE IF q = "q" THEN 2 * i - 1 ELSE 5 - 2 * i]]]

MCKinds == {k \in [Msgs -> {"text", "other"}] : k["a"] = "text"}

OneEach == [k \in Incidents |-> 1]

AtRest ==
    /\ about # "turn" => /\ message = [text |-> FALSE, calls |-> <<>>] /\ sent = <<>> /\ text = FALSE
                         /\ buffers = <<>> /\ finish = "none" /\ turn = NoTurn
    /\ about # "history" => rows = <<>> /\ thoughts = FALSE /\ at = 0 /\ bubbles = <<>> /\ ths = <<>> /\ tls = <<>>
    /\ about # "splitter" => doc = <<>> /\ chunks = <<>>
    /\ about # "wecom" => /\ viaQueue = FALSE /\ kind = <<>> /\ seen = <<>> /\ tasks = <<>> /\ since = <<>>
                          /\ cache = [tok |-> 0, fresh |-> FALSE] /\ valid = 1
    /\ about # "knowledge" => /\ coll = {} /\ dropped = 0 /\ removed = 0 /\ search = NoSearch
                              /\ host = [b \in Starts |-> [st |-> "off"]]

\* The consolidation is at rest as it is initially.
MCInit == /\ Init
          /\ \/ about = "turn" /\ MTInit /\ AtRest
             \/ about = "history" /\ CHInit /\ AtRest
             \/ about = "splitter" /\ SPInit /\ AtRest
             \/ about = "wecom" /\ WCInit /\ AtRest
             \/ about = "knowledge" /\ KBInit /\ AtRest
             \/ about = "consolidation" /\ AtRest

allVars == <<about, mtVars, chVars, spVars, wcVars, kbVars, vars>>

MCNext ==
    \/ about = "turn" /\ MTNext /\ UNCHANGED <<about, chVars, spVars, wcVars, kbVars, vars>>
    \/ about = "history" /\ CHNext /\ UNCHANGED <<about, mtVars, spVars, wcVars, kbVars, vars>>
    \/ about = "splitter" /\ SPNext /\ UNCHANGED <<about, mtVars, chVars, wcVars, kbVars, vars>>
    \/ about = "wecom" /\ WCNext /\ UNCHANGED <<about, mtVars, chVars, spVars, kbVars, vars>>
    \/ about = "knowledge" /\ KBNext /\ UNCHANGED <<about, mtVars, chVars, spVars, wcVars, vars>>
    \/ about = "consolidation" /\ Next /\ UNCHANGED <<about, mtVars, chVars, spVars, wcVars, kbVars>>

MCSpec == MCInit /\ [][MCNext]_allVars

=============================================================================
