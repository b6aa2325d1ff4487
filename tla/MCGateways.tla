----------------------------- MODULE MCGateways -----------------------------
(* The life of the process and the calls that leave it.  These parts share *)
(* no state: each behaviour is about one of them, chosen at the start, and *)
(* the others stay at rest.                                                *)
EXTENDS Service, A2A, CallerToken

VARIABLE about

\* Two jobs of one WeCom session, the second without a token, and a chat.
MCGiven == [r \in Callers |-> CASE r = "chat" -> <<Blank, "hers">> [] r = "first" -> <<"his", "other">>
                             [] OTHER -> <<Blank, NoToken>>]
MCTaskOf == [r \in Callers |-> IF r = "chat" THEN "request" ELSE "consumer"]

AtRest ==
    /\ about # "a2a" => /\ call = "none" /\ remote = "none" /\ wire = <<>> /\ got = <<>>
                        /\ lost = FALSE /\ shown = "none" /\ outcome = NoOutcome
    /\ about # "token" => stage = [r \in Callers |-> "over"] /\ posted = {} /\ received = {} /\ scope = <<>>
                          /\ bearer = [t \in Tasks |-> NoToken]

\* The process is at rest as it is initially: no call of a run has begun, and nothing is
\* owed to one.
MCInit == /\ Init
          /\ \/ about = "service" /\ AtRest
             \/ about = "a2a" /\ A2Init /\ AtRest
             \/ about = "token" /\ CTInit /\ AtRest

allVars == <<about, vars, a2Vars, ctVars>>

MCNext ==
    \/ about = "service" /\ Next /\ UNCHANGED <<about, a2Vars, ctVars>>
    \/ about = "a2a" /\ A2Next /\ UNCHANGED <<about, vars, ctVars>>
    \/ about = "token" /\ CTNext /\ UNCHANGED <<about, vars, a2Vars>>

MCSpec == MCInit /\ [][MCNext]_allVars /\ Fairness

=============================================================================
