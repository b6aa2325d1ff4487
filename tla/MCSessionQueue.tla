--------------------------- MODULE MCSessionQueue ---------------------------
(* Small instances of SessionQueue: two processes, two messages,           *)
(* and a choice of incidents.                                              *)
EXTENDS SessionQueue, TLC

CONSTANTS m1, m2, p1, p2

TwoMsgs == {m1, m2}
TwoProcs == {p1, p2}

Incidents(crash, stop, fault, long) ==
  "crash" :> crash @@ "stop" :> stop @@ "fault" :> fault @@ "long" :> long
NoIncident == Incidents(0, 0, 0, 0)
TwoMishaps == Incidents(1, 1, 0, 0)
OneEach == Incidents(1, 1, 1, 1)

Sym == Permutations(TwoProcs)
=============================================================================
