-------------------------- MODULE EventDispatchProofs --------------------------
(* ExclusiveWork, and that EventDispatch implements EventOnce, for any number  *)
(* of deliveries, events, sessions and processes, in Serve or embedded, and    *)
(* any number of incidents.                                                    *)
EXTENDS EventDispatch, TLAPS, FiniteSetTheorems

(* Types, as far as the proof needs them: a delivery that has arrived has a    *)
(* process and an event.                                                       *)
Shaped ==
  /\ inst \in Installations
  /\ pc = [d \in Dels |-> pc[d]]
  /\ at \in [Dels -> Procs \cup {None}]
  /\ inflight \in [Procs -> [Events -> Dels \cup {None}]]
  /\ gate \in [Sessions -> Dels \cup {None}]
  /\ n \in [Kinds -> Nat]
Placed == \A d \in Dels : pc[d] # "new" => at[d] \in Procs /\ EventOf[d] \in Events

(* Who runs the agent, or is about to delete the gate it has compared, is the  *)
(* holder of the gate: SessionSerial alone does not say who may delete it.     *)
GateHeld ==
  n["lapse"] = 0 =>
    \A d \in Dels : pc[d] \in {"run", "delete"} => gate[Session(d)] = d

WorkInv == Shaped /\ Placed /\ ClaimsOwned /\ GateHeld

--------------------------------------------------------------------------------
LEMMA Installed ==
  ASSUME Shaped, NEW d \in Dels
  PROVE  /\ EventOf[d] \in Events \cup {None}
         /\ EventOf[d] \in Events => Session(d) \in Sessions
BY EventAssumption DEF Shaped, EventOf, Session

LEMMA Counted ==
  ASSUME Shaped, NEW k \in Kinds, Count(k)
  PROVE  /\ n' \in [Kinds -> Nat] /\ n'[k] # 0
         /\ \A j \in Kinds : n'[j] = 0 => n[j] = 0
BY DEF Shaped, Count

LEMMA Ends ==
  /\ Left \notin Claiming \cup {"new", "run", "delete"}
  /\ \A d \in Dels : AfterGate(d) \in Claiming \ {"run", "delete"}
BY DEF Left, Claiming, AfterGate

LEMMA WorkInit == Init => WorkInv
<1> SUFFICES ASSUME Init PROVE WorkInv
  OBVIOUS
<1>1. Shaped
  BY DEF Init, Shaped
<1>2. Placed /\ GateHeld
  BY DEF Init, Placed, GateHeld
<1>3. ClaimsOwned
  BY DEF Init, ClaimsOwned, Claiming
<1> QED BY <1>1, <1>2, <1>3 DEF WorkInv

(* What a step owes the invariant that moves one delivery, leaves the claims   *)
(* and may take or give up the gate for it.                                    *)
GateStep(d) ==
  LET s == Session(d) IN
  \/ gate' = gate
  \/ gate[s] = None /\ gate' = [gate EXCEPT ![s] = d]
  \/ (n["lapse"] = 0 => gate[s] = d) /\ gate' = [gate EXCEPT ![s] = None]

LEMMA Moves ==
  ASSUME WorkInv, NEW d \in Dels, NEW l, Goto(d, l), pc[d] # "new", l # "new",
         UNCHANGED <<inst, inflight, at>>,
         n' \in [Kinds -> Nat], \A j \in Kinds : n'[j] = 0 => n[j] = 0,
         l \in Claiming => pc[d] \in Claiming,
         pc[d] \in Claiming /\ n'["cancel"] = 0 => l \in Claiming,
         GateStep(d),
         n'["lapse"] = 0 /\ l \in {"run", "delete"} => gate'[Session(d)] = d
  PROVE  WorkInv'
<1>1. /\ pc' = [c \in Dels |-> pc'[c]] /\ pc'[d] = l
      /\ \A c \in Dels : c # d => pc'[c] = pc[c]
  BY DEF WorkInv, Shaped, Goto
<1>2. EventOf[d] \in Events /\ Session(d) \in Sessions
  BY Installed DEF WorkInv, Placed
<1>3. \A c \in Dels : Session(c)' = Session(c) /\ EventOf'[c] = EventOf[c]
  BY DEF Session, EventOf
<1>4. Shaped'
  BY <1>1, <1>2 DEF WorkInv, Shaped, GateStep
<1>5. Placed'
  BY <1>1, <1>3 DEF WorkInv, Placed
<1>6. ClaimsOwned'
  <2>1. ASSUME NEW p \in Procs, NEW e \in Events, inflight'[p][e] # None, n'["cancel"] = 0
        PROVE  LET c == inflight'[p][e] IN pc'[c] \in Claiming /\ at'[c] = p /\ EventOf'[c] = e
    <3>1. n["cancel"] = 0 /\ inflight[p][e] \in Dels
      BY <2>1 DEF WorkInv, Shaped, Kinds
    <3>2. LET c == inflight[p][e] IN pc[c] \in Claiming /\ at[c] = p /\ EventOf[c] = e
      BY <2>1, <3>1 DEF WorkInv, ClaimsOwned
    <3> QED BY <1>1, <1>3, <2>1, <3>1, <3>2
  <2>2. ASSUME NEW c \in Dels, pc'[c] \in Claiming
        PROVE  inflight'[at'[c]][EventOf'[c]] = c
    <3>1. pc[c] \in Claiming
      BY <1>1, <2>2
    <3> QED BY <3>1, <1>3 DEF WorkInv, ClaimsOwned
  <2> QED BY <2>1, <2>2 DEF ClaimsOwned
<1>7. GateHeld'
  <2> SUFFICES ASSUME n'["lapse"] = 0, NEW c \in Dels, pc'[c] \in {"run", "delete"}
               PROVE  gate'[Session(c)] = c
    BY <1>3 DEF GateHeld
  <2>1. n["lapse"] = 0
    BY DEF Kinds
  <2>2. CASE c = d
    BY <2>2, <1>1
  <2>3. CASE c # d
    <3>1. gate[Session(c)] = c
      BY <2>1, <2>3, <1>1 DEF WorkInv, GateHeld
    <3>2. Session(c) \in Sessions
      BY <1>1, <2>3, Installed DEF WorkInv, Placed
    <3>3. c # None
      BY EventAssumption
    <3> QED BY <2>1, <2>3, <3>1, <3>2, <3>3, <1>2 DEF GateStep, WorkInv, Shaped
  <2> QED BY <2>2, <2>3
<1> QED BY <1>4, <1>5, <1>6, <1>7 DEF WorkInv

--------------------------------------------------------------------------------
(* The steps of a delivery.                                                    *)

LEMMA ArriveStep ==
  ASSUME WorkInv, NEW d \in Dels, NEW p \in Receivers, Arrive(d, p)
  PROVE  WorkInv'
<1>1. p \in Procs
  BY EventAssumption DEF Receivers
<1>2. EventOf[d] \in Events
  BY Installed DEF WorkInv, Arrive
<1>3. /\ pc' = [c \in Dels |-> pc'[c]] /\ pc'[d] \notin Claiming \cup {"run", "delete"}
      /\ \A c \in Dels : c # d => pc'[c] = pc[c]
  BY DEF WorkInv, Shaped, Arrive, Goto, Claiming
<1>4. at'[d] = p /\ \A c \in Dels : c # d => at'[c] = at[c]
  BY DEF WorkInv, Shaped, Arrive
<1>5. pc[d] \notin Claiming
  BY DEF Arrive, Claiming
<1>6. Shaped'
  BY <1>1, <1>3 DEF WorkInv, Shaped, Arrive, redis, proc
<1>7. Placed'
  BY <1>1, <1>2, <1>3, <1>4 DEF WorkInv, Placed, Arrive, EventOf
<1>8. ClaimsOwned'
  <2>1. ASSUME NEW q \in Procs, NEW e \in Events, inflight'[q][e] # None, n'["cancel"] = 0
        PROVE  LET c == inflight'[q][e] IN pc'[c] \in Claiming /\ at'[c] = q /\ EventOf'[c] = e
    <3>1. inflight[q][e] \in Dels /\ inflight'[q][e] = inflight[q][e]
      BY <2>1 DEF WorkInv, Shaped, Arrive, proc
    <3>2. LET c == inflight[q][e] IN pc[c] \in Claiming /\ at[c] = q /\ EventOf[c] = e
      BY <2>1, <3>1 DEF WorkInv, ClaimsOwned, Arrive
    <3> QED BY <3>1, <3>2, <1>3, <1>4, <1>5 DEF Arrive, EventOf
  <2>2. ASSUME NEW c \in Dels, pc'[c] \in Claiming
        PROVE  inflight'[at'[c]][EventOf'[c]] = c
    <3>1. c # d /\ pc[c] \in Claiming
      BY <1>3, <2>2
    <3> QED BY <3>1, <1>4 DEF WorkInv, ClaimsOwned, Arrive, EventOf, proc
  <2> QED BY <2>1, <2>2 DEF ClaimsOwned
<1>9. GateHeld'
  BY <1>3 DEF WorkInv, GateHeld, Arrive, Session, EventOf, redis
<1> QED BY <1>6, <1>7, <1>8, <1>9 DEF WorkInv

LEMMA PlainStep ==
  ASSUME WorkInv, NEW d \in Dels,
         \/ Lock(d) \/ LockTimeout(d) \/ Get(d) \/ TakeClaimLock(d) \/ Look(d) \/ Wake(d)
         \/ Recheck(d) \/ GateTimeout(d) \/ (\E ok \in BOOLEAN : Execute(d, ok))
         \/ Compare(d) \/ Put(d) \/ Callback(d) \/ Unlock(d) \/ Unlock2(d)
  PROVE  WorkInv'
<1>1. n' = n /\ gate' = gate /\ UNCHANGED <<inst, inflight, at>>
  BY DEF Lock, LockTimeout, Get, TakeClaimLock, Look, Wake, Recheck, GateTimeout, Execute,
         Compare, Put, Callback, Unlock, Unlock2, redis, proc
<1>2. n' \in [Kinds -> Nat] /\ \A j \in Kinds : n'[j] = 0 => n[j] = 0
  BY <1>1 DEF WorkInv, Shaped
<1>3. PICK l : /\ Goto(d, l) /\ pc[d] # "new" /\ l # "new"
               /\ l \in Claiming <=> pc[d] \in Claiming
               /\ l # "run" /\ (l = "delete" => gate[Session(d)] = d)
  <2>1. CASE Lock(d) \/ LockTimeout(d) \/ TakeClaimLock(d) \/ Look(d) \/ Wake(d)
    BY <2>1 DEF Lock, LockTimeout, TakeClaimLock, Look, Wake, Claiming
  <2>2. CASE Get(d) \/ Callback(d)
    BY <2>2, Ends DEF Get, Callback, Claiming
  <2>3. CASE Recheck(d) \/ GateTimeout(d) \/ Put(d) \/ \E ok \in BOOLEAN : Execute(d, ok)
    BY <2>3 DEF Recheck, GateTimeout, Put, Execute, Claiming
  <2>4. CASE Compare(d)
    BY <2>4, Ends DEF Compare, Claiming
  <2>5. CASE Unlock(d) \/ Unlock2(d)
    BY <2>5 DEF Unlock, Unlock2, Claiming
  <2> QED BY <2>1, <2>2, <2>3, <2>4, <2>5
<1> QED BY <1>1, <1>2, <1>3, Moves DEF GateStep

LEMMA GateSteps ==
  ASSUME WorkInv, NEW d \in Dels, Enter(d) \/ Delete(d)
  PROVE  WorkInv'
<1>1. n' = n /\ UNCHANGED <<inst, inflight, at>>
  BY DEF Enter, Delete, proc
<1>2. n' \in [Kinds -> Nat] /\ \A j \in Kinds : n'[j] = 0 => n[j] = 0
  BY <1>1 DEF WorkInv, Shaped
<1>3. CASE Enter(d)
  <2>1. Session(d) \in Sessions
    BY <1>3, Installed DEF WorkInv, Placed, Enter
  <2>2. GateStep(d) /\ gate'[Session(d)] = d
    BY <1>3, <2>1 DEF Enter, GateStep, WorkInv, Shaped
  <2> QED BY <1>1, <1>2, <1>3, <2>2, Moves DEF Enter, Claiming
<1>4. CASE Delete(d)
  <2>1. n["lapse"] = 0 => gate[Session(d)] = d
    BY <1>4 DEF WorkInv, GateHeld, Delete
  <2>2. GateStep(d)
    BY <1>4, <2>1 DEF Delete, GateStep
  <2>3. /\ Goto(d, AfterGate(d)) /\ pc[d] # "new" /\ AfterGate(d) # "new"
        /\ pc[d] \in Claiming
    BY <1>4, Ends DEF Delete, Claiming
  <2> QED BY <1>1, <1>2, <2>2, <2>3, Ends, Moves
<1> QED BY <1>3, <1>4

(* The claim: the slot was empty, so no other delivery works under it.         *)
LEMMA SettleStep ==
  ASSUME WorkInv, NEW d \in Dels, Settle(d)
  PROVE  WorkInv'
<1> DEFINE p == at[d]
           e == EventOf[d]
<1>1. p \in Procs /\ e \in Events
  BY DEF WorkInv, Placed, Settle
<1>2. n' = n /\ gate' = gate /\ UNCHANGED <<inst, at>>
  BY DEF Settle, redis
<1>3. n' \in [Kinds -> Nat] /\ \A j \in Kinds : n'[j] = 0 => n[j] = 0
  BY <1>2 DEF WorkInv, Shaped
<1>4. CASE \E l \in {Left, "wait"} : Goto(d, l) /\ UNCHANGED inflight
  BY <1>2, <1>3, <1>4, Ends, Moves DEF Settle, GateStep, Claiming
<1>5. CASE Goto(d, "recheck") /\ inflight[p][e] = None /\ inflight' = [inflight EXCEPT ![p][e] = d]
  <2>1. /\ pc' = [c \in Dels |-> pc'[c]] /\ pc'[d] = "recheck"
        /\ \A c \in Dels : c # d => pc'[c] = pc[c]
    BY <1>5 DEF WorkInv, Shaped, Goto
  <2>2. /\ inflight' \in [Procs -> [Events -> Dels \cup {None}]] /\ inflight'[p][e] = d
        /\ \A q \in Procs, f \in Events : <<q, f>> # <<p, e>> => inflight'[q][f] = inflight[q][f]
    BY <1>1, <1>5 DEF WorkInv, Shaped
  <2>3. Shaped' /\ Placed'
    BY <1>2, <1>3, <2>1, <2>2, <1>1 DEF WorkInv, Shaped, Placed, EventOf
  <2>4. pc[d] \notin Claiming
    BY DEF Settle, Claiming
  <2>5. ClaimsOwned'
    <3>1. ASSUME NEW q \in Procs, NEW f \in Events, inflight'[q][f] # None, n'["cancel"] = 0
          PROVE  LET c == inflight'[q][f] IN pc'[c] \in Claiming /\ at'[c] = q /\ EventOf'[c] = f
      <4>1. CASE q = p /\ f = e
        BY <4>1, <2>1, <2>2, <1>2 DEF Claiming, EventOf
      <4>2. CASE <<q, f>> # <<p, e>>
        <5>1. inflight'[q][f] = inflight[q][f] /\ inflight[q][f] \in Dels
          BY <4>2, <2>2, <3>1 DEF WorkInv, Shaped
        <5>2. LET c == inflight[q][f] IN pc[c] \in Claiming /\ at[c] = q /\ EventOf[c] = f
          BY <3>1, <5>1, <1>2 DEF WorkInv, ClaimsOwned
        <5> QED BY <5>1, <5>2, <2>1, <2>4, <1>2 DEF EventOf
      <4> QED BY <4>1, <4>2
    <3>2. ASSUME NEW c \in Dels, pc'[c] \in Claiming
          PROVE  inflight'[at'[c]][EventOf'[c]] = c
      <4>1. CASE c = d
        BY <4>1, <2>2, <1>2 DEF EventOf
      <4>2. CASE c # d
        <5>1. /\ inflight[at[c]][EventOf[c]] = c /\ pc[c] # "new"
              /\ at[c] \in Procs /\ EventOf[c] \in Events
          BY <4>2, <2>1, <3>2 DEF WorkInv, ClaimsOwned, Placed, Claiming
        <5>2. <<at[c], EventOf[c]>> # <<p, e>>
          BY <5>1, <1>5, EventAssumption
        <5> QED BY <5>1, <5>2, <2>2, <1>2 DEF EventOf
      <4> QED BY <4>1, <4>2
    <3> QED BY <3>1, <3>2 DEF ClaimsOwned
  <2>6. GateHeld'
    BY <1>2, <2>1 DEF WorkInv, GateHeld, Session, EventOf
  <2> QED BY <2>3, <2>5, <2>6 DEF WorkInv
<1> QED BY <1>4, <1>5 DEF Settle

(* Giving the claim up: it was this delivery's, so nobody else loses one.      *)
LEMMA FinishStep ==
  ASSUME WorkInv, NEW d \in Dels, FinishInflight(d)
  PROVE  WorkInv'
<1> DEFINE p == at[d]
           e == EventOf[d]
<1>1. p \in Procs /\ e \in Events /\ inflight[p][e] = d
  BY DEF WorkInv, Placed, ClaimsOwned, FinishInflight, Claiming
<1>2. n' = n /\ gate' = gate /\ UNCHANGED <<inst, at>> /\ inflight' = [inflight EXCEPT ![p][e] = None]
  BY DEF FinishInflight, redis
<1>3. PICK l \in {"callback", Left} : Goto(d, l)
  BY DEF FinishInflight
<1>4. /\ pc' = [c \in Dels |-> pc'[c]] /\ pc'[d] \notin Claiming \cup {"new", "run", "delete"}
      /\ \A c \in Dels : c # d => pc'[c] = pc[c]
  BY <1>3, Ends DEF WorkInv, Shaped, Goto, Claiming
<1>5. /\ inflight' \in [Procs -> [Events -> Dels \cup {None}]] /\ inflight'[p][e] = None
      /\ \A q \in Procs, f \in Events : <<q, f>> # <<p, e>> => inflight'[q][f] = inflight[q][f]
  BY <1>1, <1>2 DEF WorkInv, Shaped
<1>6. Shaped' /\ Placed'
  BY <1>1, <1>2, <1>4, <1>5 DEF WorkInv, Shaped, Placed, EventOf
<1>7. ClaimsOwned'
  <2>1. ASSUME NEW q \in Procs, NEW f \in Events, inflight'[q][f] # None, n'["cancel"] = 0
        PROVE  LET c == inflight'[q][f] IN pc'[c] \in Claiming /\ at'[c] = q /\ EventOf'[c] = f
    <3>1. inflight'[q][f] = inflight[q][f] /\ inflight[q][f] \in Dels /\ <<q, f>> # <<p, e>>
      BY <1>5, <2>1 DEF WorkInv, Shaped
    <3>2. LET c == inflight[q][f] IN pc[c] \in Claiming /\ at[c] = q /\ EventOf[c] = f
      BY <2>1, <3>1, <1>2 DEF WorkInv, ClaimsOwned
    <3> QED BY <3>1, <3>2, <1>4, <1>2 DEF EventOf
  <2>2. ASSUME NEW c \in Dels, pc'[c] \in Claiming
        PROVE  inflight'[at'[c]][EventOf'[c]] = c
    <3>1. /\ c # d /\ inflight[at[c]][EventOf[c]] = c
          /\ at[c] \in Procs /\ EventOf[c] \in Events
      BY <2>2, <1>4 DEF WorkInv, ClaimsOwned, Placed, Claiming
    <3>2. <<at[c], EventOf[c]>> # <<p, e>>
      BY <3>1, <1>1
    <3> QED BY <3>1, <3>2, <1>5, <1>2 DEF EventOf
  <2> QED BY <2>1, <2>2 DEF ClaimsOwned
<1>8. GateHeld'
  BY <1>2, <1>4 DEF WorkInv, GateHeld, Session, EventOf
<1> QED BY <1>6, <1>7, <1>8 DEF WorkInv

--------------------------------------------------------------------------------
(* The incidents.                                                              *)

(* An exception leads a delivery that works under a claim to where the claim   *)
(* is given up, but for one that is cancelled there.                           *)
LEMMA UnwindStep ==
  ASSUME WorkInv, NEW d \in Dels, Fault(d) \/ Cancel(d)
  PROVE  WorkInv'
<1>1. /\ Unwind(d) /\ pc[d] # "new"
      /\ pc[d] \in AwaitsRedis \cup {"claim", "wait", "run", "finish", "callback"}
      /\ pc[d] = "finish" => Count("cancel")
      /\ \E k \in Kinds : Count(k)
  BY DEF Fault, Cancel, AwaitsRedis, Kinds
<1>2. /\ n' \in [Kinds -> Nat] /\ \A j \in Kinds : n'[j] = 0 => n[j] = 0
      /\ pc[d] = "finish" => n'["cancel"] # 0
  BY <1>1, Counted DEF WorkInv, Kinds
<1>3. Goto(d, Unwound(d)) /\ Executed(d) /\ UNCHANGED <<inst, inflight, at>>
  BY <1>1 DEF Unwind
<1>4. /\ Unwound(d) \notin {"new", "run", "delete"}
      /\ Unwound(d) \in Claiming => pc[d] \in Claiming
      /\ pc[d] \in Claiming /\ n'["cancel"] = 0 => Unwound(d) \in Claiming
  BY <1>1, <1>2, Ends DEF Unwound, UnwoundTo, Claiming, AwaitsRedis
<1>5. GateStep(d)
  <2>1. pc[d] = "delete" /\ n["lapse"] = 0 => gate[Session(d)] = d
    BY DEF WorkInv, GateHeld
  <2> QED BY <1>3, <2>1 DEF Executed, GateStep, redis
<1> QED BY <1>1, <1>2, <1>3, <1>4, <1>5, Moves

(* With a process die its claims and all who work under them.                  *)
LEMMA CrashStep ==
  ASSUME WorkInv, NEW p \in Procs, Crash(p)
  PROVE  WorkInv'
<1>1. /\ n' \in [Kinds -> Nat] /\ \A j \in Kinds : n'[j] = 0 => n[j] = 0
      /\ gate' = gate /\ UNCHANGED <<inst, at>>
  BY Counted DEF Crash, WorkInv, Kinds, redis
<1>2. /\ pc' = [d \in Dels |-> pc'[d]]
      /\ \A d \in Dels : pc'[d] = pc[d] \/ (pc[d] # "new" /\ pc'[d] = "done")
      /\ \A d \in Dels : at[d] # p => pc'[d] = pc[d]
      /\ \A d \in Dels : at[d] = p /\ pc[d] # "new" => pc'[d] = "done"
  BY DEF Crash, Active
<1>3. /\ inflight' \in [Procs -> [Events -> Dels \cup {None}]]
      /\ \A e \in Events : inflight'[p][e] = None
      /\ \A q \in Procs, e \in Events : q # p => inflight'[q][e] = inflight[q][e]
  BY DEF Crash, WorkInv, Shaped
<1>4. Shaped' /\ Placed'
  BY <1>1, <1>2, <1>3 DEF WorkInv, Shaped, Placed, EventOf
<1>5. ClaimsOwned'
  <2>1. ASSUME NEW q \in Procs, NEW e \in Events, inflight'[q][e] # None, n'["cancel"] = 0
        PROVE  LET c == inflight'[q][e] IN pc'[c] \in Claiming /\ at'[c] = q /\ EventOf'[c] = e
    <3>1. q # p /\ inflight'[q][e] = inflight[q][e] /\ inflight[q][e] \in Dels /\ n["cancel"] = 0
      BY <1>1, <1>3, <2>1 DEF WorkInv, Shaped, Kinds
    <3>2. LET c == inflight[q][e] IN pc[c] \in Claiming /\ at[c] = q /\ EventOf[c] = e
      BY <2>1, <3>1 DEF WorkInv, ClaimsOwned
    <3> QED BY <3>1, <3>2, <1>1, <1>2 DEF EventOf
  <2>2. ASSUME NEW c \in Dels, pc'[c] \in Claiming
        PROVE  inflight'[at'[c]][EventOf'[c]] = c
    <3>1. pc[c] \in Claiming /\ at[c] # p
      BY <1>2, <2>2 DEF Claiming
    <3>2. at[c] \in Procs /\ EventOf[c] \in Events /\ inflight[at[c]][EventOf[c]] = c
      BY <3>1 DEF WorkInv, Placed, ClaimsOwned, Claiming
    <3> QED BY <3>1, <3>2, <1>1, <1>3 DEF EventOf
  <2> QED BY <2>1, <2>2 DEF ClaimsOwned
<1>6. GateHeld'
  BY <1>1, <1>2 DEF WorkInv, GateHeld, Session, EventOf, Kinds
<1> QED BY <1>4, <1>5, <1>6 DEF WorkInv

(* The lock of a delivery that is served runs out at the price of a lapse.     *)
LEMMA LapseStep ==
  ASSUME WorkInv, NEW s \in Sessions, Lapse(s)
  PROVE  WorkInv'
<1>1. /\ UNCHANGED <<inst, inflight, at, pc>>
      /\ n' \in [Kinds -> Nat] /\ \A j \in Kinds : n'[j] = 0 => n[j] = 0
  BY Counted DEF Lapse, WorkInv, Shaped, Kinds, proc
<1>2. /\ gate' \in [Sessions -> Dels \cup {None}]
      /\ n'["lapse"] = 0 => \A t \in Sessions : gate[t] \in Active => gate'[t] = gate[t]
  BY Counted DEF Lapse, WorkInv, Shaped, Kinds
<1>3. Shaped' /\ Placed' /\ ClaimsOwned'
  BY <1>1, <1>2 DEF WorkInv, Shaped, Placed, ClaimsOwned, EventOf, Kinds
<1>4. GateHeld'
  <2> SUFFICES ASSUME n'["lapse"] = 0, NEW d \in Dels, pc[d] \in {"run", "delete"}
               PROVE  gate'[Session(d)] = d
    BY <1>1 DEF GateHeld, Session, EventOf
  <2>1. gate[Session(d)] = d /\ d \in Active /\ Session(d) \in Sessions
    BY <1>1, Installed DEF WorkInv, GateHeld, Placed, Active, Kinds
  <2> QED BY <2>1, <1>2
<1> QED BY <1>3, <1>4 DEF WorkInv

LEMMA ExpireStep ==
  ASSUME WorkInv, NEW e \in Events, Expire(e)
  PROVE  WorkInv'
<1>1. /\ n' \in [Kinds -> Nat] /\ \A j \in Kinds : n'[j] = 0 => n[j] = 0
      /\ UNCHANGED <<inst, gate, inflight, at, pc>>
  BY Counted DEF Expire, WorkInv, Kinds, proc
<1> QED BY <1>1 DEF WorkInv, Shaped, Placed, ClaimsOwned, GateHeld, Session, EventOf, Kinds

--------------------------------------------------------------------------------
LEMMA WorkStep == WorkInv /\ [Next]_vars => WorkInv'
<1> SUFFICES ASSUME WorkInv, [Next]_vars PROVE WorkInv'
  OBVIOUS
<1>1. ASSUME NEW d \in Dels, Serve(d) PROVE WorkInv'
  BY <1>1, PlainStep, GateSteps, SettleStep, FinishStep DEF Serve, Claim
<1>2. ASSUME NEW d \in Dels, NEW p \in Receivers, Arrive(d, p) PROVE WorkInv'
  BY <1>2, ArriveStep
<1>3. ASSUME Incident PROVE WorkInv'
  BY <1>3, UnwindStep, CrashStep, LapseStep, ExpireStep DEF Incident
<1>4. CASE UNCHANGED vars
  BY <1>4 DEF vars, redis, proc, hist, WorkInv, Shaped, Placed, ClaimsOwned, GateHeld,
              Session, EventOf
<1> QED BY <1>1, <1>2, <1>3, <1>4 DEF Next

(* Work on an event is under its claim, which no delivery takes from another,  *)
(* and that of a session one at a time over all processes unless a TTL runs    *)
(* out, whatever throws, is cancelled or dies (_wait_inflight_or_claim,        *)
(* _finish_inflight, the gate of dispatch).                                    *)
THEOREM ExclusiveWorkCorrect == Spec => []ExclusiveWork
<1>1. WorkInv => ExclusiveWork
  <2> SUFFICES ASSUME WorkInv PROVE SessionSerial
    BY DEF WorkInv, ExclusiveWork
  <2>1. ASSUME n["lapse"] = 0, NEW s \in Sessions, NEW c \in RunsOfSession(s), NEW d \in RunsOfSession(s)
        PROVE  c = d
    BY <2>1 DEF WorkInv, GateHeld, RunsOfSession
  <2> QED BY <2>1 DEF SessionSerial
<1> QED BY WorkInit, WorkStep, <1>1, PTL DEF Spec

--------------------------------------------------------------------------------
(* One run of an event, and one more at most per mishap (EventOnce).          *)

(* The process of a caller that embeds the dispatcher.                         *)
Only == CHOOSE p \in Procs : TRUE

Before == {"lock", "get", "claim", "look", "settle", "wait", "recheck", "gate"}
Within == {"run", "compare", "delete", "put"}
Told == {"settle", "finish", "callback"}

Histories ==
  /\ idem \in [Events -> Results \cup {None}] /\ res \in [Dels -> Results \cup {None}]
  /\ answer \in [Dels -> Results \cup {None}] /\ runs \in [Events -> SUBSET Dels]
  /\ slock \in [Sessions -> Dels \cup {None}]

(* An embedding process has no session lock.                                   *)
Embedded ==
  inst.host = "embed" =>
    \A d \in Dels : pc[d] \notin {"lock", "unlock", "unlock2"} /\ (pc[d] # "new" => at[d] = Only)

(* A result is one of a run of its event.                                      *)
Genuine ==
  /\ \A e \in Events : idem[e] # None => idem[e].by \in runs[e]
  /\ \A d \in Dels : res[d] # None => pc[d] # "new" /\ res[d].by \in runs[EventOf[d]]

(* A delivery runs once, and records its own result.                           *)
OwnRun ==
  \A d \in Dels :
    /\ pc[d] \in Before \cup {"new"} => \A e \in Events : d \notin runs[e]
    /\ pc[d] = "gate" => res[d] = None
    /\ pc[d] = "put" => res[d] # None
    /\ pc[d] \in Within =>
         /\ d \in runs[EventOf[d]]
         /\ res[d] # None => res[d].by = d
         /\ idem[EventOf[d]] # None => idem[EventOf[d]].by # d

(* What a delivery will be answered is the record, as long as nothing happens; *)
(* and it has not been answered yet.                                           *)
Unanswered ==
  \A d \in Dels :
    /\ pc[d] \notin {"unlock", "unlock2", "done"} => answer[d] = None
    /\ pc[d] \in Told /\ res[d] # None /\ Mishaps = 0 => res[d] = idem[EventOf[d]]

(* What keeps the deliveries of an event apart: the session lock of Serve, or  *)
(* the claim in the one process that embeds the dispatcher.                    *)
Keeper(e) == IF inst.host = "serve" THEN slock[SessionOf[e]] ELSE inflight[Only][e]

(* A delivery past it may run as long as there is no record it could still     *)
(* see, and one that has run will record if nothing happens to it.             *)
Asking == IF inst.host = "serve" THEN Before \ {"lock", "gate"} ELSE {"recheck"}
MayRun(d) == pc[d] = "gate" \/ (pc[d] \in Asking /\ idem[EventOf[d]] = None)
WillRecord(d) == pc[d] = "run" \/ (pc[d] \in Within /\ res[d] # None)

(* The runs of an event there have been, and those there may be without        *)
(* another mishap: by a delivery past the keeper, by the next one past it when *)
(* nobody of this event is about to leave a record, and by one more when a     *)
(* delivery is about to delete a session lock that is no longer its own.       *)
Open(e) ==
  /\ idem[e] = None
  /\ \A d \in Dels : Keeper(e) = d /\ EventOf[d] = e => ~MayRun(d) /\ ~WillRecord(d)
Stale(e, d) == pc[d] = "unlock2" /\ Session(d) = SessionOf[e] /\ slock[SessionOf[e]] # d
Debts(e) ==
  {<<d, "ran">> : d \in runs[e]}
  \cup {<<d, "may">> : d \in {c \in Dels : EventOf[c] = e /\ MayRun(c)}}
  \cup {<<d, "stale">> : d \in {c \in Dels : Stale(e, c)}}
  \cup {t \in {<<None, "open">>} : Open(e)}

Paid == \A e \in Events : IsFiniteSet(Debts(e)) /\ Cardinality(Debts(e)) <= Mishaps + 1

OnceInv == Histories /\ Embedded /\ Genuine /\ OwnRun /\ Unanswered /\ Paid

--------------------------------------------------------------------------------
(* The account.                                                                *)

LEMMA MishapsCounted ==
  ASSUME Shaped
  PROVE  /\ Mishaps \in Nat
         /\ \A k \in Kinds : Count(k) => Mishaps' = Mishaps + 1
<1>1. /\ n["fault"] \in Nat /\ n["crash"] \in Nat /\ n["lapse"] \in Nat
      /\ n["cancel"] \in Nat /\ n["expire"] \in Nat
  BY DEF Shaped, Kinds
<1>2. ASSUME NEW k \in Kinds, Count(k) PROVE Mishaps' = Mishaps + 1
  <2>1. n' = [n EXCEPT ![k] = n[k] + 1] /\ n \in [Kinds -> Nat]
    BY <1>2 DEF Count, Shaped
  <2>2. \A j \in Kinds : n'[j] = IF j = k THEN n[j] + 1 ELSE n[j]
    BY <2>1
  <2> QED BY <1>1, <2>2 DEF Mishaps, Kinds
<1> QED BY <1>1, <1>2 DEF Mishaps

(* What a step may do to the debts of an event: take none on, take one on for  *)
(* another, or for a mishap.                                                   *)
Balanced(e) == IsFiniteSet(Debts(e)) /\ Cardinality(Debts(e)) <= Mishaps + 1

LEMMA NoDebt ==
  ASSUME Paid, NEW e \in Events, Mishaps \in Nat, Mishaps' \in Nat, Mishaps' >= Mishaps,
         Debts(e)' \subseteq Debts(e)
  PROVE  Balanced(e)'
<1>1. IsFiniteSet(Debts(e)) /\ Cardinality(Debts(e)) \in Nat /\ Cardinality(Debts(e)) <= Mishaps + 1
  BY FS_CardinalityType DEF Paid
<1>2. IsFiniteSet(Debts(e)') /\ Cardinality(Debts(e)') <= Cardinality(Debts(e))
  BY <1>1, FS_Subset
<1>3. Cardinality(Debts(e)') \in Nat
  BY <1>2, FS_CardinalityType
<1> QED BY <1>1, <1>2, <1>3 DEF Balanced

LEMMA Exchanged ==
  ASSUME Paid, NEW e \in Events, Mishaps \in Nat, Mishaps' \in Nat, Mishaps' >= Mishaps,
         NEW x, NEW y, x \in Debts(e), x \notin Debts(e)', Debts(e)' \subseteq Debts(e) \cup {y}
  PROVE  Balanced(e)'
<1> DEFINE D == Debts(e)
           rest == D \ {x}
<1>1. IsFiniteSet(D) /\ Cardinality(D) <= Mishaps + 1
  BY DEF Paid
<1>2. x \in D /\ Debts(e)' \subseteq rest \cup {y}
  OBVIOUS
<1> HIDE DEF D
<1>3. IsFiniteSet(rest) /\ Cardinality(rest) = Cardinality(D) - 1
  BY <1>1, <1>2, FS_RemoveElement
<1>4. Cardinality(D) \in Nat
  BY <1>1, FS_CardinalityType
<1>5. Cardinality(rest) \in Nat
  BY <1>3, FS_CardinalityType
<1> HIDE DEF rest
<1>6. IsFiniteSet(rest \cup {y})
      /\ Cardinality(rest \cup {y}) = IF y \in rest THEN Cardinality(rest) ELSE Cardinality(rest) + 1
  BY <1>3, FS_AddElement
<1>7. IsFiniteSet(Debts(e)') /\ Cardinality(Debts(e)') <= Cardinality(rest \cup {y})
  BY <1>2, <1>6, FS_Subset
<1>8. Cardinality(Debts(e)') \in Nat
  BY <1>7, FS_CardinalityType
<1> QED BY <1>1, <1>3, <1>4, <1>5, <1>6, <1>7, <1>8 DEF Balanced

LEMMA Charged ==
  ASSUME Paid, NEW e \in Events, Mishaps \in Nat, Mishaps' = Mishaps + 1,
         NEW y, Debts(e)' \subseteq Debts(e) \cup {y}
  PROVE  Balanced(e)'
<1> DEFINE D == Debts(e)
<1>1. IsFiniteSet(D) /\ Cardinality(D) <= Mishaps + 1
  BY DEF Paid
<1>2. Debts(e)' \subseteq D \cup {y}
  OBVIOUS
<1> HIDE DEF D
<1>3. IsFiniteSet(D \cup {y})
      /\ Cardinality(D \cup {y}) = IF y \in D THEN Cardinality(D) ELSE Cardinality(D) + 1
  BY <1>1, FS_AddElement
<1>4. IsFiniteSet(Debts(e)') /\ Cardinality(Debts(e)') <= Cardinality(D \cup {y})
  BY <1>2, <1>3, FS_Subset
<1>5. Cardinality(D) \in Nat
  BY <1>1, FS_CardinalityType
<1>6. Cardinality(Debts(e)') \in Nat
  BY <1>4, FS_CardinalityType
<1> QED BY <1>1, <1>3, <1>4, <1>5, <1>6 DEF Balanced

(* The debts after a step, kind by kind.                                       *)
LEMMA DebtsAfter ==
  ASSUME NEW e \in Events, NEW S,
         \A d \in runs'[e] : d \in runs[e] \/ <<d, "ran">> \in S,
         \A d \in Dels : EventOf'[d] = e /\ MayRun(d)' =>
                          (EventOf[d] = e /\ MayRun(d)) \/ <<d, "may">> \in S,
         \A d \in Dels : Stale(e, d)' => Stale(e, d) \/ <<d, "stale">> \in S,
         Open(e)' => Open(e) \/ <<None, "open">> \in S
  PROVE  Debts(e)' \subseteq Debts(e) \cup S
BY DEF Debts

--------------------------------------------------------------------------------
(* A delivery moves on, with another result in hand and perhaps answered.      *)

Out == {"unlock", "unlock2", "done"}
Moved(d, l, r, a) ==
  /\ Goto(d, l) /\ res' = [res EXCEPT ![d] = r] /\ answer' = [answer EXCEPT ![d] = a]
  /\ UNCHANGED <<inst, idem, runs, at>>
Answerable(d, a) ==
  /\ a \in Results /\ answer[d] = None /\ a.by \in runs[EventOf[d]]
  /\ Mishaps = 0 => a = idem[EventOf[d]]
Fit(d, l, r, a) ==
  /\ pc[d] # "new" /\ l # "new"
  /\ r # None => r \in Results /\ r.by \in runs[EventOf[d]]
  /\ l \in Before => pc[d] \in Before
  /\ l = "gate" => r = None
  /\ l = "put" => r # None
  /\ l \in Within => pc[d] \in Within /\ (r # None => r.by = d)
  /\ l \in Told /\ r # None /\ Mishaps = 0 => r = idem[EventOf[d]]
  /\ inst.host = "embed" => l \notin {"lock", "unlock", "unlock2"}
  /\ a = answer[d] \/ Answerable(d, a)
  /\ l \notin Out => pc[d] \notin Out /\ a = answer[d]

LEMMA MoveKeeps ==
  ASSUME OnceInv, WorkInv, NEW d \in Dels, NEW STATE l, NEW STATE r, NEW STATE a,
         Moved(d, l, r, a), Fit(d, l, r, a), slock' \in [Sessions -> Dels \cup {None}],
         Mishaps' # 0 \/ Mishaps = 0
  PROVE  Histories' /\ Embedded' /\ Genuine' /\ OwnRun' /\ Unanswered'
<1>1. /\ pc'[d] = l /\ \A c \in Dels : c # d => pc'[c] = pc[c]
  BY DEF WorkInv, Shaped, Moved, Goto
<1>2. /\ res'[d] = r /\ \A c \in Dels : c # d => res'[c] = res[c]
      /\ res' \in [Dels -> Results \cup {None}]
  BY DEF OnceInv, Histories, Moved, Fit
<1>3. /\ answer'[d] = a /\ \A c \in Dels : c # d => answer'[c] = answer[c]
      /\ answer' \in [Dels -> Results \cup {None}]
  BY DEF OnceInv, Histories, Moved, Fit, Answerable
<1>4. UNCHANGED <<inst, idem, runs, at>> /\ EventOf' = EventOf
  BY DEF Moved, EventOf
<1>5. EventOf[d] \in Events
  BY DEF WorkInv, Placed, Fit
<1>6. Histories' /\ Embedded'
  BY <1>1, <1>2, <1>3, <1>4 DEF OnceInv, Histories, Embedded, Fit
<1>7. Genuine'
  BY <1>1, <1>2, <1>4 DEF OnceInv, Genuine, Fit
<1>8. OwnRun'
  <2> SUFFICES ASSUME NEW c \in Dels
               PROVE  /\ pc'[c] \in Before \cup {"new"} => \A e \in Events : c \notin runs[e]
                      /\ pc'[c] = "gate" => res'[c] = None
                      /\ pc'[c] = "put" => res'[c] # None
                      /\ pc'[c] \in Within =>
                           /\ c \in runs[EventOf[c]]
                           /\ res'[c] # None => res'[c].by = c
                           /\ idem[EventOf[c]] # None => idem[EventOf[c]].by # c
    BY <1>4 DEF OwnRun
  <2>1. CASE c # d
    BY <2>1, <1>1, <1>2 DEF OnceInv, OwnRun
  <2>2. CASE c = d
    BY <2>2, <1>1, <1>2 DEF OnceInv, OwnRun, Fit
  <2> QED BY <2>1, <2>2
<1>9. Unanswered'
  <2> SUFFICES ASSUME NEW c \in Dels
               PROVE  /\ pc'[c] \notin Out => answer'[c] = None
                      /\ pc'[c] \in Told /\ res'[c] # None /\ Mishaps' = 0 => res'[c] = idem[EventOf[c]]
    BY <1>4 DEF Unanswered, Out
  <2>1. CASE c # d
    BY <2>1, <1>1, <1>2, <1>3 DEF OnceInv, Unanswered, Out
  <2>2. CASE c = d
    BY <2>2, <1>1, <1>2, <1>3 DEF OnceInv, Unanswered, Out, Fit
  <2> QED BY <2>1, <2>2
<1> QED BY <1>6, <1>7, <1>8, <1>9

(* To EventOnce it does nothing, or answers.                                   *)
Implements == [Once!Next]_Once!vars

LEMMA MoveImplements ==
  ASSUME OnceInv, WorkInv, NEW d \in Dels, NEW STATE l, NEW STATE r, NEW STATE a,
         Moved(d, l, r, a), Fit(d, l, r, a), n' = n
  PROVE  Implements
<1>1. [c \in Dels |-> IF pc'[c] = "new" THEN None ELSE EventOf'[c]]
        = [c \in Dels |-> IF pc[c] = "new" THEN None ELSE EventOf[c]]
  BY DEF WorkInv, Shaped, Moved, Goto, Fit, EventOf
<1>2. Mishaps' = Mishaps /\ UNCHANGED <<runs, idem>>
  BY DEF Mishaps, Moved
<1>3. EventOf[d] \in Events
  BY DEF WorkInv, Placed, Fit
<1>4. CASE a = answer[d]
  <2>1. answer' = answer
    BY <1>4 DEF OnceInv, Histories, Moved
  <2> QED BY <1>1, <1>2, <2>1 DEF Implements, Once!vars
<1>5. CASE Answerable(d, a)
  <2>1. Once!Answer(d, a)
    BY <1>1, <1>2, <1>3, <1>5, EventAssumption DEF Once!Answer, Moved, Fit, Answerable
  <2>2. a \in Once!Results
    BY <1>5 DEF Answerable, Results, Once!Results
  <2> QED BY <1>3, <2>1, <2>2 DEF Implements, Once!Next
<1> QED BY <1>4, <1>5 DEF Fit

--------------------------------------------------------------------------------
(* What a move does to the debts.                                              *)

MayAt(d, l) == l = "gate" \/ (l \in Asking /\ idem[EventOf[d]] = None)
WillAt(l, r) == l = "run" \/ (l \in Within /\ r # None)
Busy(d) == MayRun(d) \/ WillRecord(d)

LEMMA MayAfter ==
  ASSUME WorkInv, OnceInv, NEW d \in Dels, NEW STATE l, NEW STATE r, NEW STATE a, Moved(d, l, r, a)
  PROVE  /\ MayRun(d)' <=> MayAt(d, l)
         /\ WillRecord(d)' <=> WillAt(l, r)
         /\ \A c \in Dels : c # d => (MayRun(c)' <=> MayRun(c)) /\ (WillRecord(c)' <=> WillRecord(c))
<1>1. /\ pc'[d] = l /\ \A c \in Dels : c # d => pc'[c] = pc[c]
  BY DEF WorkInv, Shaped, Moved, Goto
<1>2. /\ res'[d] = r /\ \A c \in Dels : c # d => res'[c] = res[c]
  BY DEF OnceInv, Histories, Moved
<1>3. inst' = inst /\ idem' = idem
  BY DEF Moved
<1> QED BY <1>1, <1>2, <1>3 DEF MayRun, WillRecord, MayAt, WillAt, Asking, EventOf

(* Nobody new may run, and who kept the event may or will still, or did not.   *)
Level(d, l, r) ==
  /\ MayAt(d, l) => MayRun(d)
  /\ Busy(d) /\ idem[EventOf[d]] = None => MayAt(d, l) \/ WillAt(l, r)
  /\ l = "unlock2" => slock[Session(d)] = d

LEMMA LevelStep ==
  ASSUME OnceInv, WorkInv, NEW d \in Dels, NEW STATE l, NEW STATE r, NEW STATE a,
         Moved(d, l, r, a), Fit(d, l, r, a), Level(d, l, r), slock' = slock, n' = n,
         \A e \in Events : Keeper(e)' = Keeper(e) \/ (Keeper(e) = d /\ ~Busy(d))
  PROVE  OnceInv' /\ Implements
<1>1. Mishaps \in Nat /\ Mishaps' = Mishaps
  BY MishapsCounted DEF WorkInv, Mishaps
<1>2. Histories' /\ Embedded' /\ Genuine' /\ OwnRun' /\ Unanswered'
  BY <1>1, MoveKeeps DEF OnceInv, Histories
<1>3. ASSUME NEW e \in Events PROVE Balanced(e)'
  <2>1. /\ runs' = runs /\ EventOf' = EventOf /\ idem' = idem
        /\ pc'[d] = l /\ \A c \in Dels : c # d => pc'[c] = pc[c]
    BY DEF Moved, EventOf, WorkInv, Shaped, Goto
  <2>2. \A c \in Dels : MayRun(c)' => MayRun(c)
    BY MayAfter DEF Level
  <2>3. \A c \in Dels : Stale(e, c)' => Stale(e, c)
    BY <2>1 DEF Level, Stale, Session
  <2>4. Open(e)' => Open(e)
    BY <2>1, MayAfter DEF Level, Open, Busy
  <2>5. Debts(e)' \subseteq Debts(e) \cup {}
    BY <2>1, <2>2, <2>3, <2>4, DebtsAfter
  <2> QED BY <1>1, <2>5, NoDebt DEF OnceInv
<1>4. Implements
  BY MoveImplements
<1> QED BY <1>2, <1>3, <1>4 DEF OnceInv, Paid, Balanced

(* A delivery that might have run gives up: the next one may instead.          *)
LEMMA GiveUpStep ==
  ASSUME OnceInv, WorkInv, NEW d \in Dels, NEW STATE l, NEW STATE r, NEW STATE a,
         Moved(d, l, r, a), Fit(d, l, r, a), MayRun(d), ~MayAt(d, l), l # "unlock2",
         slock' = slock, n' = n, \A e \in Events : Keeper(e)' = Keeper(e)
  PROVE  OnceInv' /\ Implements
<1>1. Mishaps \in Nat /\ Mishaps' = Mishaps
  BY MishapsCounted DEF WorkInv, Mishaps
<1>2. Histories' /\ Embedded' /\ Genuine' /\ OwnRun' /\ Unanswered'
  BY <1>1, MoveKeeps DEF OnceInv, Histories
<1>3. ASSUME NEW e \in Events PROVE Balanced(e)'
  <2>1. /\ runs' = runs /\ EventOf' = EventOf /\ idem' = idem
        /\ pc'[d] = l /\ \A c \in Dels : c # d => pc'[c] = pc[c]
    BY DEF Moved, EventOf, WorkInv, Shaped, Goto
  <2>2. \A c \in Dels : MayRun(c)' => MayRun(c) /\ c # d
    BY MayAfter
  <2>3. \A c \in Dels : Stale(e, c)' => Stale(e, c)
    BY <2>1 DEF Stale, Session
  <2>4. CASE EventOf[d] = e
    <3>1. Debts(e)' \subseteq Debts(e) \cup {<<None, "open">>}
      BY <2>1, <2>2, <2>3, DebtsAfter
    <3>2. <<d, "may">> \in Debts(e) /\ <<d, "may">> \notin Debts(e)'
      BY <2>1, <2>2, <2>4 DEF Debts
    <3> QED BY <1>1, <3>1, <3>2, Exchanged DEF OnceInv
  <2>5. CASE EventOf[d] # e
    <3>1. Open(e)' => Open(e)
      BY <2>1, <2>5, MayAfter DEF Open
    <3>2. Debts(e)' \subseteq Debts(e) \cup {}
      BY <2>1, <2>2, <2>3, <3>1, DebtsAfter
    <3> QED BY <1>1, <3>2, NoDebt DEF OnceInv
  <2> QED BY <2>4, <2>5
<1>4. Implements
  BY MoveImplements
<1> QED BY <1>2, <1>3, <1>4 DEF OnceInv, Paid, Balanced

(* A delivery gets past the keeper: it may run, and nobody else.               *)
LEMMA TakeStep ==
  ASSUME OnceInv, WorkInv, NEW d \in Dels, NEW STATE l, NEW STATE r, NEW STATE a,
         Moved(d, l, r, a), Fit(d, l, r, a), ~Busy(d), l # "unlock2",
         MayAt(d, l) <=> idem[EventOf[d]] = None,
         slock' \in [Sessions -> Dels \cup {None}], n' = n,
         Keeper(EventOf[d]) = None, Keeper(EventOf[d])' = d,
         \A e \in Events : Keeper(e)' = Keeper(e) \/ Keeper(e) = None,
         \A s \in Sessions : slock'[s] = slock[s] \/ (slock[s] = None /\ slock'[s] = d)
  PROVE  OnceInv' /\ Implements
<1>1. Mishaps \in Nat /\ Mishaps' = Mishaps
  BY MishapsCounted DEF WorkInv, Mishaps
<1>2. Histories' /\ Embedded' /\ Genuine' /\ OwnRun' /\ Unanswered'
  BY <1>1, MoveKeeps DEF OnceInv, Histories
<1>3. ASSUME NEW e \in Events PROVE Balanced(e)'
  <2>1. /\ runs' = runs /\ EventOf' = EventOf /\ idem' = idem
        /\ pc'[d] = l /\ \A c \in Dels : c # d => pc'[c] = pc[c]
    BY DEF Moved, EventOf, WorkInv, Shaped, Goto
  <2>2. \A c \in Dels : c # d /\ MayRun(c)' => MayRun(c)
    BY MayAfter
  <2>3. \A c \in Dels : Stale(e, c)' => Stale(e, c)
    <3>1. SessionOf[e] \in Sessions /\ None \notin Dels
      BY EventAssumption
    <3> QED BY <2>1, <3>1 DEF Stale, Session
  <2>4. Keeper(e) = None => (Open(e) <=> idem[e] = None)
    BY EventAssumption DEF Open
  <2>5. Open(e)' => Open(e)
    <3>1. CASE Keeper(e)' = Keeper(e)
      <4>1. EventOf[d] = e => Keeper(e) # d
        BY EventAssumption
      <4> QED BY <2>1, <3>1, <4>1, MayAfter DEF Open
    <3>2. CASE Keeper(e) = None
      BY <2>1, <2>4, <3>2 DEF Open
    <3> QED BY <3>1, <3>2
  <2>6. CASE EventOf[d] = e /\ idem[e] = None
    <3>1. Debts(e)' \subseteq Debts(e) \cup {<<d, "may">>}
      BY <2>1, <2>2, <2>3, <2>5, DebtsAfter
    <3>2. Open(e) /\ ~Open(e)'
      BY <2>1, <2>4, <2>6, MayAfter DEF Open
    <3>3. <<None, "open">> \in Debts(e) /\ <<None, "open">> \notin Debts(e)'
      BY <3>2 DEF Debts
    <3> QED BY <1>1, <3>1, <3>3, Exchanged DEF OnceInv
  <2>7. CASE EventOf[d] # e \/ idem[e] # None
    <3>1. \A c \in Dels : EventOf[c] = e /\ MayRun(c)' => MayRun(c)
      BY <2>2, <2>7, MayAfter
    <3>2. Debts(e)' \subseteq Debts(e) \cup {}
      BY <2>1, <2>3, <2>5, <3>1, DebtsAfter
    <3> QED BY <1>1, <3>2, NoDebt DEF OnceInv
  <2> QED BY <2>6, <2>7
<1>4. Implements
  BY MoveImplements
<1> QED BY <1>2, <1>3, <1>4 DEF OnceInv, Paid, Balanced

--------------------------------------------------------------------------------
(* The steps of a delivery, one at a time.                                     *)

LEMMA KeeperSame ==
  ASSUME UNCHANGED <<inst, slock, inflight>>
  PROVE  \A e \in Events : Keeper(e)' = Keeper(e)
BY DEF Keeper

LEMMA InHandSame ==
  ASSUME Histories, NEW d \in Dels
  PROVE  /\ [res EXCEPT ![d] = res[d]] = res
         /\ [answer EXCEPT ![d] = answer[d]] = answer
BY DEF Histories

LEMMA LineFacts ==
  ASSUME OnceInv, WorkInv, NEW d \in Dels, pc[d] # "new"
  PROVE  /\ EventOf[d] \in Events
         /\ idem[EventOf[d]] # None =>
              idem[EventOf[d]] \in Results /\ idem[EventOf[d]].by \in runs[EventOf[d]]
         /\ res[d] # None => res[d] \in Results /\ res[d].by \in runs[EventOf[d]]
         /\ inst.host = "embed" => pc[d] \notin {"lock", "unlock", "unlock2"} /\ at[d] = Only
         /\ inst.host \in Hosts
         /\ Left \in Out /\ Left # "unlock2" /\ (inst.host = "embed" => Left = "done")
<1>1. EventOf[d] \in Events /\ inst.host \in Hosts
  BY EventAssumption DEF WorkInv, Placed, Shaped
<1>2. Left \in Out /\ Left # "unlock2" /\ (inst.host = "embed" => Left = "done")
  BY DEF Left, Out
<1> QED BY <1>1, <1>2 DEF OnceInv, Histories, Genuine, Embedded

LEMMA LockTimeoutOnce ==
  ASSUME OnceInv, WorkInv, NEW d \in Dels, LockTimeout(d) \/ TakeClaimLock(d) \/ Wake(d) \/ Unlock(d)
  PROVE  OnceInv' /\ Implements
<1>1. pc[d] # "new" /\ UNCHANGED <<inst, slock, inflight, at, n, idem, runs, res, answer>>
  BY DEF LockTimeout, TakeClaimLock, Wake, Unlock, redis, proc, hist
<1>2. PICK l : /\ Goto(d, l)
               /\ \/ pc[d] = "lock" /\ l = "done"
                  \/ pc[d] = "claim" /\ l = "look"
                  \/ pc[d] = "wait" /\ l = "claim"
                  \/ pc[d] = "unlock" /\ l = "done"
                  \/ pc[d] = "unlock" /\ l = "unlock2" /\ slock[Session(d)] = d
  BY DEF LockTimeout, TakeClaimLock, Wake, Unlock
<1>3. Moved(d, l, res[d], answer[d])
  BY <1>1, <1>2, InHandSame DEF Moved, OnceInv
<1>4. Fit(d, l, res[d], answer[d])
  BY <1>1, <1>2, LineFacts DEF Fit, Before, Within, Told, Out
<1>5. Level(d, l, res[d])
  BY <1>2 DEF Level, MayAt, WillAt, Busy, MayRun, WillRecord, Asking, Before, Within
<1> QED BY <1>1, <1>3, <1>4, <1>5, KeeperSame, LevelStep

LEMMA GetOnce ==
  ASSUME OnceInv, WorkInv, NEW d \in Dels, Get(d)
  PROVE  OnceInv' /\ Implements
<1> DEFINE a == idem[EventOf[d]]
<1>1. pc[d] = "get" /\ UNCHANGED <<inst, slock, inflight, at, n, idem, runs, res>>
  BY DEF Get, redis, proc
<1>2. answer[d] = None
  BY <1>1 DEF OnceInv, Unanswered
<1>3. PICK l : Goto(d, l) /\ l = IF a # None THEN Left ELSE "claim"
  BY DEF Get
<1>4. Moved(d, l, res[d], a)
  BY <1>1, <1>3, InHandSame DEF Moved, OnceInv, Get
<1>5. Fit(d, l, res[d], a)
  BY <1>1, <1>2, <1>3, LineFacts DEF Fit, Answerable, Before, Within, Told, Out
<1>6. Level(d, l, res[d])
  BY <1>1, <1>3, LineFacts DEF Level, MayAt, WillAt, Busy, MayRun, WillRecord, Asking, Before, Within, Out
<1> QED BY <1>1, <1>4, <1>5, <1>6, KeeperSame, LevelStep

LEMMA LookOnce ==
  ASSUME OnceInv, WorkInv, NEW d \in Dels, Look(d) \/ Recheck(d)
  PROVE  OnceInv' /\ Implements
<1> DEFINE r == idem[EventOf[d]]
<1>1. pc[d] # "new" /\ UNCHANGED <<inst, slock, inflight, at, n, idem, runs, answer>>
  BY DEF Look, Recheck, redis, proc, hist
<1>2. PICK l : /\ Goto(d, l)
               /\ \/ pc[d] = "look" /\ l = "settle"
                  \/ pc[d] = "recheck" /\ l = IF r # None THEN "finish" ELSE "gate"
  BY DEF Look, Recheck
<1>3. Moved(d, l, r, answer[d])
  BY <1>1, <1>2, InHandSame DEF Moved, OnceInv, Look, Recheck
<1>4. Fit(d, l, r, answer[d])
  BY <1>1, <1>2, LineFacts DEF Fit, Before, Within, Told, Out
<1>5. Level(d, l, r)
  BY <1>2, LineFacts DEF Level, MayAt, WillAt, Busy, MayRun, WillRecord, Asking, Before, Within
<1> QED BY <1>1, <1>3, <1>4, <1>5, KeeperSame, LevelStep

LEMMA ExecuteOnce ==
  ASSUME OnceInv, WorkInv, NEW d \in Dels, NEW ok \in BOOLEAN, Execute(d, ok)
  PROVE  OnceInv' /\ Implements
<1> DEFINE r == [by |-> d, ok |-> ok]
<1>1. pc[d] = "run" /\ UNCHANGED <<inst, slock, inflight, at, n, idem, runs, answer>>
  BY DEF Execute, redis, proc, hist
<1>2. r \in Results /\ r # None /\ r.by = d /\ d \in runs[EventOf[d]]
  BY <1>1, NoneAssumption DEF Results, OnceInv, OwnRun, Within
<1>3. Moved(d, "compare", r, answer[d])
  BY <1>1, InHandSame DEF Moved, OnceInv, Execute
<1> HIDE DEF r
<1>4. Fit(d, "compare", r, answer[d])
  BY <1>1, <1>2 DEF Fit, Before, Within, Told, Out
<1>5. Level(d, "compare", r)
  BY <1>1, <1>2 DEF Level, MayAt, WillAt, Busy, MayRun, Asking, Before, Within
<1> QED BY <1>1, <1>3, <1>4, <1>5, KeeperSame, LevelStep

LEMMA CompareOnce ==
  ASSUME OnceInv, WorkInv, NEW d \in Dels, Compare(d) \/ Delete(d)
  PROVE  OnceInv' /\ Implements
<1>1. pc[d] \in {"compare", "delete"} /\ UNCHANGED <<inst, slock, inflight, at, n, idem, runs, res, answer>>
  BY DEF Compare, Delete, redis, proc, hist
<1>2. PICK l : /\ Goto(d, l)
               /\ \/ l = "delete"
                  \/ l = IF res[d] # None THEN "put" ELSE "finish"
  BY DEF Compare, Delete, AfterGate
<1>3. Moved(d, l, res[d], answer[d])
  BY <1>1, <1>2, InHandSame DEF Moved, OnceInv
<1>4. res[d] # None => res[d].by = d
  BY <1>1 DEF OnceInv, OwnRun, Within
<1>5. Fit(d, l, res[d], answer[d])
  BY <1>1, <1>2, <1>4, LineFacts DEF Fit, Before, Within, Told, Out
<1>6. Level(d, l, res[d])
  BY <1>1, <1>2 DEF Level, MayAt, WillAt, Busy, MayRun, WillRecord, Asking, Before, Within
<1> QED BY <1>1, <1>3, <1>5, <1>6, KeeperSame, LevelStep

LEMMA CallbackOnce ==
  ASSUME OnceInv, WorkInv, NEW d \in Dels, Callback(d)
  PROVE  OnceInv' /\ Implements
<1>1. pc[d] = "callback" /\ UNCHANGED <<inst, slock, inflight, at, n, idem, runs>>
  BY DEF Callback, redis, proc
<1>2. /\ answer[d] = None
      /\ res[d] # None /\ Mishaps = 0 => res[d] = idem[EventOf[d]]
  BY <1>1 DEF OnceInv, Unanswered, Told
<1>3. Moved(d, Left, None, res[d])
  BY <1>1 DEF Moved, Callback
<1>4. Left \in Out /\ Left # "unlock2" /\ Left \notin {"gate", "run"} \cup Before \cup Within \cup Told
  BY DEF Left, Out, Before, Within, Told
<1>5. Fit(d, Left, None, res[d])
  BY <1>1, <1>2, <1>4, LineFacts DEF Fit, Answerable, Out, Before, Within
<1>6. Level(d, Left, None)
  BY <1>1, <1>4 DEF Level, MayAt, WillAt, Busy, MayRun, WillRecord, Asking, Before, Within
<1> QED BY <1>1, <1>3, <1>5, <1>6, KeeperSame, LevelStep

LEMMA LockOnce ==
  ASSUME OnceInv, WorkInv, NEW d \in Dels, Lock(d)
  PROVE  OnceInv' /\ Implements
<1> DEFINE s == Session(d)
<1>1. /\ pc[d] = "lock" /\ slock[s] = None /\ slock' = [slock EXCEPT ![s] = d]
      /\ UNCHANGED <<inst, inflight, at, n, idem, runs, res, answer>>
  BY DEF Lock, proc, hist
<1>2. EventOf[d] \in Events /\ inst.host = "serve" /\ s \in Sessions
  BY <1>1, LineFacts, Installed DEF Hosts, WorkInv
<1>3. Moved(d, "get", res[d], answer[d])
  BY <1>1, InHandSame DEF Moved, OnceInv, Lock
<1>4. Fit(d, "get", res[d], answer[d])
  BY <1>1, LineFacts DEF Fit, Before, Within, Told, Out
<1>5. /\ slock' \in [Sessions -> Dels \cup {None}]
      /\ slock'[s] = d /\ \A t \in Sessions : slock'[t] = slock[t] \/ (slock[t] = None /\ slock'[t] = d)
  BY <1>1, <1>2 DEF OnceInv, Histories
<1>6. /\ Keeper(EventOf[d]) = None /\ Keeper(EventOf[d])' = d
      /\ \A e \in Events : Keeper(e)' = Keeper(e) \/ Keeper(e) = None
  BY <1>1, <1>2, <1>5, EventAssumption DEF Keeper, Session, EventOf
<1>7. ~Busy(d) /\ (MayAt(d, "get") <=> idem[EventOf[d]] = None)
  BY <1>1, <1>2 DEF MayAt, Busy, MayRun, WillRecord, Asking, Before, Within
<1> QED BY <1>1, <1>3, <1>4, <1>5, <1>6, <1>7, TakeStep

LEMMA GateTimeoutOnce ==
  ASSUME OnceInv, WorkInv, NEW d \in Dels, GateTimeout(d)
  PROVE  OnceInv' /\ Implements
<1>1. pc[d] = "gate" /\ res[d] = None /\ UNCHANGED <<inst, slock, inflight, at, n, idem, runs, res, answer>>
  BY DEF GateTimeout, redis, proc, hist, OnceInv, OwnRun
<1>2. Moved(d, "finish", res[d], answer[d])
  BY <1>1, InHandSame DEF Moved, OnceInv, GateTimeout
<1>3. Fit(d, "finish", res[d], answer[d])
  BY <1>1 DEF Fit, Before, Within, Told, Out
<1>4. MayRun(d) /\ ~MayAt(d, "finish")
  BY <1>1 DEF MayAt, MayRun, Asking, Before
<1> QED BY <1>1, <1>2, <1>3, <1>4, KeeperSame, GiveUpStep

LEMMA SettleOnce ==
  ASSUME OnceInv, WorkInv, NEW d \in Dels, Settle(d)
  PROVE  OnceInv' /\ Implements
<1> DEFINE p == at[d]
           e == EventOf[d]
<1>1. pc[d] = "settle" /\ UNCHANGED <<inst, slock, at, n, idem, runs>> /\ res' = [res EXCEPT ![d] = None]
  BY DEF Settle, redis
<1>2. /\ answer[d] = None
      /\ res[d] # None /\ Mishaps = 0 => res[d] = idem[e]
  BY <1>1 DEF OnceInv, Unanswered, Told
<1>3. CASE res[d] # None
  <2>1. inflight' = inflight /\ Moved(d, Left, None, res[d])
    BY <1>1, <1>3 DEF Moved, Settle
  <2>2. Left \in Out /\ Left # "unlock2" /\ Left \notin {"gate", "run"} \cup Before \cup Within \cup Told
    BY DEF Left, Out, Before, Within, Told
  <2>3. Fit(d, Left, None, res[d])
    BY <1>1, <1>2, <1>3, <2>2, LineFacts DEF Fit, Answerable, Out, Before, Within
  <2>4. ~MayAt(d, Left) /\ ~WillRecord(d)
    BY <1>1, <2>2 DEF MayAt, WillRecord, Asking, Before, Within
  <2>5. CASE MayRun(d)
    BY <1>1, <2>1, <2>2, <2>3, <2>4, <2>5, KeeperSame, GiveUpStep
  <2>6. CASE ~MayRun(d)
    <3>1. Level(d, Left, None)
      BY <2>2, <2>4, <2>6 DEF Level, Busy
    <3> QED BY <1>1, <2>1, <2>3, <3>1, KeeperSame, LevelStep
  <2> QED BY <2>5, <2>6
<1>4. CASE /\ res[d] = None /\ inflight[p][e] = None /\ Goto(d, "recheck")
           /\ inflight' = [inflight EXCEPT ![p][e] = d] /\ UNCHANGED answer
  <2>1. Moved(d, "recheck", None, answer[d])
    BY <1>1, <1>4, InHandSame DEF Moved, OnceInv
  <2>2. Fit(d, "recheck", None, answer[d])
    BY <1>1, LineFacts DEF Fit, Before, Within, Told, Out
  <2>3. CASE inst.host = "serve"
    <3>1. \A f \in Events : Keeper(f)' = Keeper(f)
      BY <1>1, <2>3 DEF Keeper
    <3>2. Level(d, "recheck", None)
      BY <1>1, <2>3 DEF Level, MayAt, MayRun, WillRecord, Busy, Asking, Before, Within
    <3> QED BY <1>1, <2>1, <2>2, <3>1, <3>2, LevelStep
  <2>4. CASE inst.host = "embed"
    <3>1. p = Only /\ p \in Procs /\ e \in Events
      BY <1>1, <2>4, LineFacts DEF WorkInv, Placed
    <3>2. \A f \in Events : inflight'[Only][f] = IF f = e THEN d ELSE inflight[Only][f]
      BY <1>4, <3>1 DEF WorkInv, Shaped
    <3>3. /\ Keeper(e) = None /\ Keeper(e)' = d
          /\ \A f \in Events : Keeper(f)' = Keeper(f) \/ Keeper(f) = None
      BY <1>1, <1>4, <2>4, <3>1, <3>2 DEF Keeper, EventOf
    <3>4. ~Busy(d) /\ (MayAt(d, "recheck") <=> idem[e] = None)
      BY <1>1, <2>4 DEF MayAt, Busy, MayRun, WillRecord, Asking, Within
    <3>5. slock' \in [Sessions -> Dels \cup {None}]
      BY <1>1 DEF OnceInv, Histories
    <3> QED BY <1>1, <2>1, <2>2, <3>3, <3>4, <3>5, TakeStep
  <2> QED BY <1>1, <2>3, <2>4, LineFacts DEF Hosts
<1>5. CASE res[d] = None /\ Goto(d, "wait") /\ UNCHANGED <<inflight, answer>>
  <2>1. Moved(d, "wait", None, answer[d])
    BY <1>1, <1>5, InHandSame DEF Moved, OnceInv
  <2>2. Fit(d, "wait", None, answer[d])
    BY <1>1, LineFacts DEF Fit, Before, Within, Told, Out
  <2>3. Level(d, "wait", None)
    BY <1>1 DEF Level, MayAt, MayRun, WillRecord, Busy, Asking, Before, Within
  <2> QED BY <1>1, <1>5, <2>1, <2>2, <2>3, KeeperSame, LevelStep
<1> QED BY <1>3, <1>4, <1>5 DEF Settle

LEMMA FinishOnce ==
  ASSUME OnceInv, WorkInv, NEW d \in Dels, FinishInflight(d)
  PROVE  OnceInv' /\ Implements
<1> DEFINE own == res[d] # None /\ res[d].by = d
           l == IF own THEN "callback" ELSE Left
           r == IF own THEN res[d] ELSE None
           a == IF own THEN answer[d] ELSE res[d]
<1>1. pc[d] = "finish" /\ UNCHANGED <<inst, slock, at, n, idem, runs>>
  BY DEF FinishInflight, redis
<1>2. /\ answer[d] = None
      /\ res[d] # None /\ Mishaps = 0 => res[d] = idem[EventOf[d]]
  BY <1>1 DEF OnceInv, Unanswered, Told
<1>3. Moved(d, l, r, a)
  BY <1>1, InHandSame DEF Moved, FinishInflight, OnceInv
<1>4. Left \in Out /\ Left # "unlock2" /\ Left \notin {"gate", "run"} \cup Before \cup Within \cup Told
  BY DEF Left, Out, Before, Within, Told
<1>5. ASSUME own PROVE Fit(d, l, r, a)
  <2>1. Fit(d, "callback", res[d], answer[d])
    BY <1>1, <1>2, <1>5, LineFacts DEF Fit, Before, Within, Told, Out
  <2>2. l = "callback" /\ r = res[d] /\ a = answer[d]
    BY <1>5
  <2> HIDE DEF l, r, a
  <2> QED BY <2>1, <2>2
<1>6. ASSUME ~own PROVE Fit(d, l, r, a)
  <2>1. Fit(d, Left, None, res[d])
    BY <1>1, <1>2, <1>4, <1>6, LineFacts DEF Fit, Answerable, Out, Before, Within
  <2>2. l = Left /\ r = None /\ a = res[d]
    BY <1>6
  <2> HIDE DEF l, r, a
  <2> QED BY <2>1, <2>2
<1>7. Fit(d, l, r, a) /\ Level(d, l, r)
  <2>1. Fit(d, l, r, a)
    <3> HIDE DEF l, r, a
    <3> QED BY <1>5, <1>6
  <2>2. l \in {"callback", Left} /\ ~Busy(d)
    BY <1>1 DEF Busy, MayRun, WillRecord, Asking, Before, Within
  <2>3. ~MayAt(d, l) /\ l # "unlock2"
    BY <1>4, <2>2 DEF MayAt, Asking, Before
  <2> QED BY <2>1, <2>2, <2>3 DEF Level
<1>8. ASSUME NEW e \in Events PROVE Keeper(e)' = Keeper(e) \/ (Keeper(e) = d /\ ~Busy(d))
  <2>1. CASE inst.host = "serve"
    BY <1>1, <2>1 DEF Keeper
  <2>2. CASE inst.host # "serve"
    <3>1. /\ at[d] = Only /\ Only \in Procs /\ EventOf[d] \in Events /\ inflight[at[d]][EventOf[d]] = d
      BY <1>1, <2>2, LineFacts DEF Hosts, WorkInv, Placed, ClaimsOwned, Claiming
    <3>2. inflight'[Only] = [inflight[Only] EXCEPT ![EventOf[d]] = None]
      BY <3>1 DEF FinishInflight, WorkInv, Shaped
    <3>3. inflight[Only] \in [Events -> Dels \cup {None}]
      BY <3>1 DEF WorkInv, Shaped
    <3>4. ~Busy(d)
      BY <1>1 DEF Busy, MayRun, WillRecord, Asking, Before, Within
    <3> QED BY <1>1, <2>2, <3>1, <3>2, <3>3, <3>4 DEF Keeper
  <2> QED BY <2>1, <2>2
<1> HIDE DEF l, r, a
<1> QED BY <1>1, <1>3, <1>7, <1>8, LevelStep

(* A session lock is deleted: the next delivery may run, or a delivery that is *)
(* about to delete it has lost it.                                             *)
FreedBy(s) ==
  IF slock[s] \in Dels /\ pc[slock[s]] = "unlock2" THEN <<slock[s], "stale">> ELSE <<None, "open">>

LEMMA Freed ==
  ASSUME OnceInv, WorkInv, NEW s \in Sessions, NEW e \in Events,
         UNCHANGED <<inst, idem, runs, inflight>>, slock' = [slock EXCEPT ![s] = None],
         \A c \in Dels : \/ pc'[c] = pc[c] /\ res'[c] = res[c]
                         \/ ~Busy(c) /\ pc'[c] \notin Before \cup Within \cup {"unlock2"}
  PROVE  /\ Debts(e)' \subseteq Debts(e) \cup {FreedBy(s)}
         /\ SessionOf[e] # s \/ slock[s] \notin Active => Debts(e)' \subseteq Debts(e)
<1>1. /\ SessionOf[e] \in Sessions /\ None \notin Dels /\ EventOf' = EventOf
      /\ slock'[s] = None /\ \A t \in Sessions : t # s => slock'[t] = slock[t]
  BY EventAssumption DEF OnceInv, Histories, EventOf
<1>2. \A c \in Dels : /\ MayRun(c)' => MayRun(c)
                      /\ Busy(c) => Busy(c)'
  BY <1>1 DEF MayRun, WillRecord, Busy, Asking, Before, Within
<1>3. \A c \in Dels : Stale(e, c)' =>
         Stale(e, c) \/ (SessionOf[e] = s /\ slock[s] = c /\ pc[c] = "unlock2")
  BY <1>1 DEF Stale, Session
<1>4. Keeper(e)' = Keeper(e) \/ (inst.host = "serve" /\ SessionOf[e] = s /\ Keeper(e) = slock[s])
  BY <1>1 DEF Keeper
<1>5. ASSUME Open(e)', ~Open(e)
      PROVE  SessionOf[e] = s /\ slock[s] \in Dels /\ Busy(slock[s])
  <2>1. PICK d \in Dels : Keeper(e) = d /\ EventOf[d] = e /\ Busy(d)
    BY <1>5 DEF Open, Busy
  <2>2. Keeper(e)' # Keeper(e)
    BY <1>1, <1>2, <1>5, <2>1 DEF Open, Busy
  <2> QED BY <1>4, <2>1, <2>2
<1>6. \A d \in Dels : Busy(d) => pc[d] # "unlock2" /\ d \in Active
  BY DEF Busy, MayRun, WillRecord, Asking, Before, Within, Active
<1>7. Debts(e)' \subseteq Debts(e) \cup {FreedBy(s)}
  <2>1. \A c \in Dels : Stale(e, c)' => Stale(e, c) \/ <<c, "stale">> \in {FreedBy(s)}
    BY <1>3 DEF FreedBy
  <2>2. Open(e)' => Open(e) \/ <<None, "open">> \in {FreedBy(s)}
    BY <1>5, <1>6 DEF FreedBy
  <2> QED BY <1>1, <1>2, <2>1, <2>2, DebtsAfter
<1>8. ASSUME SessionOf[e] # s \/ slock[s] \notin Active PROVE Debts(e)' \subseteq Debts(e)
  <2>1. \A c \in Dels : Stale(e, c)' => Stale(e, c)
    BY <1>3, <1>8 DEF Active
  <2>2. Open(e)' => Open(e)
    BY <1>5, <1>6, <1>8
  <2>3. Debts(e)' \subseteq Debts(e) \cup {}
    BY <1>1, <1>2, <2>1, <2>2, DebtsAfter
  <2> QED BY <2>3
<1> QED BY <1>7, <1>8

LEMMA UnlockOnce ==
  ASSUME OnceInv, WorkInv, NEW d \in Dels, Unlock2(d)
  PROVE  OnceInv' /\ Implements
<1> DEFINE s == Session(d)
<1>1. /\ pc[d] = "unlock2" /\ slock' = [slock EXCEPT ![s] = None]
      /\ UNCHANGED <<inst, inflight, at, n, idem, runs, res, answer>>
  BY DEF Unlock2, proc, hist
<1>2. s \in Sessions
  BY <1>1, LineFacts, Installed DEF WorkInv
<1>3. Moved(d, "done", res[d], answer[d]) /\ Fit(d, "done", res[d], answer[d])
  BY <1>1, InHandSame, LineFacts DEF Moved, OnceInv, Unlock2, Fit, Before, Within, Told, Out
<1>4. Mishaps \in Nat /\ Mishaps' = Mishaps
  BY <1>1, MishapsCounted DEF WorkInv, Mishaps
<1>5. Histories' /\ Embedded' /\ Genuine' /\ OwnRun' /\ Unanswered'
  <2>1. slock' \in [Sessions -> Dels \cup {None}]
    BY <1>1 DEF OnceInv, Histories
  <2> QED BY <1>3, <1>4, <2>1, MoveKeeps
<1>6. /\ pc'[d] = "done" /\ \A c \in Dels : c # d => pc'[c] = pc[c]
      /\ ~Busy(d)
  BY <1>1 DEF WorkInv, Shaped, Unlock2, Goto, Busy, MayRun, WillRecord, Asking, Before, Within
<1>7. ASSUME NEW e \in Events PROVE Balanced(e)'
  <2>1. /\ Debts(e)' \subseteq Debts(e) \cup {FreedBy(s)}
        /\ SessionOf[e] # s => Debts(e)' \subseteq Debts(e)
    BY <1>1, <1>2, <1>6, Freed DEF Before, Within
  <2>2. <<d, "stale">> \notin Debts(e)'
    BY <1>6 DEF Debts, Stale
  <2>3. CASE SessionOf[e] # s
    BY <1>4, <2>1, <2>3, NoDebt DEF OnceInv
  <2>4. CASE slock[s] = d
    <3>1. FreedBy(s) = <<d, "stale">>
      BY <1>1, <2>4 DEF FreedBy
    <3>2. Debts(e)' \subseteq Debts(e)
      BY <2>1, <2>2, <3>1
    <3> QED BY <1>4, <3>2, NoDebt DEF OnceInv
  <2>5. CASE SessionOf[e] = s /\ slock[s] # d
    <3>1. <<d, "stale">> \in Debts(e)
      BY <1>1, <2>5 DEF Debts, Stale
    <3> QED BY <1>4, <2>1, <2>2, <3>1, Exchanged DEF OnceInv
  <2> QED BY <2>3, <2>4, <2>5
<1>8. Implements
  BY <1>1, <1>3, MoveImplements
<1> QED BY <1>5, <1>7, <1>8 DEF OnceInv, Paid, Balanced
LEMMA ArriveOnce ==
  ASSUME OnceInv, WorkInv, NEW d \in Dels, NEW p \in Receivers, Arrive(d, p)
  PROVE  OnceInv' /\ Implements
<1> DEFINE l == IF inst.host = "serve" THEN "lock" ELSE "get"
<1>1. /\ pc[d] = "new" /\ EventOf[d] # None /\ at' = [at EXCEPT ![d] = p]
      /\ UNCHANGED <<inst, slock, inflight, n, idem, runs, res, answer>>
  BY DEF Arrive, redis, proc, hist
<1>2. /\ pc'[d] = l /\ \A c \in Dels : c # d => pc'[c] = pc[c]
      /\ at'[d] = p /\ \A c \in Dels : c # d => at'[c] = at[c]
      /\ EventOf' = EventOf
  BY <1>1 DEF Arrive, Goto, WorkInv, Shaped, EventOf
<1>3. inst.host \in Hosts /\ EventOf[d] \in Events
  BY <1>1, Installed, EventAssumption DEF WorkInv, Shaped
<1>4. inst.host = "embed" => p = Only
  BY DEF Receivers, Only
<1>5. l \in {"lock", "get"} /\ (inst.host = "embed" => l = "get") /\ (l = "get" => inst.host = "embed")
  BY <1>3 DEF Hosts
<1> HIDE DEF l
<1>6. Mishaps \in Nat /\ Mishaps' = Mishaps
  BY <1>1, MishapsCounted DEF WorkInv, Mishaps
<1>7. Histories' /\ Embedded' /\ Genuine'
  BY <1>1, <1>2, <1>4, <1>5 DEF OnceInv, Histories, Embedded, Genuine
<1>8. OwnRun' /\ Unanswered'
  <2>1. OwnRun'
    BY <1>1, <1>2, <1>5 DEF OnceInv, OwnRun, Before, Within
  <2>2. Unanswered'
    BY <1>1, <1>2, <1>5, <1>6 DEF OnceInv, Unanswered, Told
  <2> QED BY <2>1, <2>2
<1>9. ASSUME NEW e \in Events PROVE Balanced(e)'
  <2>1. \A c \in Dels : (MayRun(c)' <=> MayRun(c)) /\ (WillRecord(c)' <=> WillRecord(c))
    <3>1. Asking' = Asking
      BY <1>1 DEF Asking
    <3>2. ~MayRun(d) /\ ~WillRecord(d) /\ ~MayRun(d)' /\ ~WillRecord(d)'
      BY <1>1, <1>2, <1>3, <1>5 DEF MayRun, WillRecord, Asking, Before, Within, Hosts
    <3>3. ASSUME NEW c \in Dels, c # d
          PROVE  (MayRun(c)' <=> MayRun(c)) /\ (WillRecord(c)' <=> WillRecord(c))
      BY <1>1, <1>2, <3>1, <3>3 DEF MayRun, WillRecord
    <3> QED BY <3>2, <3>3
  <2>2. \A c \in Dels : Stale(e, c)' => Stale(e, c)
    BY <1>1, <1>2, <1>5 DEF Stale, Session
  <2>3. Open(e)' => Open(e)
    BY <1>1, <1>2, <2>1 DEF Open, Keeper
  <2>4. Debts(e)' \subseteq Debts(e) \cup {}
    BY <1>1, <1>2, <2>1, <2>2, <2>3, DebtsAfter
  <2> QED BY <1>6, <2>4, NoDebt DEF OnceInv
<1>10. Implements
  <2> DEFINE of == [c \in Dels |-> IF pc[c] = "new" THEN None ELSE EventOf[c]]
             after == [c \in Dels |-> IF pc'[c] = "new" THEN None ELSE EventOf'[c]]
  <2>1. after = [of EXCEPT ![d] = EventOf[d]]
    BY <1>1, <1>2, <1>5
  <2>2. PICK e \in Events : e = EventOf[d]
    BY <1>3
  <2>3. Once!Arrive(d, e)
    BY <1>1, <1>6, <2>1, <2>2 DEF Once!Arrive
  <2> HIDE DEF of, after
  <2> QED BY <2>3 DEF Implements, Once!Next
<1> QED BY <1>7, <1>8, <1>9, <1>10 DEF OnceInv, Paid, Balanced

(* There are no more runs than mishaps as long as a delivery may still run.    *)
LEMMA RunsPaid ==
  ASSUME Paid, NEW e \in Events, NEW d \in Dels, EventOf[d] = e, MayRun(d), Mishaps \in Nat
  PROVE  Cardinality(runs[e]) <= Mishaps
<1> DEFINE D == Debts(e)
           x == <<d, "may">>
           T == D \ {x}
           f == [c \in runs[e] |-> <<c, "ran">>]
<1>1. IsFiniteSet(D) /\ Cardinality(D) <= Mishaps + 1 /\ x \in D
  BY DEF Paid, Debts
<1>2. f \in Injection(runs[e], T)
  <2>1. \A c \in runs[e] : <<c, "ran">> \in T
    BY DEF Debts
  <2>2. f \in [runs[e] -> T]
    BY <2>1
  <2>3. \A b, c \in runs[e] : f[b] = f[c] => b = c
    OBVIOUS
  <2> HIDE DEF f, T
  <2> QED BY <2>2, <2>3 DEF Injection, IsInjective
<1> HIDE DEF D, x
<1>3. IsFiniteSet(T) /\ Cardinality(T) = Cardinality(D) - 1
  BY <1>1, FS_RemoveElement
<1> HIDE DEF T, f
<1>4. IsFiniteSet(runs[e]) /\ Cardinality(runs[e]) <= Cardinality(T)
  BY <1>2, <1>3, FS_Injection
<1>5. Cardinality(D) \in Nat /\ Cardinality(T) \in Nat /\ Cardinality(runs[e]) \in Nat
  BY <1>1, <1>3, <1>4, FS_CardinalityType
<1> QED BY <1>1, <1>3, <1>4, <1>5

LEMMA EnterOnce ==
  ASSUME OnceInv, WorkInv, NEW d \in Dels, Enter(d)
  PROVE  OnceInv' /\ Implements
<1> DEFINE e == EventOf[d]
<1>1. /\ pc[d] = "gate" /\ runs' = [runs EXCEPT ![e] = runs[e] \cup {d}]
      /\ UNCHANGED <<inst, slock, inflight, at, n, idem, res, answer>>
  BY DEF Enter, proc
<1>2. /\ pc'[d] = "run" /\ \A c \in Dels : c # d => pc'[c] = pc[c]
      /\ EventOf' = EventOf /\ e \in Events
  BY <1>1, LineFacts DEF Enter, Goto, WorkInv, Shaped, EventOf
<1>3. /\ runs' \in [Events -> SUBSET Dels]
      /\ runs'[e] = runs[e] \cup {d} /\ \A f \in Events : f # e => runs'[f] = runs[f]
      /\ \A f \in Events : d \notin runs[f]
  BY <1>1, <1>2 DEF OnceInv, Histories, OwnRun, Before
<1>4. Mishaps \in Nat /\ Mishaps' = Mishaps
  BY <1>1, MishapsCounted DEF WorkInv, Mishaps
<1>5. res[d] = None
  BY <1>1 DEF OnceInv, OwnRun
<1>6. Histories' /\ Embedded' /\ Unanswered'
  BY <1>1, <1>2, <1>3, <1>4 DEF OnceInv, Histories, Embedded, Unanswered, Told
<1>7. Genuine'
  BY <1>1, <1>2, <1>3 DEF OnceInv, Genuine, Placed, WorkInv
<1>8. OwnRun'
  <2> SUFFICES ASSUME NEW c \in Dels
               PROVE  /\ pc'[c] \in Before \cup {"new"} => \A f \in Events : c \notin runs'[f]
                      /\ pc'[c] = "gate" => res'[c] = None
                      /\ pc'[c] = "put" => res'[c] # None
                      /\ pc'[c] \in Within =>
                           /\ c \in runs'[EventOf[c]]
                           /\ res'[c] # None => res'[c].by = c
                           /\ idem'[EventOf[c]] # None => idem'[EventOf[c]].by # c
    BY <1>2 DEF OwnRun
  <2>1. CASE c # d
    <3>1. pc'[c] \in Within => EventOf[c] \in Events
      BY <1>2, <2>1 DEF WorkInv, Placed, Within
    <3> QED BY <1>1, <1>2, <1>3, <2>1, <3>1 DEF OnceInv, OwnRun
  <2>2. CASE c = d
    <3>1. idem[e] # None => idem[e].by # d
      BY <1>2, <1>3 DEF OnceInv, Genuine
    <3> QED BY <1>1, <1>2, <1>3, <1>5, <2>2, <3>1 DEF Before
  <2> QED BY <2>1, <2>2
<1>9. ASSUME NEW f \in Events PROVE Balanced(f)'
  <2>1. /\ ~MayRun(d)' /\ WillRecord(d)' /\ MayRun(d)
        /\ \A c \in Dels : c # d => (MayRun(c)' <=> MayRun(c)) /\ (WillRecord(c)' <=> WillRecord(c))
    BY <1>1, <1>2 DEF MayRun, WillRecord, Asking, Before
  <2>2. \A c \in Dels : Stale(f, c)' => Stale(f, c)
    BY <1>1, <1>2 DEF Stale, Session
  <2>3. Open(f)' => Open(f)
    BY <1>1, <1>2, <2>1 DEF Open, Keeper
  <2>4. CASE f # e
    <3>1. Debts(f)' \subseteq Debts(f) \cup {}
      BY <1>2, <1>3, <2>1, <2>2, <2>3, <2>4, DebtsAfter
    <3> QED BY <1>4, <3>1, NoDebt DEF OnceInv
  <2>5. CASE f = e
    <3>1. Debts(f)' \subseteq Debts(f) \cup {<<d, "ran">>}
      <4>1. \A c \in runs'[f] : c \in runs[f] \/ <<c, "ran">> \in {<<d, "ran">>}
        BY <1>3, <2>5
      <4>2. \A c \in Dels : EventOf'[c] = f /\ MayRun(c)' => EventOf[c] = f /\ MayRun(c)
        BY <1>2, <2>1
      <4> HIDE DEF e
      <4> QED BY <4>1, <4>2, <2>2, <2>3, DebtsAfter
    <3>2. <<d, "may">> \in Debts(f) /\ <<d, "may">> \notin Debts(f)'
      BY <2>1, <2>5 DEF Debts
    <3> QED BY <1>4, <3>1, <3>2, Exchanged DEF OnceInv
  <2> QED BY <2>4, <2>5
<1>10. Implements
  <2>1. Cardinality(runs[e]) <= Mishaps
    BY <1>1, <1>2, <1>4, RunsPaid DEF OnceInv, MayRun
  <2>2. [c \in Dels |-> IF pc'[c] = "new" THEN None ELSE EventOf'[c]]
          = [c \in Dels |-> IF pc[c] = "new" THEN None ELSE EventOf[c]]
    BY <1>1, <1>2
  <2>3. Once!Run(d, e)
    <3>1. Once!Cardinality(runs[e]) = Cardinality(runs[e])
      BY DEF Once!Cardinality, Cardinality
    <3>2. d \notin runs[e] /\ pc[d] # "new" /\ runs' = [runs EXCEPT ![e] = runs[e] \cup {d}]
      BY <1>1, <1>2, <1>3
    <3> HIDE DEF e
    <3> QED BY <1>1, <1>4, <2>1, <2>2, <3>1, <3>2 DEF Once!Run, e
  <2> QED BY <1>2, <2>3 DEF Implements, Once!Next
<1> QED BY <1>6, <1>7, <1>8, <1>9, <1>10 DEF OnceInv, Paid, Balanced
(* Who has run finds a record only if something happened: two have run.        *)
LEMMA SecondRecord ==
  ASSUME OnceInv, WorkInv, NEW d \in Dels, pc[d] \in Within, idem[EventOf[d]] # None
  PROVE  Mishaps # 0
<1> SUFFICES ASSUME Mishaps = 0 PROVE FALSE
  OBVIOUS
<1>1. PICK e \in Events : e = EventOf[d]
  BY LineFacts DEF Within
<1> DEFINE D == Debts(e)
           x == <<d, "ran">>
           y == <<idem[e].by, "ran">>
<1>2. d \in runs[e] /\ idem[e].by # d /\ idem[e].by \in runs[e]
  BY <1>1 DEF OnceInv, OwnRun, Genuine
<1>3. IsFiniteSet(D) /\ Cardinality(D) <= 1
  BY DEF OnceInv, Paid
<1>4. {x} \cup {y} \subseteq D /\ y \notin {x}
  BY <1>2 DEF Debts
<1> HIDE DEF D, x, y
<1>5. Cardinality({x} \cup {y}) = 2
  <2>1. IsFiniteSet({x}) /\ Cardinality({x}) = 1
    BY FS_Singleton
  <2>2. Cardinality({x} \cup {y}) = IF y \in {x} THEN Cardinality({x}) ELSE Cardinality({x}) + 1
    BY <2>1, FS_AddElement
  <2> QED BY <1>4, <2>1, <2>2
<1>6. Cardinality(D) \in Nat /\ 2 <= Cardinality(D)
  BY <1>3, <1>4, <1>5, FS_Subset, FS_CardinalityType
<1> QED BY <1>3, <1>6

(* A result is recorded, whether its delivery hears of it or not.              *)
LEMMA Recording ==
  ASSUME OnceInv, WorkInv, NEW d \in Dels, pc[d] = "put", Goto(d, "finish"),
         idem' = [idem EXCEPT ![EventOf[d]] = res[d]],
         res' = res \/ res' = [res EXCEPT ![d] = None],
         UNCHANGED <<inst, slock, inflight, at, runs, answer>>,
         Mishaps' # 0 \/ Mishaps = 0
  PROVE  /\ Histories' /\ Embedded' /\ Genuine' /\ OwnRun' /\ Unanswered'
         /\ \A e \in Events : Debts(e)' \subseteq Debts(e)
<1>1. PICK e \in Events : e = EventOf[d]
  BY LineFacts
<1>2. /\ pc'[d] = "finish" /\ \A c \in Dels : c # d => pc'[c] = pc[c]
      /\ EventOf' = EventOf
  BY DEF Goto, WorkInv, Shaped, EventOf
<1>3. /\ res[d] \in Results /\ res[d] # None /\ res[d].by = d /\ d \in runs[e]
      /\ idem[e] # None => idem[e].by # d
  BY <1>1 DEF OnceInv, OwnRun, Histories, Within
<1>4. /\ res' \in [Dels -> Results \cup {None}]
      /\ res'[d] = res[d] \/ res'[d] = None
      /\ \A c \in Dels : c # d => res'[c] = res[c]
  BY DEF OnceInv, Histories
<1>5. /\ idem' \in [Events -> Results \cup {None}]
      /\ idem'[e] = res[d] /\ \A f \in Events : f # e => idem'[f] = idem[f]
  BY <1>1, <1>3 DEF OnceInv, Histories
<1>6. Histories' /\ Embedded'
  BY <1>2, <1>4, <1>5 DEF OnceInv, Histories, Embedded
<1>7. Genuine'
  BY <1>1, <1>2, <1>3, <1>4, <1>5 DEF OnceInv, Genuine
<1>8. OwnRun'
  <2> SUFFICES ASSUME NEW c \in Dels
               PROVE  /\ pc'[c] \in Before \cup {"new"} => \A f \in Events : c \notin runs[f]
                      /\ pc'[c] = "gate" => res'[c] = None
                      /\ pc'[c] = "put" => res'[c] # None
                      /\ pc'[c] \in Within =>
                           /\ c \in runs[EventOf[c]]
                           /\ res'[c] # None => res'[c].by = c
                           /\ idem'[EventOf[c]] # None => idem'[EventOf[c]].by # c
    BY <1>2 DEF OwnRun
  <2>1. CASE c = d
    BY <2>1, <1>2 DEF Before, Within
  <2>2. CASE c # d
    <3>1. pc'[c] \in Within => EventOf[c] \in Events
      BY <1>2, <2>2 DEF WorkInv, Placed, Within
    <3> QED BY <1>2, <1>3, <1>4, <1>5, <2>2, <3>1 DEF OnceInv, OwnRun
  <2> QED BY <2>1, <2>2
<1>9. Unanswered'
  <2>1. ASSUME NEW c \in Dels PROVE pc'[c] \notin Out => answer'[c] = None
    BY <1>2 DEF OnceInv, Unanswered, Out
  <2>2. ASSUME NEW c \in Dels, pc'[c] \in Told, res'[c] # None, Mishaps' = 0
        PROVE  res'[c] = idem'[EventOf[c]]
    <3>1. CASE c = d
      BY <1>1, <1>4, <1>5, <2>2, <3>1
    <3>2. CASE c # d
      <4>1. res[c] = idem[EventOf[c]] /\ EventOf[c] \in Events
        BY <1>2, <1>4, <2>2, <3>2 DEF OnceInv, Unanswered, Told, WorkInv, Placed
      <4>2. EventOf[c] # e
        BY <1>1, <1>4, <2>2, <3>2, <4>1, SecondRecord DEF Within
      <4> QED BY <1>4, <1>5, <3>2, <4>1, <4>2
    <3> QED BY <3>1, <3>2
  <2> QED BY <1>2, <2>1, <2>2 DEF Unanswered, Out
<1>10. ASSUME NEW f \in Events PROVE Debts(f)' \subseteq Debts(f)
  <2>1. ASSUME NEW c \in Dels, EventOf[c] = f, MayRun(c)' PROVE MayRun(c)
    BY <1>1, <1>2, <1>3, <1>5, <2>1 DEF MayRun, Asking, Before
  <2>2. \A c \in Dels : Stale(f, c)' => Stale(f, c)
    BY <1>2 DEF Stale, Session
  <2>3. Open(f)' => Open(f)
    <3>1. CASE f = e
      BY <1>3, <1>5, <3>1 DEF Open
    <3>2. CASE f # e
      <4>1. \A c \in Dels : EventOf[c] = f => pc'[c] = pc[c] /\ res'[c] = res[c] /\ idem'[f] = idem[f]
        BY <1>1, <1>2, <1>4, <1>5, <3>2
      <4>2. \A c \in Dels : EventOf[c] = f => (MayRun(c)' <=> MayRun(c)) /\ (WillRecord(c)' <=> WillRecord(c))
        BY <1>2, <4>1 DEF MayRun, WillRecord, Asking
      <4> QED BY <1>2, <1>5, <3>2, <4>2 DEF Open, Keeper
    <3> QED BY <3>1, <3>2
  <2>4. Debts(f)' \subseteq Debts(f) \cup {}
    BY <1>2, <2>1, <2>2, <2>3, DebtsAfter
  <2> QED BY <2>4
<1> QED BY <1>6, <1>7, <1>8, <1>9, <1>10

LEMMA PutOnce ==
  ASSUME OnceInv, WorkInv, NEW d \in Dels, Put(d)
  PROVE  OnceInv' /\ Implements
<1>1. /\ pc[d] = "put" /\ Goto(d, "finish") /\ idem' = [idem EXCEPT ![EventOf[d]] = res[d]]
      /\ UNCHANGED <<inst, slock, inflight, at, n, res, runs, answer>>
  BY DEF Put, proc, hist
<1>2. Mishaps \in Nat /\ Mishaps' = Mishaps
  BY <1>1, MishapsCounted DEF WorkInv, Mishaps
<1>3. /\ Histories' /\ Embedded' /\ Genuine' /\ OwnRun' /\ Unanswered'
      /\ \A e \in Events : Debts(e)' \subseteq Debts(e)
  BY <1>1, <1>2, Recording
<1>4. \A e \in Events : Balanced(e)'
  BY <1>2, <1>3, NoDebt DEF OnceInv
<1>5. Implements
  <2>1. PICK e \in Events, r \in Results : e = EventOf[d] /\ r = res[d]
    BY <1>1, LineFacts DEF OnceInv, OwnRun
  <2>2. r.by \in runs[e] /\ r \in Once!Results
    BY <1>1, <2>1, LineFacts DEF OnceInv, OwnRun, Results, Once!Results
  <2>3. idem[e] # None => Mishaps > 0
    BY <1>1, <1>2, <2>1, SecondRecord DEF Within
  <2>4. [c \in Dels |-> IF pc'[c] = "new" THEN None ELSE EventOf'[c]]
          = [c \in Dels |-> IF pc[c] = "new" THEN None ELSE EventOf[c]]
    BY <1>1 DEF WorkInv, Shaped, Goto, EventOf
  <2>5. Once!Record(e, r)
    BY <1>1, <1>2, <2>1, <2>2, <2>3, <2>4 DEF Once!Record
  <2> QED BY <2>2, <2>5 DEF Implements, Once!Next
<1> QED BY <1>3, <1>4, <1>5 DEF OnceInv, Paid, Balanced

--------------------------------------------------------------------------------
(* The incidents: to EventOnce each one is a mishap, that may leave a record.  *)

LEMMA MishapImplements ==
  ASSUME NEW e \in Events, NEW STATE r, r \in Results \cup {None},
         idem' = [idem EXCEPT ![e] = r], r # None => r = idem[e] \/ r.by \in runs[e],
         Mishaps' = Mishaps + 1, UNCHANGED <<inst, runs, answer>>,
         \A c \in Dels : pc'[c] = "new" <=> pc[c] = "new"
  PROVE  Implements
<1>1. PICK x \in Results \cup {None} : x = r
  OBVIOUS
<1>2. [c \in Dels |-> IF pc'[c] = "new" THEN None ELSE EventOf'[c]]
        = [c \in Dels |-> IF pc[c] = "new" THEN None ELSE EventOf[c]]
  BY DEF EventOf
<1>3. Once!Mishap(e, x)
  BY <1>1, <1>2 DEF Once!Mishap
<1>4. x \in Once!Results \cup {None}
  BY DEF Results, Once!Results
<1> QED BY <1>3, <1>4 DEF Implements, Once!Next

LEMMA UnwindOnce ==
  ASSUME OnceInv, WorkInv, NEW d \in Dels, Unwind(d), pc[d] \notin {"new", "done", "settle"},
         Mishaps \in Nat, Mishaps' = Mishaps + 1
  PROVE  OnceInv' /\ Implements
<1> DEFINE s == Session(d)
<1>1. PICK e \in Events : e = EventOf[d]
  BY LineFacts
<1>2. s \in Sessions
  BY <1>1, Installed DEF WorkInv
<1>3. PICK l : /\ Goto(d, l) /\ l = Unwound(d)
  BY DEF Unwind
<1>4. /\ UNCHANGED <<inst, inflight, at, runs, answer>> /\ res' = [res EXCEPT ![d] = None]
      /\ Executed(d)
  BY DEF Unwind, hist
<1>5. /\ l \in {"compare", "finish", "done", Left}
      /\ l = "compare" => pc[d] = "run"
      /\ l = "finish" => pc[d] \in Claiming
      /\ pc[d] \in {"lock", "unlock", "unlock2"} => l = "done"
      /\ pc[d] = "put" => l = "finish"
  BY <1>3 DEF Unwound, UnwoundTo, Claiming, Left
<1>6. /\ pc'[d] = l /\ l # "new" /\ \A c \in Dels : c # d => pc'[c] = pc[c]
      /\ l \notin Before \cup {"new", "unlock2", "run", "delete", "put", "settle", "callback"}
  <2>1. l \in {"compare", "finish", "done", "unlock"}
    BY <1>5 DEF Left
  <2>2. pc'[d] = l /\ \A c \in Dels : c # d => pc'[c] = pc[c]
    BY <1>3 DEF Goto, WorkInv, Shaped
  <2> QED BY <2>1, <2>2 DEF Before
<1>7. CASE pc[d] = "put" /\ idem' = [idem EXCEPT ![EventOf[d]] = res[d]] /\ UNCHANGED <<slock, gate>>
  <2>1. /\ Histories' /\ Embedded' /\ Genuine' /\ OwnRun' /\ Unanswered'
        /\ \A f \in Events : Debts(f)' \subseteq Debts(f)
    <3>1. Goto(d, "finish") /\ Mishaps' # 0
      BY <1>3, <1>5, <1>7
    <3> QED BY <1>4, <1>7, <3>1, Recording
  <2>2. \A f \in Events : Balanced(f)'
    BY <2>1, NoDebt DEF OnceInv
  <2>3. res[d] \in Results /\ res[d].by \in runs[e]
    BY <1>1, <1>7, LineFacts DEF OnceInv, OwnRun
  <2>4. Implements
    BY <1>1, <1>4, <1>6, <1>7, <2>3, MishapImplements
  <2> QED BY <2>1, <2>2, <2>4 DEF OnceInv, Paid, Balanced
<1>8. CASE idem' = idem /\ \/ slock' = slock
                           \/ pc[d] = "lock" /\ slock[s] = None /\ slock' = [slock EXCEPT ![s] = d]
                           \/ pc[d] = "unlock2" /\ slock' = [slock EXCEPT ![s] = None]
  <2>1. Moved(d, l, None, answer[d])
    BY <1>3, <1>4, <1>8, InHandSame DEF Moved, OnceInv
  <2>2. Fit(d, l, None, answer[d])
    <3>1. inst.host = "embed" => l \notin {"lock", "unlock", "unlock2"}
      BY <1>5, LineFacts
    <3>2. l \notin Out => pc[d] \notin Out
      BY <1>5, LineFacts DEF Out
    <3>3. l \in Within => pc[d] \in Within
      BY <1>5, LineFacts DEF Out, Within
    <3> QED BY <1>6, <3>1, <3>2, <3>3 DEF Fit, Before
  <2>3. Histories' /\ Embedded' /\ Genuine' /\ OwnRun' /\ Unanswered'
    <3>1. slock' \in [Sessions -> Dels \cup {None}]
      BY <1>2, <1>8 DEF OnceInv, Histories
    <3> QED BY <2>1, <2>2, <3>1, MoveKeeps
  <2>4. ASSUME NEW f \in Events PROVE Balanced(f)'
    <3>1. CASE pc[d] = "unlock2" /\ slock' = [slock EXCEPT ![s] = None]
      <4>1. ~Busy(d) /\ l = "done"
        BY <1>5, <3>1 DEF Busy, MayRun, WillRecord, Asking, Before, Within
      <4>2. \A c \in Dels : \/ pc'[c] = pc[c] /\ res'[c] = res[c]
                            \/ ~Busy(c) /\ pc'[c] \notin Before \cup Within \cup {"unlock2"}
        BY <1>4, <1>6, <4>1 DEF OnceInv, Histories, Before, Within
      <4>3. Debts(f)' \subseteq Debts(f) \cup {FreedBy(s)}
        BY <1>2, <1>4, <1>8, <3>1, <4>2, Freed
      <4> QED BY <4>3, Charged DEF OnceInv
    <3>2. CASE slock' = slock \/ (slock[s] = None /\ slock' = [slock EXCEPT ![s] = d])
      <4>1. \A c \in Dels : MayRun(c)' => MayRun(c)
        <5>1. ~MayAt(d, l)
          BY <1>6 DEF MayAt, Asking, Before
        <5> QED BY <2>1, <5>1, MayAfter
      <4>2. ASSUME NEW c \in Dels, Stale(f, c)' PROVE Stale(f, c)
        <5>1. pc[c] = "unlock2" /\ Session(c) = SessionOf[f] /\ slock'[SessionOf[f]] # c
          BY <1>4, <1>6, <4>2 DEF Stale, Session, EventOf
        <5>2. slock[SessionOf[f]] # c
          BY <3>2, <5>1, EventAssumption DEF OnceInv, Histories
        <5> QED BY <5>1, <5>2 DEF Stale
      <4>3. Debts(f)' \subseteq Debts(f) \cup {<<None, "open">>}
        BY <1>4, <4>1, <4>2, DebtsAfter DEF EventOf
      <4> QED BY <4>3, Charged DEF OnceInv
    <3> QED BY <1>8, <3>1, <3>2
  <2>5. Implements
    <3>1. idem[e] \in Results \cup {None} /\ idem' = [idem EXCEPT ![e] = idem[e]]
      BY <1>8 DEF OnceInv, Histories
    <3> QED BY <1>4, <1>6, <3>1, MishapImplements
  <2> QED BY <2>3, <2>4, <2>5 DEF OnceInv, Paid, Balanced
<1> QED BY <1>4, <1>7, <1>8 DEF Executed, redis
(* What an incident leaves that takes no record, ends no wait and moves nobody *)
(* on but to the end.                                                          *)
LEMMA Quiet ==
  ASSUME OnceInv, WorkInv, UNCHANGED <<inst, at, runs, answer>>,
         slock' \in [Sessions -> Dels \cup {None}], idem' \in [Events -> Results \cup {None}],
         res' \in [Dels -> Results \cup {None}],
         \A e \in Events : idem'[e] = idem[e] \/ idem'[e] = None,
         \A c \in Dels : \/ pc'[c] = pc[c] /\ res'[c] = res[c]
                         \/ pc[c] # "new" /\ pc'[c] = "done" /\ res'[c] = None,
         Mishaps' # 0 \/ (Mishaps = 0 /\ idem' = idem)
  PROVE  Histories' /\ Embedded' /\ Genuine' /\ OwnRun' /\ Unanswered'
<1>1. EventOf' = EventOf
  BY DEF EventOf
<1>2. Histories' /\ Embedded'
  BY DEF OnceInv, Histories, Embedded
<1>3. Genuine'
  BY <1>1 DEF OnceInv, Genuine
<1>4. OwnRun'
  <2> SUFFICES ASSUME NEW c \in Dels
               PROVE  /\ pc'[c] \in Before \cup {"new"} => \A f \in Events : c \notin runs[f]
                      /\ pc'[c] = "gate" => res'[c] = None
                      /\ pc'[c] = "put" => res'[c] # None
                      /\ pc'[c] \in Within =>
                           /\ c \in runs[EventOf[c]]
                           /\ res'[c] # None => res'[c].by = c
                           /\ idem'[EventOf[c]] # None => idem'[EventOf[c]].by # c
    BY <1>1 DEF OwnRun
  <2>1. CASE pc'[c] = "done"
    BY <2>1 DEF Before, Within
  <2>2. CASE pc'[c] = pc[c] /\ res'[c] = res[c]
    <3>1. pc[c] \in Within => EventOf[c] \in Events
      BY DEF WorkInv, Placed, Within
    <3> QED BY <2>2, <3>1 DEF OnceInv, OwnRun
  <2> QED BY <2>1, <2>2
<1>5. Unanswered'
  BY <1>1 DEF OnceInv, Unanswered, Told
<1> QED BY <1>2, <1>3, <1>4, <1>5

LEMMA CrashOnce ==
  ASSUME OnceInv, WorkInv, NEW p \in Procs, Crash(p)
  PROVE  OnceInv' /\ Implements
<1> DEFINE dead == {d \in Active : at[d] = p}
<1>1. /\ UNCHANGED <<inst, slock, idem, at, runs, answer>> /\ dead # {}
      /\ \A c \in Dels : /\ pc'[c] = IF c \in dead THEN "done" ELSE pc[c]
                         /\ res'[c] = IF c \in dead THEN None ELSE res[c]
      /\ res' \in [Dels -> Results \cup {None}]
  BY DEF Crash, redis, hist, OnceInv, Histories
<1>2. \A c \in dead : c \in Dels /\ pc[c] \notin {"new", "done"}
  BY DEF Active
<1> HIDE DEF dead
<1>3. Mishaps \in Nat /\ Mishaps' = Mishaps + 1
  BY MishapsCounted DEF WorkInv, Crash, Kinds
<1>4. \A c \in Dels : \/ pc'[c] = pc[c] /\ res'[c] = res[c]
                      \/ pc[c] # "new" /\ pc'[c] = "done" /\ res'[c] = None
  BY <1>1, <1>2
<1>5. Histories' /\ Embedded' /\ Genuine' /\ OwnRun' /\ Unanswered'
  <2>1. Mishaps' # 0 /\ idem \in [Events -> Results \cup {None}] /\ slock \in [Sessions -> Dels \cup {None}]
    BY <1>3 DEF OnceInv, Histories
  <2> QED BY <1>1, <1>4, <2>1, Quiet
<1>6. ASSUME NEW e \in Events PROVE Balanced(e)'
  <2>1. \A c \in Dels : MayRun(c)' => MayRun(c)
    BY <1>1, <1>4 DEF MayRun, Asking, Before, EventOf
  <2>2. \A c \in Dels : Stale(e, c)' => Stale(e, c)
    BY <1>1, <1>4 DEF Stale, Session, EventOf
  <2>3. Debts(e)' \subseteq Debts(e) \cup {<<None, "open">>}
    BY <1>1, <2>1, <2>2, DebtsAfter DEF EventOf
  <2> QED BY <1>3, <2>3, Charged DEF OnceInv
<1>7. Implements
  <2>1. PICK e \in Events : \E d \in dead : e = EventOf[d]
    BY <1>1, <1>2 DEF WorkInv, Placed
  <2>2. idem[e] \in Results \cup {None} /\ idem' = [idem EXCEPT ![e] = idem[e]]
    BY <1>1 DEF OnceInv, Histories
  <2>3. \A c \in Dels : pc'[c] = "new" <=> pc[c] = "new"
    BY <1>4
  <2> QED BY <1>1, <1>3, <2>2, <2>3, MishapImplements
<1> QED BY <1>5, <1>6, <1>7 DEF OnceInv, Paid, Balanced

LEMMA ExpireOnce ==
  ASSUME OnceInv, WorkInv, NEW e \in Events, Expire(e)
  PROVE  OnceInv' /\ Implements
<1>1. /\ \A d \in Active : EventOf[d] # e
      /\ UNCHANGED <<inst, slock, inflight, pc, at, res, runs, answer>> /\ idem' = [idem EXCEPT ![e] = None]
  BY DEF Expire, proc, hist
<1>2. Mishaps \in Nat /\ Mishaps' = Mishaps + 1
  BY MishapsCounted DEF WorkInv, Expire, Kinds
<1>3. /\ idem' \in [Events -> Results \cup {None}]
      /\ idem'[e] = None /\ \A f \in Events : f # e => idem'[f] = idem[f]
  BY <1>1 DEF OnceInv, Histories
<1>4. Histories' /\ Embedded' /\ Genuine' /\ OwnRun' /\ Unanswered'
  <2>1. Mishaps' # 0 /\ res' \in [Dels -> Results \cup {None}] /\ slock' \in [Sessions -> Dels \cup {None}]
    BY <1>1, <1>2 DEF OnceInv, Histories
  <2>2. \A f \in Events : idem'[f] = idem[f] \/ idem'[f] = None
    BY <1>3
  <2>3. \A c \in Dels : pc'[c] = pc[c] /\ res'[c] = res[c]
    BY <1>1
  <2>4. UNCHANGED <<inst, at, runs, answer>> /\ idem' \in [Events -> Results \cup {None}]
    BY <1>1, <1>3
  <2> QED BY <2>1, <2>2, <2>3, <2>4, Quiet
<1>5. ASSUME NEW f \in Events PROVE Balanced(f)'
  <2>1. ASSUME NEW c \in Dels, EventOf[c] = f, MayRun(c)' PROVE MayRun(c)
    <3>1. c \in Active
      BY <1>1, <2>1 DEF MayRun, Asking, Before, Active
    <3> QED BY <1>1, <1>3, <2>1, <3>1 DEF MayRun, Asking, EventOf
  <2>2. \A c \in Dels : Stale(f, c)' => Stale(f, c)
    BY <1>1 DEF Stale, Session, EventOf
  <2>3. Debts(f)' \subseteq Debts(f) \cup {<<None, "open">>}
    BY <1>1, <2>1, <2>2, DebtsAfter DEF EventOf
  <2> QED BY <1>2, <2>3, Charged DEF OnceInv
<1>6. Implements
  BY <1>1, <1>2, MishapImplements
<1> QED BY <1>4, <1>5, <1>6 DEF OnceInv, Paid, Balanced

LEMMA LapseOnce ==
  ASSUME OnceInv, WorkInv, NEW s \in Sessions, Lapse(s)
  PROVE  OnceInv' /\ Implements
<1>1. UNCHANGED <<inst, idem, inflight, pc, at, res, runs, answer>>
  BY DEF Lapse, proc, hist
<1>2. PICK holder : /\ \/ slock[s] = holder /\ slock' = [slock EXCEPT ![s] = None]
                       \/ gate[s] = holder /\ slock' = slock
                    /\ IF holder \in Active THEN Count("lapse") ELSE UNCHANGED n
  BY DEF Lapse
<1>3. Mishaps \in Nat /\ Mishaps' = IF holder \in Active THEN Mishaps + 1 ELSE Mishaps
  <2>1. CASE holder \in Active
    BY <1>2, <2>1, MishapsCounted DEF WorkInv, Kinds
  <2>2. CASE holder \notin Active
    BY <1>2, <2>2, MishapsCounted DEF WorkInv, Mishaps
  <2> QED BY <2>1, <2>2
<1>4. Histories' /\ Embedded' /\ Genuine' /\ OwnRun' /\ Unanswered'
  <2>1. /\ idem' = idem /\ idem' \in [Events -> Results \cup {None}] /\ res' \in [Dels -> Results \cup {None}]
        /\ slock' \in [Sessions -> Dels \cup {None}]
    BY <1>1, <1>2 DEF OnceInv, Histories
  <2>2. Mishaps' # 0 \/ Mishaps = 0
    BY <1>3
  <2> QED BY <1>1, <2>1, <2>2, Quiet
<1>5. ASSUME NEW e \in Events PROVE Balanced(e)'
  <2>1. CASE slock' = slock
    <3>1. Debts(e)' = Debts(e)
      BY <1>1, <2>1 DEF Debts, MayRun, Asking, Stale, Open, Keeper, WillRecord, Session, EventOf
    <3> QED BY <1>3, <3>1, NoDebt DEF OnceInv
  <2>2. CASE slock[s] = holder /\ slock' = [slock EXCEPT ![s] = None]
    <3>1. /\ Debts(e)' \subseteq Debts(e) \cup {FreedBy(s)}
          /\ slock[s] \notin Active => Debts(e)' \subseteq Debts(e)
      BY <1>1, <2>2, Freed
    <3>2. CASE holder \in Active
      BY <1>3, <3>1, <3>2, Charged DEF OnceInv
    <3>3. CASE holder \notin Active
      BY <1>3, <2>2, <3>1, <3>3, NoDebt DEF OnceInv
    <3> QED BY <3>2, <3>3
  <2> QED BY <1>2, <2>1, <2>2
<1>6. Implements
  <2>1. CASE holder \in Active
    <3>1. holder \in Dels /\ pc[holder] # "new"
      BY <2>1 DEF Active
    <3>2. PICK e \in Events : e = EventOf[holder]
      BY <3>1 DEF WorkInv, Placed
    <3>3. idem[e] \in Results \cup {None} /\ idem' = [idem EXCEPT ![e] = idem[e]]
      BY <1>1 DEF OnceInv, Histories
    <3> QED BY <1>1, <1>3, <2>1, <3>3, MishapImplements
  <2>2. CASE holder \notin Active
    <3>1. Mishaps' = Mishaps
      BY <1>3, <2>2
    <3> QED BY <1>1, <3>1 DEF Implements, Once!vars, EventOf
  <2> QED BY <2>1, <2>2
<1> QED BY <1>4, <1>5, <1>6 DEF OnceInv, Paid, Balanced

--------------------------------------------------------------------------------
LEMMA OnceInit == Init => OnceInv /\ Once!Init
<1> SUFFICES ASSUME Init PROVE OnceInv /\ Once!Init
  OBVIOUS
<1>1. Histories /\ Embedded /\ Genuine /\ OwnRun /\ Unanswered
  BY EventAssumption DEF Init, Histories, Embedded, Genuine, OwnRun, Unanswered, Before, Within, Told
<1>2. Mishaps = 0
  BY DEF Init, Mishaps, Kinds
<1>3. ASSUME NEW e \in Events PROVE IsFiniteSet(Debts(e)) /\ Cardinality(Debts(e)) <= 1
  <2>1. Debts(e) \subseteq {<<None, "open">>}
    BY DEF Init, Debts, MayRun, Stale, Asking, Before
  <2>2. IsFiniteSet({<<None, "open">>}) /\ Cardinality({<<None, "open">>}) = 1
    BY FS_Singleton
  <2> QED BY <2>1, <2>2, FS_Subset
<1>4. Paid
  BY <1>2, <1>3 DEF Paid
<1>5. Once!Init
  BY <1>2 DEF Init, Once!Init
<1> QED BY <1>1, <1>4, <1>5 DEF OnceInv

LEMMA OnceStep == OnceInv /\ WorkInv /\ [Next]_vars => OnceInv' /\ Implements
<1> SUFFICES ASSUME OnceInv, WorkInv, [Next]_vars PROVE OnceInv' /\ Implements
  OBVIOUS
<1>1. ASSUME NEW d \in Dels, Serve(d) PROVE OnceInv' /\ Implements
  BY <1>1, LockOnce, LockTimeoutOnce, GetOnce, LookOnce, SettleOnce, EnterOnce, GateTimeoutOnce, ExecuteOnce,
     CompareOnce, PutOnce, FinishOnce, CallbackOnce, UnlockOnce
  DEF Serve, Claim
<1>2. ASSUME NEW d \in Dels, NEW p \in Receivers, Arrive(d, p) PROVE OnceInv' /\ Implements
  BY <1>2, ArriveOnce
<1>3. ASSUME NEW d \in Dels, Fault(d) \/ Cancel(d) PROVE OnceInv' /\ Implements
  <2>1. Unwind(d) /\ (Count("fault") \/ Count("cancel"))
    BY <1>3 DEF Fault, Cancel
  <2>2. pc[d] \notin {"new", "done", "settle"}
    BY <1>3 DEF Fault, Cancel, AwaitsRedis
  <2>3. Mishaps \in Nat /\ Mishaps' = Mishaps + 1
    BY <2>1, MishapsCounted DEF WorkInv, Kinds
  <2> QED BY <2>1, <2>2, <2>3, UnwindOnce
<1>4. ASSUME Incident PROVE OnceInv' /\ Implements
  BY <1>3, <1>4, CrashOnce, LapseOnce, ExpireOnce DEF Incident
<1>5. CASE UNCHANGED vars
  <2>1. OnceInv'
    BY <1>5 DEF vars, redis, proc, hist, OnceInv, Histories, Embedded, Genuine, OwnRun, Unanswered, Paid, Debts,
                Stale, Open, Keeper, MayRun, Asking, WillRecord, Session, EventOf, Mishaps
  <2>2. Implements
    BY <1>5 DEF vars, redis, proc, hist, Implements, Once!vars, EventOf, Mishaps
  <2> QED BY <2>1, <2>2
<1> QED BY <1>1, <1>2, <1>4, <1>5 DEF Next

(* However often a business event is delivered, to whatever processes, the     *)
(* agent runs for it once, and once more at most for every mishap; every       *)
(* answer is the result of a run of that event, and without a mishap all agree *)
(* with the one record (dispatch, _wait_inflight_or_claim, the idempotency     *)
(* store).                                                                     *)
THEOREM EventsOnceCorrect == Spec => EventsOnce
BY WorkInit, WorkStep, OnceInit, OnceStep, PTL DEF Spec, EventsOnce, Once!Spec, Implements
================================================================================
