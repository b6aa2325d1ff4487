---------------------------- MODULE EventDispatch ----------------------------
(***************************************************************************)
(* The event entry (events/, POST /v1/events of server/app): deliveries of *)
(* business events, of which a system may send the same one again and to   *)
(* any process.  A delivery takes the session lock (Serve only), looks up  *)
(* the record of its event, claims the event in its process or waits for   *)
(* the delivery that has, queues at the Redis gate of the session, makes   *)
(* the agent run, and records the result.                                  *)
(*                                                                         *)
(* One action is the code between two awaits.  A reply of Redis that only  *)
(* lets a delivery go its way is taken in the step that reads; where       *)
(* something else may happen between reading and acting (the claim, the    *)
(* release of a lock) there are two steps.                                 *)
(***************************************************************************)
EXTENDS Integers, FiniteSets

CONSTANTS
  Dels,     \* deliveries
  Events, Sessions, Procs,
  None,
  SessionOf,    \* the session of each event
  Installations \* see below

Kinds == {"fault", "crash", "lapse", "cancel", "expire"}

(* Who calls dispatch (POST /v1/events of any number of Serve processes,   *)
(* or one process that embeds the dispatcher), the event of each delivery, *)
(* and the bounds: incidents of each kind, and of all kinds.               *)
Hosts == {"serve", "embed"}
ASSUME EventAssumption ==
  /\ SessionOf \in [Events -> Sessions]
  /\ Installations \subseteq [host: Hosts, event: [Dels -> Events \cup {None}],
                              max: [Kinds -> Nat], total: Nat]
  /\ None \notin Dels \cup Procs \cup Events /\ Procs # {}

(* The result of a run.  An answer is a duplicate when another delivery    *)
(* made the run.                                                           *)
Results == [by: Dels, ok: BOOLEAN]
ASSUME NoneAssumption == None \notin Results

VARIABLES
  inst,     \* this installation
  slock,    \* agent session lock of each session: a delivery or None
  gate,     \* event lock of each session: a delivery or None
  idem,     \* recorded result of each event, or None
  inflight, \* _inflight of each process: the delivery that claimed an event
  claimer,  \* _claim_lock of each process: its holder or None
  pc,       \* where each delivery is
  at,       \* the process of each delivery
  on,       \* the delivery whose asyncio.Event each one waits for
  res,      \* the local result of each delivery
  n,        \* incidents so far, by kind
  runs,     \* history: deliveries that made the agent run, by event
  answer    \* history: what each delivery was answered

redis == <<slock, gate, idem>>
proc == <<inflight, claimer>>
hist == <<runs, answer>>
vars == <<inst, redis, proc, pc, at, on, res, n, hist>>

Init ==
  /\ inst \in Installations
  /\ slock = [s \in Sessions |-> None] /\ gate = [s \in Sessions |-> None]
  /\ idem = [e \in Events |-> None]
  /\ inflight = [p \in Procs |-> [e \in Events |-> None]]
  /\ claimer = [p \in Procs |-> None]
  /\ pc = [d \in Dels |-> "new"]
  /\ at = [d \in Dels |-> None] /\ on = [d \in Dels |-> None] /\ res = [d \in Dels |-> None]
  /\ n = [k \in Kinds |-> 0]
  /\ runs = [e \in Events |-> {}] /\ answer = [d \in Dels |-> None]

EventOf == inst.event
Session(d) == SessionOf[EventOf[d]]
Goto(d, l) == pc' = [pc EXCEPT ![d] = l]
Mishaps == n["fault"] + n["crash"] + n["lapse"] + n["cancel"] + n["expire"]
Count(k) == n[k] < inst.max[k] /\ Mishaps < inst.total /\ n' = [n EXCEPT ![k] = @ + 1]

(* Where a delivery goes when it leaves dispatch: Serve gives the session  *)
(* lock back, another caller just returns.                                 *)
Left == IF inst.host = "serve" THEN "unlock" ELSE "done"

(* The processes of an installation.                                       *)
Receivers == IF inst.host = "embed" THEN {CHOOSE p \in Procs : TRUE} ELSE Procs

-----------------------------------------------------------------------------
(* ingest_event and dispatch up to the claim.                              *)

Arrive(d, p) ==
  /\ pc[d] = "new" /\ EventOf[d] # None /\ Goto(d, IF inst.host = "serve" THEN "lock" ELSE "get")
  /\ at' = [at EXCEPT ![d] = p]
  /\ UNCHANGED <<inst, redis, proc, on, res, n, hist>>

(* session_lock.hold: SET NX, or TimeoutError at the deadline.             *)
Lock(d) ==
  /\ pc[d] = "lock" /\ slock[Session(d)] = None /\ Goto(d, "get")
  /\ slock' = [slock EXCEPT ![Session(d)] = d]
  /\ UNCHANGED <<inst, gate, idem, proc, at, on, res, n, hist>>

LockTimeout(d) ==
  /\ pc[d] = "lock" /\ slock[Session(d)] # None /\ Goto(d, "done")
  /\ UNCHANGED <<inst, redis, proc, at, on, res, n, hist>>

(* dispatch 1): the recorded result is returned.                           *)
Get(d) ==
  /\ pc[d] = "get"
  /\ Goto(d, IF idem[EventOf[d]] # None THEN Left ELSE "claim")
  /\ answer' = [answer EXCEPT ![d] = idem[EventOf[d]]]
  /\ UNCHANGED <<inst, redis, proc, at, on, res, n, runs>>

(* _wait_inflight_or_claim takes _claim_lock, ...                          *)
TakeClaimLock(d) ==
  /\ pc[d] = "claim" /\ claimer[at[d]] = None /\ Goto(d, "look")
  /\ claimer' = [claimer EXCEPT ![at[d]] = d]
  /\ UNCHANGED <<inst, redis, inflight, at, on, res, n, hist>>

(* ... asks Redis under it, ...                                            *)
Look(d) ==
  /\ pc[d] = "look" /\ Goto(d, "settle")
  /\ res' = [res EXCEPT ![d] = idem[EventOf[d]]]
  /\ UNCHANGED <<inst, redis, proc, at, on, n, hist>>

(* Mutant: the event is claimed without a look at _inflight.               *)
SettleOver(d) ==
  LET p == at[d]  e == EventOf[d] IN
  /\ pc[d] = "settle"
  /\ claimer' = [claimer EXCEPT ![p] = None]
  /\ \/ /\ res[d] # None /\ Goto(d, Left)
        /\ answer' = [answer EXCEPT ![d] = res[d]]
        /\ UNCHANGED inflight
     \/ /\ res[d] = None /\ Goto(d, "recheck")
        /\ inflight' = [inflight EXCEPT ![p][e] = d]
        /\ UNCHANGED answer
  /\ res' = [res EXCEPT ![d] = None]
  /\ UNCHANGED <<inst, redis, at, on, n, runs>>

(* ... and returns a record, claims the event, or has to wait.             *)
Settle(d) ==
  LET p == at[d]  e == EventOf[d] IN
  /\ pc[d] = "settle"
  /\ claimer' = [claimer EXCEPT ![p] = None]
  /\ \/ /\ res[d] # None /\ Goto(d, Left)
        /\ answer' = [answer EXCEPT ![d] = res[d]]
        /\ UNCHANGED <<inflight, on>>
     \/ /\ res[d] = None /\ inflight[p][e] = None /\ Goto(d, "recheck")
        /\ inflight' = [inflight EXCEPT ![p][e] = d]
        /\ UNCHANGED <<on, answer>>
     \/ /\ res[d] = None /\ inflight[p][e] # None /\ Goto(d, "wait")
        /\ on' = [on EXCEPT ![d] = inflight[p][e]]
        /\ UNCHANGED <<inflight, answer>>
  /\ res' = [res EXCEPT ![d] = None]
  /\ UNCHANGED <<inst, redis, at, n, runs>>

(* The asyncio.Event is set: it looks and claims again.                    *)
Wake(d) ==
  /\ pc[d] = "wait" /\ inflight[at[d]][EventOf[d]] # on[d] /\ Goto(d, "claim")
  /\ on' = [on EXCEPT ![d] = None]
  /\ UNCHANGED <<inst, redis, proc, at, res, n, hist>>

-----------------------------------------------------------------------------
(* dispatch under the claim.                                               *)

(* The record is looked up once more.                                      *)
Recheck(d) ==
  /\ pc[d] = "recheck" /\ Goto(d, IF idem[EventOf[d]] # None THEN "finish" ELSE "gate")
  /\ res' = [res EXCEPT ![d] = idem[EventOf[d]]]
  /\ UNCHANGED <<inst, redis, proc, at, on, n, hist>>

(* session_gate.run: SET NX and then _execute, or TimeoutError.            *)
Enter(d) ==
  /\ pc[d] = "gate" /\ gate[Session(d)] = None /\ Goto(d, "run")
  /\ gate' = [gate EXCEPT ![Session(d)] = d]
  /\ runs' = [runs EXCEPT ![EventOf[d]] = @ \cup {d}]
  /\ UNCHANGED <<inst, slock, idem, proc, at, on, res, n, answer>>

GateTimeout(d) ==
  /\ pc[d] = "gate" /\ gate[Session(d)] # None /\ Goto(d, "finish")
  /\ UNCHANGED <<inst, redis, proc, at, on, res, n, hist>>

(* _execute ends with a result, or with an exception made a failed result. *)
Execute(d, ok) ==
  /\ pc[d] = "run" /\ Goto(d, "compare")
  /\ res' = [res EXCEPT ![d] = [by |-> d, ok |-> ok]]
  /\ UNCHANGED <<inst, redis, proc, at, on, n, hist>>

(* The gate is released: GET and compare, then DELETE; only an exception   *)
(* leaves no result to record.                                             *)
AfterGate(d) == IF res[d] # None THEN "put" ELSE "finish"
Compare(d) ==
  /\ pc[d] = "compare"
  /\ Goto(d, IF gate[Session(d)] = d THEN "delete" ELSE AfterGate(d))
  /\ UNCHANGED <<inst, redis, proc, at, on, res, n, hist>>

Delete(d) ==
  /\ pc[d] = "delete" /\ Goto(d, AfterGate(d))
  /\ gate' = [gate EXCEPT ![Session(d)] = None]
  /\ UNCHANGED <<inst, slock, idem, proc, at, on, res, n, hist>>

(* Mutant: a failed result is not recorded.                                *)
PutIfOk(d) ==
  /\ pc[d] = "put" /\ Goto(d, "finish")
  /\ idem' = IF res[d].ok THEN [idem EXCEPT ![EventOf[d]] = res[d]] ELSE idem
  /\ UNCHANGED <<inst, slock, gate, proc, at, on, res, n, hist>>

(* The result is recorded, whether the run succeeded or not.               *)
Put(d) ==
  /\ pc[d] = "put" /\ Goto(d, "finish")
  /\ idem' = [idem EXCEPT ![EventOf[d]] = res[d]]
  /\ UNCHANGED <<inst, slock, gate, proc, at, on, res, n, hist>>

(* _finish_inflight; a duplicate is answered, an own result called back.   *)
FinishInflight(d) ==
  LET own == res[d] # None /\ res[d].by = d IN
  /\ pc[d] = "finish" /\ claimer[at[d]] = None
  /\ Goto(d, IF own THEN "callback" ELSE Left)
  /\ inflight' = [inflight EXCEPT ![at[d]][EventOf[d]] = None]
  /\ res' = IF own THEN res ELSE [res EXCEPT ![d] = None]
  /\ answer' = IF own THEN answer ELSE [answer EXCEPT ![d] = res[d]]
  /\ UNCHANGED <<inst, redis, claimer, at, on, n, runs>>

(* post_result_callback: its failure is only logged.                       *)
Callback(d) ==
  /\ pc[d] = "callback" /\ Goto(d, Left)
  /\ answer' = [answer EXCEPT ![d] = res[d]]
  /\ res' = [res EXCEPT ![d] = None]
  /\ UNCHANGED <<inst, redis, proc, at, on, n, runs>>

(* The session lock of Serve is released the same way.                     *)
Unlock(d) ==
  /\ pc[d] = "unlock"
  /\ Goto(d, IF slock[Session(d)] = d THEN "unlock2" ELSE "done")
  /\ UNCHANGED <<inst, redis, proc, at, on, res, n, hist>>

Unlock2(d) ==
  /\ pc[d] = "unlock2" /\ Goto(d, "done")
  /\ slock' = [slock EXCEPT ![Session(d)] = None]
  /\ UNCHANGED <<inst, gate, idem, proc, at, on, res, n, hist>>

-----------------------------------------------------------------------------
(* Incidents.                                                              *)

AwaitsRedis == {"lock", "get", "look", "recheck", "gate", "compare", "delete", "put",
                "unlock", "unlock2"}

(* The command a delivery awaits may have been executed all the same.      *)
Executed(d) ==
  LET s == Session(d) IN
  \/ UNCHANGED redis
  \/ pc[d] = "lock" /\ slock[s] = None /\ slock' = [slock EXCEPT ![s] = d] /\ UNCHANGED <<gate, idem>>
  \/ pc[d] = "gate" /\ gate[s] = None /\ gate' = [gate EXCEPT ![s] = d] /\ UNCHANGED <<slock, idem>>
  \/ pc[d] = "delete" /\ gate' = [gate EXCEPT ![s] = None] /\ UNCHANGED <<slock, idem>>
  \/ pc[d] = "put" /\ idem' = [idem EXCEPT ![EventOf[d]] = res[d]] /\ UNCHANGED <<slock, gate>>
  \/ pc[d] = "unlock2" /\ slock' = [slock EXCEPT ![s] = None] /\ UNCHANGED <<gate, idem>>

(* An exception unwinds a delivery from where it is: through the finally   *)
(* of the gate, of the claim and of the session lock.  The result is lost. *)
UnwoundTo(d, claimed) ==
  IF pc[d] = "run" THEN "compare"
  ELSE IF pc[d] \in {"recheck", "gate", "compare", "delete", "put"} THEN claimed
  ELSE IF pc[d] \in {"lock", "unlock", "unlock2"} THEN "done" ELSE Left

(* Mutant: no finally around the claim.                                    *)
UnwoundNoFinally(d) == UnwoundTo(d, Left)

Unwound(d) == UnwoundTo(d, "finish")
Unwind(d) ==
  /\ Goto(d, Unwound(d)) /\ Executed(d)
  /\ claimer' = IF pc[d] = "look" THEN [claimer EXCEPT ![at[d]] = None] ELSE claimer
  /\ res' = [res EXCEPT ![d] = None]
  /\ on' = [on EXCEPT ![d] = None]
  /\ UNCHANGED <<inst, inflight, at, hist>>

(* Redis raises an error.                                                  *)
Fault(d) == pc[d] \in AwaitsRedis /\ Count("fault") /\ Unwind(d)

(* The caller cancels dispatch at an await.  _claim_lock is awaited only   *)
(* when it is held; cancelled there, _finish_inflight leaves the claim.    *)
Cancel(d) ==
  /\ pc[d] \in AwaitsRedis \cup {"claim", "wait", "run", "finish", "callback"}
  /\ pc[d] \in {"claim", "finish"} => claimer[at[d]] # None
  /\ Count("cancel") /\ Unwind(d)

(* A process dies with all its deliveries and starts again.                *)
Active == {d \in Dels : pc[d] \notin {"new", "done"}}
Crash(p) ==
  LET dead == {d \in Active : at[d] = p} IN
  /\ dead # {} /\ Count("crash")
  /\ pc' = [d \in Dels |-> IF d \in dead THEN "done" ELSE pc[d]]
  /\ res' = [d \in Dels |-> IF d \in dead THEN None ELSE res[d]]
  /\ on' = [d \in Dels |-> IF d \in dead THEN None ELSE on[d]]
  /\ inflight' = [inflight EXCEPT ![p] = [e \in Events |-> None]]
  /\ claimer' = [claimer EXCEPT ![p] = None]
  /\ UNCHANGED <<inst, redis, at, hist>>

(* The TTL of a lock runs out, of an orphan at no charge.                  *)
Lapse(s) ==
  /\ \/ /\ slock[s] # None /\ slock' = [slock EXCEPT ![s] = None] /\ UNCHANGED gate
        /\ IF slock[s] \in Active THEN Count("lapse") ELSE UNCHANGED n
     \/ /\ gate[s] # None /\ gate' = [gate EXCEPT ![s] = None] /\ UNCHANGED slock
        /\ IF gate[s] \in Active THEN Count("lapse") ELSE UNCHANGED n
  /\ UNCHANGED <<inst, idem, proc, pc, at, on, res, hist>>

(* A record runs out, days after the last delivery of its event.           *)
Expire(e) ==
  /\ idem[e] # None /\ \A d \in Active : EventOf[d] # e
  /\ Count("expire") /\ idem' = [idem EXCEPT ![e] = None]
  /\ UNCHANGED <<inst, slock, gate, proc, pc, at, on, res, hist>>

-----------------------------------------------------------------------------
Claim(d) == TakeClaimLock(d) \/ Look(d) \/ Settle(d) \/ Wake(d)
Serve(d) ==
  \/ Lock(d) \/ LockTimeout(d) \/ Get(d) \/ Claim(d) \/ Recheck(d)
  \/ Enter(d) \/ GateTimeout(d) \/ (\E ok \in BOOLEAN : Execute(d, ok))
  \/ Compare(d) \/ Delete(d) \/ Put(d) \/ FinishInflight(d) \/ Callback(d)
  \/ Unlock(d) \/ Unlock2(d)
Incident ==
  \/ \E d \in Dels : Fault(d) \/ Cancel(d)
  \/ (\E p \in Procs : Crash(p)) \/ (\E s \in Sessions : Lapse(s)) \/ (\E e \in Events : Expire(e))
Next == Incident \/ \E d \in Dels : Serve(d) \/ \E p \in Receivers : Arrive(d, p)
Spec == Init /\ [][Next]_vars

(* Redis, the agent and the callback answer, locks are polled to their     *)
(* deadline, tasks are scheduled.                                          *)
FairSpec == Spec /\ \A d \in Dels : WF_vars(Serve(d))

-----------------------------------------------------------------------------
(* Properties.                                                             *)

(* A claim in _inflight is the claim of a live delivery that will give it  *)
(* up, unless that was cancelled while giving it up; and who works under a *)
(* claim has it.                                                           *)
Claiming == {"recheck", "gate", "run", "compare", "delete", "put", "finish"}
ClaimsOwned ==
  /\ \A p \in Procs, e \in Events :
       LET d == inflight[p][e] IN
       d # None /\ n["cancel"] = 0 => pc[d] \in Claiming /\ at[d] = p /\ EventOf[d] = e
  /\ \A d \in Dels : pc[d] \in Claiming => inflight[at[d]][EventOf[d]] = d

(* The agent serves one event of a session at a time, over all processes,  *)
(* unless the TTL of a lock ran out under its holder.                      *)
RunsOfSession(s) == {d \in Dels : pc[d] = "run" /\ Session(d) = s}
SessionSerial ==
  n["lapse"] = 0 => \A s \in Sessions : \A c, d \in RunsOfSession(s) : c = d

(* Both: work on an event is under its claim, which no delivery takes from *)
(* another, and that of a session one at a time, whatever throws or dies.  *)
ExclusiveWork == ClaimsOwned /\ SessionSerial

(* The promise of EventOnce: one run of an event, and one more at most for *)
(* every mishap, whatever is delivered again, waits, crashes or times out. *)
Once == INSTANCE EventOnce WITH
  of <- [d \in Dels |-> IF pc[d] = "new" THEN None ELSE EventOf[d]],
  ran <- runs, record <- idem, mishaps <- Mishaps
EventsOnce == Once!Spec

(* A delivery that reached dispatch leaves it: nobody waits for ever for a *)
(* claim, but for one whose owner was cancelled while giving it up.        *)
Abandoned(d) == n["cancel"] > 0 /\ pc[d] = "wait" /\ on[d] \notin Active
EveryDeliveryEnds == \A d \in Dels : pc[d] = "get" ~> pc[d] = "done" \/ Abandoned(d)
=============================================================================
