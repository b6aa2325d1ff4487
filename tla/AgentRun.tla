------------------------------ MODULE AgentRun ------------------------------
(***************************************************************************)
(* The agent kernel (agent/run, gate, policy, session) for one session:    *)
(* requests of the entries begin a run (run_stream) or resume a suspended  *)
(* one (resume_stream), each under the Redis session lock, and drive the   *)
(* loop Decide -> Gate -> Act | Ask | AwaitConfirm | Finish.  The session  *)
(* record in Redis carries what is left for the next request: the pending  *)
(* question of a turn_based run or the snapshot of an interactive one.     *)
(*                                                                         *)
(* One action is the code between two awaits (or a yield at which the      *)
(* reader of the stream may go away).  The store client is synchronous, so *)
(* no coroutine comes between its read and its write; another process      *)
(* could, in the milliseconds after a lapse or by a cancel, and is left    *)
(* out there.  A run is named by the request that began it.  The model's   *)
(* choices and the tools' results are nondeterministic.                    *)
(***************************************************************************)
EXTENDS Integers, Sequences, FiniteSets

CONSTANTS
  Reqs,       \* requests, each sent once
  None,       \* no request, question, record
  Tools,      \* business tools
  Forbid,     \* playbook: forbid_tools
  Confirm,    \* playbook: confirm_tools
  Steps,      \* playbook: ids of require_steps
  StepTools,  \* playbook: the tools of each step
  Batches,    \* the tool_calls one act may carry
  Profiles,   \* wait profiles the entries use
  MaxRounds,  \* max_rounds
  FuseLimit,  \* fuse_limit of the progress
  ParseLimit, \* parse errors in a row that fail the run
  Max         \* a bound for each kind of incident

Kinds == {"fail", "crash", "lapse", "cancel", "expire"}
Codes == {"forbid_tool", "need_confirm", "require_steps"}
WaitKinds == {"ask", "await_confirm"}

ASSUME AgentAssumption ==
  /\ Forbid \subseteq Tools /\ Confirm \subseteq Tools
  /\ StepTools \in [Steps -> SUBSET Tools]
  /\ Batches \subseteq Seq(Tools) \ {<<>>}
  /\ Profiles \subseteq {"interactive", "turn_based", "no_wait"}
  /\ MaxRounds \in Nat \ {0} /\ FuseLimit \in Nat \ {0} /\ ParseLimit \in Nat \ {0}
  /\ Max \in [Kinds -> Nat]

(* A question to the user: asked by a request in a round, for a run.  It   *)
(* stands for the PendingState, and for the await_token of a snapshot.     *)
Questions == [by: Reqs, round: 1..MaxRounds, run: Reqs, kind: WaitKinds]

(* What the loop keeps and a snapshot saves: the counters and the playbook *)
(* progress.  key is the question whose answer confirmed the run, so       *)
(* progress.confirmed is key # None.                                 *)
Loops == [run: Reqs, rounds: 0..MaxRounds, parse: 0..ParseLimit,
          rejects: [Codes -> 0..FuseLimit], key: Questions \cup {None},
          done: SUBSET Steps]
NewLoop(r, q) == [run |-> r, rounds |-> 0, parse |-> 0, rejects |-> [c \in Codes |-> 0],
                  key |-> q, done |-> {}]

(* The session record.  awaiting is a snapshot: the question and the loop. *)
Snapshots == [q: Questions, loop: Loops]
Records == [status: {"idle", "running", "awaiting_user"},
            pending: Questions \cup {None},
            awaiting: Snapshots \cup {None},
            active: Reqs \cup {None}]
FreshRecord == [status |-> "idle", pending |-> None, awaiting |-> None, active |-> None]

(* A request begins a run with a wait profile, or resumes with the run and *)
(* the token it names, both optional.                                      *)
Begins == [op: {"run"}, profile: Profiles]
Resumes == [op: {"resume"}, profile: {"interactive"}, run: Reqs \cup {None},
            token: Questions \cup {None}]

ASSUME NoneAssumption ==
  None \notin Reqs /\ None \notin Questions /\ None \notin Snapshots /\ None \notin Begins \cup Resumes

VARIABLES
  lock,     \* the request that holds the session lock, or None
  rec,      \* the session record in the store
  pc,       \* where each request is
  req,      \* what each request asks for
  mine,     \* the record a resume has read
  loop,     \* the state of the loop of each request
  todo,     \* tool calls of the act in progress
  kind,     \* the kind of the wait in progress
  n,        \* incidents so far, by kind
  asked,    \* history: questions the user was shown
  took,     \* history: the question whose record the request took up
  ran,      \* history: tool calls made
  thoughts, \* history: decisions of each run
  finished, \* history: runs that finished
  cancelled \* history: runs cancelled while no resume was reading

local == <<req, mine, loop, todo, kind>>
hist == <<asked, took, ran, thoughts, finished, cancelled>>
vars == <<lock, rec, pc, local, n, hist>>

Labels == {"new", "lock", "open", "reply", "loop", "decide", "exec", "ask", "hold",
           "finish", "unlock", "release", "done"}
Driving == {"loop", "decide", "exec", "ask", "hold", "finish"}
Serving == Driving \cup {"open", "reply", "unlock", "release"}

Init ==
  /\ lock = None /\ rec = FreshRecord
  /\ pc = [r \in Reqs |-> "new"]
  /\ req = [r \in Reqs |-> None]
  /\ mine = [r \in Reqs |-> FreshRecord]
  /\ loop = [r \in Reqs |-> NewLoop(r, None)]
  /\ todo = [r \in Reqs |-> <<>>]
  /\ kind = [r \in Reqs |-> "ask"]
  /\ n = [k \in Kinds |-> 0]
  /\ asked = {} /\ ran = {} /\ finished = {} /\ cancelled = {}
  /\ took = [r \in Reqs |-> None]
  /\ thoughts = [r \in Reqs |-> 0]

Goto(r, l) == pc' = [pc EXCEPT ![r] = l]
Count(k) == n[k] < Max[k] /\ n' = [n EXCEPT ![k] = @ + 1]
Confirmed(r) == loop[r].key # None

-----------------------------------------------------------------------------
(* The entries.                                                            *)

(* A chat message, an event or a message of the IM channel arrives.        *)
SendRun(r, p) ==
  /\ pc[r] = "new" /\ Goto(r, "lock")
  /\ req' = [req EXCEPT ![r] = [op |-> "run", profile |-> p]]
  /\ UNCHANGED <<lock, rec, mine, loop, todo, kind, n, asked, took, ran, thoughts, finished, cancelled>>

(* A reply through /v1/chat/resume; run_id and await_token may be left out. *)
SendResume(r, run, token) ==
  /\ pc[r] = "new" /\ Goto(r, "lock")
  /\ req' = [req EXCEPT ![r] = [op |-> "resume", profile |-> "interactive", run |-> run, token |-> token]]
  /\ UNCHANGED <<lock, rec, mine, loop, todo, kind, n, asked, took, ran, thoughts, finished, cancelled>>

(* Mutant: the lock is set without NX.                                     *)
AcquireNoNX(r) ==
  /\ pc[r] = "lock" /\ Goto(r, "open")
  /\ lock' = r
  /\ UNCHANGED <<rec, local, n, hist>>

(* RedisSessionLock.acquire: SET NX answers OK ...                         *)
Acquire(r) ==
  /\ pc[r] = "lock" /\ lock = None /\ Goto(r, "open")
  /\ lock' = r
  /\ UNCHANGED <<rec, local, n, hist>>

(* Mutant: the wait has no deadline.                                       *)
GiveUpNever(r) == FALSE

(* ... or the wait runs into its deadline (TimeoutError).                  *)
GiveUp(r) ==
  /\ pc[r] = "lock" /\ lock # None /\ Goto(r, "done")
  /\ UNCHANGED <<lock, rec, local, n, hist>>

(* The locals of a coroutine that has ended are gone.                      *)
Forget(r) ==
  /\ mine' = [mine EXCEPT ![r] = FreshRecord]
  /\ loop' = [loop EXCEPT ![r] = NewLoop(r, None)]
  /\ todo' = [todo EXCEPT ![r] = <<>>]
  /\ kind' = [kind EXCEPT ![r] = "ask"]

(* release reads whether the key is its own ...                            *)
Unlock(r) ==
  /\ pc[r] = "unlock" /\ Goto(r, IF lock = r THEN "release" ELSE "done") /\ Forget(r)
  /\ UNCHANGED <<lock, rec, req, n, hist>>

(* ... and then deletes the key, whosever it is by now.                    *)
Release(r) ==
  /\ pc[r] = "release" /\ Goto(r, "done")
  /\ lock' = None
  /\ UNCHANGED <<rec, local, n, hist>>

-----------------------------------------------------------------------------
(* run_stream and resume_stream up to the loop.                            *)

(* run_stream: a session that awaits its user refuses a new run.           *)
Refuse(r) ==
  /\ pc[r] = "open" /\ req[r].op = "run" /\ rec.status = "awaiting_user"
  /\ Goto(r, "unlock")
  /\ UNCHANGED <<lock, rec, local, n, hist>>

(* The pending question a run takes over, and the confirmation it gives.   *)
Carried(r) == IF req[r].profile = "turn_based" THEN rec.pending ELSE None
KeyOf(q) == IF q # None /\ q.kind = "await_confirm" THEN q ELSE None

(* Mutant: the awaiting session is not refused.                            *)
OpenAnyway(r) ==
  /\ pc[r] = "open" /\ req[r].op = "run" /\ Goto(r, "loop")
  /\ rec' = [rec EXCEPT !.status = "running", !.active = r, !.awaiting = None]
  /\ loop' = [loop EXCEPT ![r] = NewLoop(r, KeyOf(Carried(r)))]
  /\ took' = [took EXCEPT ![r] = Carried(r)]
  /\ UNCHANGED <<lock, req, mine, todo, kind, n, asked, ran, thoughts, finished, cancelled>>

(* run_stream: the record is set to running, a turn_based run carries the  *)
(* pending question, and the trigger is remembered.                        *)
Open(r) ==
  /\ pc[r] = "open" /\ req[r].op = "run" /\ rec.status # "awaiting_user" /\ Goto(r, "loop")
  /\ rec' = [rec EXCEPT !.status = "running", !.active = r, !.awaiting = None]
  /\ loop' = [loop EXCEPT ![r] = NewLoop(r, KeyOf(Carried(r)))]
  /\ took' = [took EXCEPT ![r] = Carried(r)]
  /\ UNCHANGED <<lock, req, mine, todo, kind, n, asked, ran, thoughts, finished, cancelled>>

(* The checks of resume_stream against the record it reads.                *)
Resumable(r) ==
  /\ rec.awaiting # None
  /\ req[r].run \in {None, rec.awaiting.q.run}
  /\ req[r].token \in {None, rec.awaiting.q}

(* resume_stream up to the await of remember: the record is read.          *)
Reopen(r) ==
  /\ pc[r] = "open" /\ req[r].op = "resume"
  /\ IF Resumable(r)
       THEN Goto(r, "reply") /\ mine' = [mine EXCEPT ![r] = rec]
       ELSE Goto(r, "unlock") /\ UNCHANGED mine
  /\ UNCHANGED <<lock, rec, req, loop, todo, kind, n, hist>>

(* Mutant: the snapshot stays in the record.                               *)
ReplyKeeps(r) ==
  LET snap == mine[r].awaiting IN
  /\ pc[r] = "reply" /\ Goto(r, "loop")
  /\ rec' = mine[r]
  /\ loop' = [loop EXCEPT ![r] = [snap.loop EXCEPT
                !.key = IF snap.q.kind = "await_confirm" THEN snap.q ELSE @]]
  /\ took' = [took EXCEPT ![r] = snap.q]
  /\ UNCHANGED <<lock, req, mine, todo, kind, n, asked, ran, thoughts, finished, cancelled>>

(* Mutant: any answer counts as a confirmation.                            *)
ReplyConfirms(r) ==
  LET snap == mine[r].awaiting IN
  /\ pc[r] = "reply" /\ Goto(r, "loop")
  /\ rec' = [mine[r] EXCEPT !.status = "running", !.awaiting = None]
  /\ loop' = [loop EXCEPT ![r] = [snap.loop EXCEPT !.key = snap.q]]
  /\ took' = [took EXCEPT ![r] = snap.q]
  /\ UNCHANGED <<lock, req, mine, todo, kind, n, asked, ran, thoughts, finished, cancelled>>

(* resume_stream: the record read before the await is put back as running, *)
(* and the loop of the snapshot goes on; the reply to an await_confirm is  *)
(* taken for a yes.                                                        *)
Reply(r) ==
  LET snap == mine[r].awaiting IN
  /\ pc[r] = "reply" /\ Goto(r, "loop")
  /\ rec' = [mine[r] EXCEPT !.status = "running", !.awaiting = None]
  /\ loop' = [loop EXCEPT ![r] = [snap.loop EXCEPT
                !.key = IF snap.q.kind = "await_confirm" THEN snap.q ELSE @]]
  /\ took' = [took EXCEPT ![r] = snap.q]
  /\ UNCHANGED <<lock, req, mine, todo, kind, n, asked, ran, thoughts, finished, cancelled>>

-----------------------------------------------------------------------------
(* The loop.                                                               *)

(* Mutant: one round too many.                                             *)
ThinkMore(r) ==
  /\ pc[r] = "loop" /\ loop[r].rounds <= MaxRounds /\ Goto(r, "decide")
  /\ loop' = [loop EXCEPT ![r].rounds = @ + 1]
  /\ thoughts' = [thoughts EXCEPT ![loop[r].run] = IF @ > MaxRounds THEN @ ELSE @ + 1]
  /\ UNCHANGED <<lock, rec, req, mine, todo, kind, n, asked, took, ran, finished, cancelled>>

(* A round begins: assemble the prompt and ask the model.                  *)
Think(r) ==
  /\ pc[r] = "loop" /\ loop[r].rounds < MaxRounds /\ Goto(r, "decide")
  /\ loop' = [loop EXCEPT ![r].rounds = @ + 1]
  /\ thoughts' = [thoughts EXCEPT ![loop[r].run] = IF @ > MaxRounds THEN @ ELSE @ + 1]
  /\ UNCHANGED <<lock, rec, req, mine, todo, kind, n, asked, took, ran, finished, cancelled>>

(* The rounds are used up: "incomplete"; the record is left as it is.      *)
Incomplete(r) ==
  /\ pc[r] = "loop" /\ loop[r].rounds = MaxRounds /\ Goto(r, "unlock")
  /\ UNCHANGED <<lock, rec, local, n, hist>>

(* The stream of the model breaks: "failed"; the record is left as it is.  *)
StreamError(r) ==
  /\ pc[r] = "decide" /\ Goto(r, "unlock")
  /\ UNCHANGED <<lock, rec, local, n, hist>>

(* The model's output is no typed action: a hint and another round, or     *)
(* "failed".                                                               *)
ParseError(r) ==
  /\ pc[r] = "decide"
  /\ loop' = [loop EXCEPT ![r].parse = @ + 1]
  /\ Goto(r, IF loop[r].parse + 1 >= ParseLimit THEN "unlock" ELSE "loop")
  /\ UNCHANGED <<lock, rec, req, mine, todo, kind, n, hist>>

(* check_action for an act: the code of the first call that offends.       *)
Offends(r, t) == t \in Forbid \/ (t \in Confirm /\ ~Confirmed(r))
CodeOf(t) == IF t \in Forbid THEN "forbid_tool" ELSE "need_confirm"

(* Mutant: only the first call of the batch is looked at.                  *)
AllowedHead(r, b) == ~Offends(r, b[1])

Allowed(r, b) == \A i \in DOMAIN b : ~Offends(r, b[i])
FirstOffence(r, b) ==
  CHOOSE i \in DOMAIN b : Offends(r, b[i]) /\ \A j \in 1..(i-1) : ~Offends(r, b[j])

(* _reject_or_fuse: a hint and another round, or "failed" when the same    *)
(* code has been rejected FuseLimit times.                                 *)
Reject(r, code) ==
  /\ loop' = [loop EXCEPT ![r].rejects[code] = @ + 1]
  /\ Goto(r, IF loop[r].rejects[code] + 1 >= FuseLimit THEN "unlock" ELSE "loop")
  /\ UNCHANGED <<lock, rec, req, mine, todo, kind, n, hist>>

RejectAct(r, b) ==
  /\ pc[r] = "decide" /\ ~Allowed(r, b)
  /\ Reject(r, CodeOf(b[FirstOffence(r, b)]))

(* The gate lets a finish pass only when every required step is done.      *)
RejectFinish(r) ==
  /\ pc[r] = "decide" /\ loop[r].done # Steps
  /\ Reject(r, "require_steps")

Act(r, b) ==
  /\ pc[r] = "decide" /\ Allowed(r, b) /\ Goto(r, "exec")
  /\ todo' = [todo EXCEPT ![r] = b]
  /\ UNCHANGED <<lock, rec, req, mine, loop, kind, n, hist>>

StepsOf(t) == {s \in Steps : t \in StepTools[s]}
RunTool(r, ok) ==
  /\ ran' = ran \cup {[run |-> loop[r].run, by |-> r, tool |-> Head(todo[r]), ok |-> ok,
                       key |-> loop[r].key, late |-> loop[r].run \in cancelled]}
  /\ todo' = [todo EXCEPT ![r] = Tail(@)]
  /\ Goto(r, IF Tail(todo[r]) = <<>> THEN "loop" ELSE "exec")

(* Mutant: a failed call completes its steps too.                          *)
ExecMarksErrors(r, ok) ==
  /\ pc[r] = "exec" /\ RunTool(r, ok)
  /\ loop' = [loop EXCEPT
       ![r].done = @ \cup StepsOf(Head(todo[r])),
       ![r].parse = IF Tail(todo[r]) = <<>> THEN 0 ELSE @]
  /\ UNCHANGED <<lock, rec, req, mine, kind, n, asked, took, thoughts, finished, cancelled>>

(* exec_acts, one call: a success completes the steps of the tool.  The    *)
(* last call ends the act and resets the parse retries.                    *)
Exec(r, ok) ==
  /\ pc[r] = "exec" /\ RunTool(r, ok)
  /\ loop' = [loop EXCEPT
       ![r].done = IF ok THEN @ \cup StepsOf(Head(todo[r])) ELSE @,
       ![r].parse = IF Tail(todo[r]) = <<>> THEN 0 ELSE @]
  /\ UNCHANGED <<lock, rec, req, mine, kind, n, asked, took, thoughts, finished, cancelled>>

(* An ask or await_confirm passes the gate.                                *)
Ask(r, k) ==
  /\ pc[r] = "decide" /\ Goto(r, "ask")
  /\ kind' = [kind EXCEPT ![r] = k]
  /\ UNCHANGED <<lock, rec, req, mine, loop, todo, n, hist>>

Close(x) == [x EXCEPT !.status = "idle", !.awaiting = None, !.active = None]
QuestionOf(r) == [by |-> r, round |-> loop[r].rounds, run |-> loop[r].run, kind |-> kind[r]]

(* _handle_wait under no_wait: "failed", and the record is closed; the     *)
(* pending question in it, if any, stays.                                  *)
NoWait(r) ==
  /\ pc[r] = "ask" /\ req[r].profile = "no_wait" /\ Goto(r, "unlock")
  /\ rec' = Close(rec)
  /\ UNCHANGED <<lock, local, n, hist>>

(* _handle_wait: the question is remembered and shown to the user ...      *)
Show(r) ==
  /\ pc[r] = "ask" /\ req[r].profile # "no_wait" /\ Goto(r, "hold")
  /\ asked' = asked \cup {QuestionOf(r)}
  /\ UNCHANGED <<lock, rec, local, n, took, ran, thoughts, finished, cancelled>>

(* ... and then stored: turn_based ends the run with a pending question.   *)
HoldTurn(r) ==
  /\ pc[r] = "hold" /\ req[r].profile = "turn_based" /\ Goto(r, "unlock")
  /\ rec' = [Close(rec) EXCEPT !.pending = QuestionOf(r)]
  /\ UNCHANGED <<lock, local, n, hist>>

(* Mutant: the pending question of an earlier run stays.                   *)
SuspendKeeps(r) ==
  /\ pc[r] = "hold" /\ req[r].profile = "interactive" /\ Goto(r, "unlock")
  /\ rec' = [rec EXCEPT !.status = "awaiting_user", !.active = loop[r].run,
                        !.awaiting = [q |-> QuestionOf(r), loop |-> loop[r]]]
  /\ UNCHANGED <<lock, local, n, hist>>

(* interactive suspends the run with a snapshot.                           *)
Suspend(r) ==
  /\ pc[r] = "hold" /\ req[r].profile = "interactive" /\ Goto(r, "unlock")
  /\ rec' = [status |-> "awaiting_user", pending |-> None, active |-> loop[r].run,
             awaiting |-> [q |-> QuestionOf(r), loop |-> loop[r]]]
  /\ UNCHANGED <<lock, local, n, hist>>

(* A finish passes the gate ...                                            *)
AcceptFinish(r) ==
  /\ pc[r] = "decide" /\ loop[r].done = Steps /\ Goto(r, "finish")
  /\ UNCHANGED <<lock, rec, local, n, hist>>

(* ... and, once its summary is remembered, closes the record.             *)
Finish(r) ==
  /\ pc[r] = "finish" /\ Goto(r, "unlock")
  /\ rec' = [Close(rec) EXCEPT !.pending = None]
  /\ finished' = finished \cup {loop[r].run}
  /\ UNCHANGED <<lock, local, n, asked, took, ran, thoughts, cancelled>>

-----------------------------------------------------------------------------
(* Incidents.                                                              *)

(* The reader of the stream goes away, or an exception leaves the kernel   *)
(* at an await: the lock is released, the record stays.                    *)
Fail(r) ==
  /\ pc[r] \in Driving \cup {"open", "reply"} /\ Count("fail") /\ Goto(r, "unlock")
  /\ UNCHANGED <<lock, rec, local, hist>>

(* The process that serves the request dies.                               *)
Crash(r) ==
  /\ pc[r] \in Serving /\ Count("crash") /\ Goto(r, "done") /\ Forget(r)
  /\ UNCHANGED <<lock, rec, req, hist>>

(* The TTL of the lock runs out, of an orphan at no charge.                *)
Lapse ==
  /\ lock # None /\ lock' = None
  /\ IF pc[lock] = "done" THEN UNCHANGED n ELSE Count("lapse")
  /\ UNCHANGED <<rec, pc, local, hist>>

(* Mutant: the snapshot is left in the record.                             *)
CancelStatus ==
  /\ rec.awaiting # None /\ Count("cancel")
  /\ rec' = [rec EXCEPT !.status = "idle", !.active = None]
  /\ cancelled' = IF \E r \in Reqs : pc[r] = "reply" THEN cancelled
                  ELSE cancelled \cup {rec.awaiting.q.run}
  /\ UNCHANGED <<lock, pc, local, asked, took, ran, thoughts, finished>>

(* cancel_awaiting, called by a host without the session lock.  The        *)
(* history notes it when no resume is between its read and its write.      *)
Cancel ==
  /\ rec.awaiting # None /\ Count("cancel")
  /\ rec' = Close(rec)
  /\ cancelled' = IF \E r \in Reqs : pc[r] = "reply" THEN cancelled
                  ELSE cancelled \cup {rec.awaiting.q.run}
  /\ UNCHANGED <<lock, pc, local, asked, took, ran, thoughts, finished>>

(* The TTL of the record (days) runs out while nobody serves the session.  *)
Expire ==
  /\ \A r \in Reqs : pc[r] \notin Serving
  /\ rec # FreshRecord /\ Count("expire")
  /\ rec' = FreshRecord
  /\ UNCHANGED <<lock, pc, local, hist>>

-----------------------------------------------------------------------------
(* A client names a run and a token it was shown, or leaves them out.      *)
Shown == {q \in asked : req[q.by].profile = "interactive"}
Send(r) ==
  \/ \E p \in Profiles : SendRun(r, p)
  \/ \E run \in {q.run : q \in Shown} \cup {None} :
       \E token \in {q \in Shown : run \in {None, q.run}} \cup {None} : SendResume(r, run, token)

Decide(r) ==
  \/ StreamError(r) \/ ParseError(r) \/ RejectFinish(r) \/ AcceptFinish(r)
  \/ \E b \in Batches : RejectAct(r, b) \/ Act(r, b)
  \/ \E k \in WaitKinds : Ask(r, k)

Serve(r) ==
  \/ Acquire(r) \/ GiveUp(r) \/ Unlock(r) \/ Release(r)
  \/ Refuse(r) \/ Open(r) \/ Reopen(r) \/ Reply(r)
  \/ Think(r) \/ Incomplete(r) \/ Decide(r)
  \/ \E ok \in BOOLEAN : Exec(r, ok)
  \/ NoWait(r) \/ Show(r) \/ HoldTurn(r) \/ Suspend(r) \/ Finish(r)

Incident == Lapse \/ Cancel \/ Expire \/ \E r \in Reqs : Fail(r) \/ Crash(r)
Next == Incident \/ \E r \in Reqs : Send(r) \/ Serve(r)
Spec == Init /\ [][Next]_vars

(* Every request is served on: the model and the tools answer, the lock is *)
(* polled until it is taken or the wait times out.                         *)
FairSpec == Spec /\ \A r \in Reqs : WF_vars(Serve(r))

-----------------------------------------------------------------------------
(* Properties.                                                             *)

Calls == [run: Reqs, by: Reqs, tool: Tools, ok: BOOLEAN, key: Questions \cup {None}, late: BOOLEAN]

(* Every variable keeps to its type: in particular no loop or snapshot     *)
(* exceeds its rounds, parse retries or rejects.                           *)
TypeInv ==
  /\ lock \in Reqs \cup {None}
  /\ rec \in Records
  /\ pc \in [Reqs -> Labels]
  /\ req \in [Reqs -> Begins \cup Resumes \cup {None}]
  /\ mine \in [Reqs -> Records]
  /\ loop \in [Reqs -> Loops]
  /\ todo \in [Reqs -> Seq(Tools)]
  /\ kind \in [Reqs -> WaitKinds]
  /\ n \in [Kinds -> Nat]
  /\ asked \subseteq Questions
  /\ took \in [Reqs -> Questions \cup {None}]
  /\ ran \subseteq Calls
  /\ thoughts \in [Reqs -> 0..(MaxRounds + 1)]
  /\ finished \subseteq Reqs /\ cancelled \subseteq Reqs

(* The session record is coherent whatever interleaves, a resume that puts *)
(* back an old record included: it awaits the user iff it has a snapshot,  *)
(* the snapshot is of the active run and excludes a pending question, and  *)
(* an idle session has no active run.                                      *)
Coherent(x) ==
  /\ x.status = "awaiting_user" <=> x.awaiting # None
  /\ x.status = "idle" <=> x.active = None
  /\ x.awaiting # None => /\ x.active = x.awaiting.q.run
                          /\ x.awaiting.loop.run = x.awaiting.q.run
                          /\ x.pending = None
RecordCoherent == Coherent(rec)

(* The playbook is kept along every path, over suspension, crash and       *)
(* carried questions: a forbidden tool is never called, and a tool that    *)
(* needs confirmation only in a run that took the answer to a confirmation *)
(* question the user was shown.                                            *)
PolicyKept ==
  \A c \in ran : /\ c.tool \notin Forbid
                 /\ c.tool \in Confirm => c.key \in asked /\ c.key.kind = "await_confirm"

(* A run finishes only after a successful call, in that run, of a tool of  *)
(* every required step.                                                    *)
StepsBeforeFinish ==
  \A run \in finished, s \in Steps :
    \E c \in ran : c.run = run /\ c.ok /\ c.tool \in StepTools[s]

Serving1 == {r \in Reqs : pc[r] \in Serving}

(* While no TTL ran out under its holder, one request at a time is served  *)
(* for the session.                                                        *)
OneRunUnlessLapsed == n["lapse"] = 0 => \A r, s \in Serving1 : r = s

Resumed(r) == took[r] # None /\ req[r].op = "resume"

(* While no TTL ran out, a suspended question is answered by one resume,   *)
(* whatever tokens the clients send, and a run over all its suspensions    *)
(* makes at most MaxRounds decisions.                                      *)
AnsweredOnce ==
  n["lapse"] = 0 =>
    /\ \A r, s \in Reqs : r # s /\ Resumed(r) /\ Resumed(s) => took[r] # took[s]
    /\ \A r \in Reqs : thoughts[r] <= MaxRounds

(* A question of an interactive run stays in the record until a resume     *)
(* takes it, unless it is cancelled, expires, or an incident strikes the   *)
(* request that asks it.                                                   *)
Held(q) == rec.awaiting # None /\ rec.awaiting.q = q
Storing(q) == pc[q.by] = "hold"
Answering(q) == \E r \in Reqs : took[r] = q \/ (pc[r] = "reply" /\ mine[r].awaiting.q = q)
QuestionKept ==
  (\A k \in Kinds : n[k] = 0) =>
    \A q \in Shown : Storing(q) \/ Held(q) \/ Answering(q)

(* A cancelled run has ended: while no TTL ran out it calls no tool any    *)
(* more, unless a resume had read the record before the cancel and puts it *)
(* back after it.  (After a lapse two resumes may have the run, one of     *)
(* which suspends it again and the other goes on.)                         *)
CancelledRunEnds == n["lapse"] = 0 => \A c \in ran : ~c.late

(* A request that waits for the lock is served or given up: the loop ends  *)
(* within its rounds whatever the model answers.                           *)
EveryRequestEnds == \A r \in Reqs : pc[r] = "lock" ~> pc[r] = "done"

=============================================================================
