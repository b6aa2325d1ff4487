---------------------------- MODULE SessionQueue ----------------------------
(***************************************************************************)
(* The IM session queue (im/session_queue) and its workers, for one        *)
(* session: the Redis keys q, processing, lock, dedupe and active of the   *)
(* session, shared by the processes of the deployment.  In each process    *)
(* the WeCom callbacks enqueue a job and kick a consumer, and at most one  *)
(* consumer coroutine (SessionWorker._run_session) takes the jobs.         *)
(*                                                                         *)
(* One action is one Redis command together with the local code up to the  *)
(* next await.  The lists are written oldest first: Head is the right end  *)
(* of the Redis list, Append is LPUSH.                                     *)
(*                                                                         *)
(* Time is abstract.  A handler either ends well within the TTL of the     *)
(* lock, or it is "long" and from then on the TTL may run out (aged).      *)
(* The lock of a consumer that no longer exists runs out eventually.       *)
(***************************************************************************)
EXTENDS Integers, Sequences, FiniteSets

CONSTANTS
  Msgs,   \* messages of the session, by dedupe_key
  Procs,  \* the processes that serve the callback
  None,   \* no message, no process
  Sends,  \* how often the platform delivers one message
  Max,    \* a bound for each kind of incident
  Cap     \* the history counter of starts saturates here

Kinds == {"crash", "stop", "fault", "long"}

ASSUME QueueAssumption ==
  /\ None \notin Msgs
  /\ None \notin Procs
  /\ Sends \in Nat
  /\ Max \in [Kinds -> Nat]
  /\ Cap \in Nat

VARIABLES
  q,         \* the pending list
  proc,      \* the processing list
  lock,      \* the process whose consumer owns the lock, or None
  dedupe,    \* messages whose dedupe key is set
  active,    \* the job named by the active key, or None
  sent,      \* deliveries made of each message
  cb,        \* [process -> [message -> stage of its callback]]
  guard,     \* the callback that reclaims under the guard of a process
  hand,      \* the job a reclaimer popped and has not pushed back yet
  w,         \* program counter of the consumer of a process
  job,       \* the job the consumer took
  due,       \* processes whose consumer must refresh before the next take
  cancelled, \* processes whose consumer was cancelled
  stopping,  \* processes that are shutting down
  aged,      \* the TTL of the lock may run out under a live consumer
  n,         \* incidents so far, by kind
  pushed,    \* history: accepted messages, in order
  handled,   \* history: jobs whose handler ran to its end
  starts     \* history: how often each job was handed to the handler

redis == <<q, proc, lock, dedupe, active>>
local == <<cb, guard, hand, w, job, due, cancelled, stopping>>
hist  == <<pushed, handled, starts>>
vars  == <<redis, sent, local, aged, n, hist>>

Stages == {"none", "push", "kick"}
PC == {"none", "top", "expire", "take", "start", "handle", "ack", "clear",
       "sleep", "len", "get", "del", "len2", "rekick"}

Elems(s) == {s[i] : i \in DOMAIN s}

(* A process owns the lock, by this bookkeeping, while it reclaims and     *)
(* while its consumer has not reached the release.                         *)
Reclaiming(p) == guard[p] # None
Owning == {"top", "expire", "take", "start", "handle", "ack", "clear",
           "sleep", "len", "get", "del"}
Orphaned == lock # None /\ w[lock] = "none" /\ ~Reclaiming(lock)

Init ==
  /\ q = <<>> /\ proc = <<>> /\ lock = None /\ dedupe = {} /\ active = None
  /\ sent = [m \in Msgs |-> 0]
  /\ cb = [p \in Procs |-> [m \in Msgs |-> "none"]]
  /\ guard = [p \in Procs |-> None]
  /\ hand = [p \in Procs |-> None]
  /\ w = [p \in Procs |-> "none"]
  /\ job = [p \in Procs |-> None]
  /\ due = {} /\ cancelled = {} /\ stopping = {}
  /\ aged = FALSE
  /\ n = [k \in Kinds |-> 0]
  /\ pushed = <<>> /\ handled = {} /\ starts = [m \in Msgs |-> 0]

Count(k) == n[k] < Max[k] /\ n' = [n EXCEPT ![k] = @ + 1]

-----------------------------------------------------------------------------
(* The callback: enqueue, then ensure_consumer.                            *)

(* schedule_handle_message and the SET NX of the dedupe key.               *)
Deliver(p, m) ==
  /\ p \notin stopping /\ sent[m] < Sends /\ cb[p][m] = "none"
  /\ sent' = [sent EXCEPT ![m] = @ + 1]
  /\ dedupe' = dedupe \cup {m}
  /\ cb' = [cb EXCEPT ![p][m] = IF m \in dedupe THEN "none" ELSE "push"]
  /\ UNCHANGED <<q, proc, lock, active, guard, hand, w, job, due, cancelled, stopping, aged, n, hist>>

(* LPUSH; the result is "accepted".                                        *)
Push(p, m) ==
  /\ cb[p][m] = "push"
  /\ q' = Append(q, m)
  /\ pushed' = Append(pushed, m)
  /\ cb' = [cb EXCEPT ![p][m] = "kick"]
  /\ UNCHANGED <<proc, lock, dedupe, active, sent, guard, hand, w, job, due, cancelled, stopping,
                 aged, n, handled, starts>>

(* Mutant: the consumer lock is set without NX.                            *)
KickNoNX(p, m) ==
  /\ cb[p][m] = "kick" /\ ~Reclaiming(p)
  /\ IF w[p] = "none"
       THEN lock' = p /\ aged' = FALSE /\ guard' = [guard EXCEPT ![p] = m]
       ELSE UNCHANGED <<lock, aged, guard>>
  /\ cb' = [cb EXCEPT ![p][m] = "none"]
  /\ UNCHANGED <<q, proc, dedupe, active, sent, hand, w, job, due, cancelled, stopping, n, hist>>

(* ensure_consumer up to the answer of SET NX: a live consumer of this     *)
(* process or a lock held by anybody ends it.  The guard keeps the other   *)
(* callbacks of the process out until the consumer is started.             *)
Kick(p, m) ==
  /\ cb[p][m] = "kick" /\ ~Reclaiming(p)
  /\ IF w[p] = "none" /\ lock = None
       THEN /\ lock' = p /\ aged' = FALSE
            /\ guard' = [guard EXCEPT ![p] = m]
       ELSE UNCHANGED <<lock, aged, guard>>
  /\ cb' = [cb EXCEPT ![p][m] = "none"]
  /\ UNCHANGED <<q, proc, dedupe, active, sent, hand, w, job, due, cancelled, stopping, n, hist>>

(* reclaim_processing: RPOP from processing ...                            *)
ReclaimPop(p) ==
  /\ Reclaiming(p) /\ hand[p] = None /\ proc # <<>>
  /\ hand' = [hand EXCEPT ![p] = Head(proc)]
  /\ proc' = Tail(proc)
  /\ UNCHANGED <<q, lock, dedupe, active, sent, cb, guard, w, job, due, cancelled, stopping, aged, n, hist>>

(* Mutant: the reclaimed job goes to the far end of q (LPUSH).             *)
ReclaimPushLeft(p) ==
  /\ hand[p] # None
  /\ q' = Append(q, hand[p])
  /\ hand' = [hand EXCEPT ![p] = None]
  /\ UNCHANGED <<proc, lock, dedupe, active, sent, cb, guard, w, job, due, cancelled, stopping,
                 aged, n, hist>>

(* ... RPUSH to the end of q that is served next.                          *)
ReclaimPush(p) ==
  /\ hand[p] # None
  /\ q' = <<hand[p]>> \o q
  /\ hand' = [hand EXCEPT ![p] = None]
  /\ UNCHANGED <<proc, lock, dedupe, active, sent, cb, guard, w, job, due, cancelled, stopping, aged, n, hist>>

(* RPOP found nothing: create_task, and the guard is left.                 *)
Spawn(p) ==
  /\ Reclaiming(p) /\ hand[p] = None /\ proc = <<>>
  /\ w' = [w EXCEPT ![p] = "top"]
  /\ guard' = [guard EXCEPT ![p] = None]
  /\ due' = due \ {p} /\ cancelled' = cancelled \ {p}
  /\ UNCHANGED <<redis, sent, cb, hand, job, stopping, aged, n, hist>>

-----------------------------------------------------------------------------
(* The consumer: _run_session.                                             *)

Goto(p, pc) == w' = [w EXCEPT ![p] = pc]

(* refresh_lock, the GET: 30 seconds have passed, certainly so after a     *)
(* long handler.  A lock that is not its own any more ends the loop.       *)
RefreshGet(p) ==
  /\ w[p] = "top"
  /\ Goto(p, IF lock = p THEN "expire" ELSE "get")
  /\ UNCHANGED <<redis, sent, cb, guard, hand, job, due, cancelled, stopping, aged, n, hist>>

(* refresh_lock, the EXPIRE: it does nothing if the key went in between,   *)
(* and prolongs the lock of another process if there is one by then.       *)
RefreshExpire(p) ==
  /\ w[p] = "expire"
  /\ aged' = FALSE /\ due' = due \ {p}
  /\ Goto(p, "take")
  /\ UNCHANGED <<redis, sent, cb, guard, hand, job, cancelled, stopping, n, hist>>

(* Mutant: RPOP instead of RPOPLPUSH.                                      *)
TakePop(p) ==
  /\ w[p] = "take" \/ (w[p] = "top" /\ p \notin due)
  /\ IF q = <<>>
       THEN Goto(p, "sleep") /\ UNCHANGED <<q, job>>
       ELSE Goto(p, "start") /\ job' = [job EXCEPT ![p] = Head(q)] /\ q' = Tail(q)
  /\ UNCHANGED <<proc, lock, dedupe, active, sent, cb, guard, hand, due, cancelled, stopping,
                 aged, n, hist>>

(* take_jobs: RPOPLPUSH of one job.                                        *)
Take(p) ==
  /\ \/ w[p] = "take"
     \/ w[p] = "top" /\ p \notin due
  /\ IF q = <<>>
       THEN /\ Goto(p, "sleep")
            /\ UNCHANGED <<q, proc, job>>
       ELSE /\ Goto(p, "start")
            /\ job' = [job EXCEPT ![p] = Head(q)]
            /\ q' = Tail(q)
            /\ proc' = Append(proc, Head(q))
  /\ UNCHANGED <<lock, dedupe, active, sent, cb, guard, hand, due, cancelled, stopping, aged, n, hist>>

(* Mutant: the job is acknowledged before it is handled.                   *)
StartAcked(p) ==
  /\ w[p] = "start"
  /\ active' = job[p]
  /\ proc' = SelectSeq(proc, LAMBDA m : m # job[p])
  /\ starts' = [starts EXCEPT ![job[p]] = IF @ < Cap THEN @ + 1 ELSE @]
  /\ Goto(p, "handle")
  /\ UNCHANGED <<q, lock, dedupe, sent, cb, guard, hand, job, due, cancelled, stopping, aged, n,
                 pushed, handled>>

(* clear_cancel, set_active, and the handler is called.                    *)
Start(p) ==
  /\ w[p] = "start"
  /\ active' = job[p]
  /\ starts' = [starts EXCEPT ![job[p]] = IF @ < Cap THEN @ + 1 ELSE @]
  /\ Goto(p, "handle")
  /\ UNCHANGED <<q, proc, lock, dedupe, sent, cb, guard, hand, job, due, cancelled, stopping, aged, n,
                 pushed, handled>>

(* The handler takes so long that the TTL of the lock may run out.         *)
Overrun(p) ==
  /\ w[p] = "handle" /\ lock = p /\ ~aged
  /\ Count("long")
  /\ aged' = TRUE /\ due' = due \cup {p}
  /\ UNCHANGED <<redis, sent, cb, guard, hand, w, job, cancelled, stopping, hist>>

(* The handler returns or raises: both end in the ack.                     *)
Finish(p) ==
  /\ w[p] = "handle"
  /\ handled' = handled \cup {job[p]}
  /\ Goto(p, "ack")
  /\ UNCHANGED <<redis, sent, cb, guard, hand, job, due, cancelled, stopping, aged, n, pushed, starts>>

(* LREM processing 1 takes out one equal entry, if there is one; which one *)
(* does not matter, for a message is pushed once.                          *)
Without(s, m) ==
  IF m \in Elems(s)
    THEN LET i == CHOOSE j \in DOMAIN s : s[j] = m
         IN  SubSeq(s, 1, i - 1) \o SubSeq(s, i + 1, Len(s))
    ELSE s

(* Mutant: the payload is written differently and LREM finds nothing.      *)
AckMismatch(p) ==
  /\ w[p] = "ack"
  /\ Goto(p, "clear")
  /\ UNCHANGED <<redis, sent, cb, guard, hand, job, due, cancelled, stopping, aged, n, hist>>

Ack(p) ==
  /\ w[p] = "ack"
  /\ proc' = Without(proc, job[p])
  /\ Goto(p, "clear")
  /\ UNCHANGED <<q, lock, dedupe, active, sent, cb, guard, hand, job, due, cancelled, stopping, aged, n, hist>>

(* Mutant: the coroutine ends after one job.                               *)
ClearOnce(p) ==
  /\ w[p] = "clear"
  /\ active' = None
  /\ job' = [job EXCEPT ![p] = None]
  /\ Goto(p, "get")
  /\ UNCHANGED <<q, proc, lock, dedupe, sent, cb, guard, hand, due, cancelled, stopping,
                 aged, n, hist>>

(* clear_active.  A consumer that was cancelled goes on to the release.    *)
Clear(p) ==
  /\ w[p] = "clear"
  /\ active' = None
  /\ job' = [job EXCEPT ![p] = None]
  /\ Goto(p, IF p \in cancelled THEN "get" ELSE "top")
  /\ UNCHANGED <<q, proc, lock, dedupe, sent, cb, guard, hand, due, cancelled, stopping, aged, n, hist>>

(* The nap after an empty take, then LLEN.                                 *)
Wake(p) ==
  /\ w[p] = "sleep"
  /\ Goto(p, "len")
  /\ UNCHANGED <<redis, sent, cb, guard, hand, job, due, cancelled, stopping, aged, n, hist>>

CheckLen(p) ==
  /\ w[p] = "len"
  /\ Goto(p, IF q # <<>> THEN "top" ELSE "get")
  /\ UNCHANGED <<redis, sent, cb, guard, hand, job, due, cancelled, stopping, aged, n, hist>>

(* release_lock: GET, compare, DELETE.                                     *)
ReleaseGet(p) ==
  /\ w[p] = "get"
  /\ Goto(p, IF lock = p THEN "del" ELSE "len2")
  /\ UNCHANGED <<redis, sent, cb, guard, hand, job, due, cancelled, stopping, aged, n, hist>>

ReleaseDel(p) ==
  /\ w[p] = "del"
  /\ lock' = None /\ aged' = FALSE
  /\ Goto(p, "len2")
  /\ UNCHANGED <<q, proc, dedupe, active, sent, cb, guard, hand, job, due, cancelled, stopping, n, hist>>

(* The last LLEN of the coroutine: with a backlog it calls ensure_consumer.*)
CheckBacklog(p) ==
  /\ w[p] = "len2"
  /\ Goto(p, IF q # <<>> THEN "rekick" ELSE "none")
  /\ UNCHANGED <<redis, sent, cb, guard, hand, job, due, cancelled, stopping, aged, n, hist>>

(* ensure_consumer, called by the consumer itself: _tasks still holds this *)
(* very task and it is not done, so the call returns and the task ends.    *)
Rekick(p) ==
  /\ w[p] = "rekick" /\ ~Reclaiming(p)
  /\ Goto(p, "none")
  /\ UNCHANGED <<redis, sent, cb, guard, hand, job, due, cancelled, stopping, aged, n, hist>>

-----------------------------------------------------------------------------
(* Time, failures and restarts.                                            *)

(* Mutant: the lock is set without EX.                                     *)
NoLapse == lock # None /\ lock' = lock /\ UNCHANGED vars

(* The TTL of the lock runs out.                                           *)
Lapse ==
  /\ lock # None /\ (aged \/ Orphaned)
  /\ lock' = None /\ aged' = FALSE
  /\ UNCHANGED <<q, proc, dedupe, active, sent, local, n, hist>>

(* The active key has the same TTL, counted from set_active.               *)
ActiveLapse ==
  /\ active # None
  /\ \A p \in Procs : w[p] \in {"handle", "ack", "clear"} => p \in due
  /\ active' = None
  /\ UNCHANGED <<q, proc, lock, dedupe, sent, local, aged, n, hist>>

(* Everything in the memory of a process is gone.                          *)
Forget(p) ==
  /\ cb' = [cb EXCEPT ![p] = [m \in Msgs |-> "none"]]
  /\ guard' = [guard EXCEPT ![p] = None]
  /\ hand' = [hand EXCEPT ![p] = None]
  /\ w' = [w EXCEPT ![p] = "none"]
  /\ job' = [job EXCEPT ![p] = None]
  /\ due' = due \ {p} /\ cancelled' = cancelled \ {p} /\ stopping' = stopping \ {p}
  /\ UNCHANGED <<redis, sent, aged, hist>>

Crash(p) == Count("crash") /\ Forget(p)

(* The shutdown of the server cancels the consumers.  The await at which   *)
(* the consumer is raises CancelledError: in the handler, or on the way to *)
(* it, the inner finally still acknowledges the job; before it, and in the *)
(* nap, the outer finally releases the lock; in the release the coroutine  *)
(* ends at once.  The RPOPLPUSH under way may have been executed.           *)
Cancelled(pc) ==
  IF pc \in {"start", "handle"} THEN "ack"
  ELSE IF pc \in Owning \ {"get", "del"} THEN "get"
  ELSE "none"

Shutdown(p) ==
  /\ p \notin stopping /\ Count("stop")
  /\ stopping' = stopping \cup {p} /\ cancelled' = cancelled \cup {p}
  /\ Goto(p, Cancelled(w[p]))
  /\ \/ UNCHANGED <<q, proc>>
     \/ /\ w[p] \in {"top", "take"} /\ q # <<>>
        /\ q' = Tail(q) /\ proc' = Append(proc, Head(q))
  /\ job' = [job EXCEPT ![p] = IF w[p] \in {"start", "handle"} THEN @ ELSE None]
  /\ UNCHANGED <<lock, dedupe, active, sent, cb, guard, hand, due, aged, hist>>

(* The process that shuts down ends, with whatever it still had to do.     *)
Exit(p) == p \in stopping /\ Forget(p) /\ UNCHANGED n

(* A Redis command raises: LPUSH (the message stays marked), RPOP or RPUSH *)
(* of the reclaim (ensure_consumer leaves the lock set), clear_cancel or   *)
(* set_active (logged like an error of the handler, and the job is         *)
(* acknowledged), any other command of the loop (the coroutine releases    *)
(* the lock and ends), or one of the release (it ends).                    *)
Fault(p) ==
  /\ Count("fault")
  /\ \/ \E m \in Msgs :
          /\ cb[p][m] = "push"
          /\ cb' = [cb EXCEPT ![p][m] = "none"]
          /\ UNCHANGED <<guard, hand, w, job>>
     \/ /\ Reclaiming(p)
        /\ guard' = [guard EXCEPT ![p] = None]
        /\ hand' = [hand EXCEPT ![p] = None]
        /\ UNCHANGED <<cb, w, job>>
     \/ /\ w[p] = "start"
        /\ Goto(p, "ack")
        /\ UNCHANGED <<cb, guard, hand, job>>
     \/ /\ w[p] \in {"top", "expire", "take", "ack", "clear", "len"}
        /\ Goto(p, "get")
        /\ job' = [job EXCEPT ![p] = None]
        /\ UNCHANGED <<cb, guard, hand>>
     \/ /\ w[p] \in {"get", "del", "len2"}
        /\ Goto(p, "none")
        /\ UNCHANGED <<cb, guard, hand, job>>
  /\ UNCHANGED <<redis, sent, due, cancelled, stopping, aged, hist>>

-----------------------------------------------------------------------------
(* Correctness.                                                            *)

(* Every variable keeps to its type: keys, lists and counters of the       *)
(* queue and the bookkeeping of SessionWorker.                             *)
TypeOK ==
  /\ q \in Seq(Msgs) /\ proc \in Seq(Msgs)
  /\ lock \in Procs \cup {None} /\ dedupe \subseteq Msgs /\ active \in Msgs \cup {None}
  /\ sent \in [Msgs -> 0..Sends]
  /\ cb \in [Procs -> [Msgs -> Stages]]
  /\ guard \in [Procs -> Msgs \cup {None}]
  /\ hand \in [Procs -> Msgs \cup {None}]
  /\ w \in [Procs -> PC]
  /\ job \in [Procs -> Msgs \cup {None}]
  /\ due \subseteq Procs /\ cancelled \subseteq Procs /\ stopping \subseteq Procs
  /\ aged \in BOOLEAN
  /\ n \in [Kinds -> Nat]
  /\ pushed \in Seq(Msgs) /\ handled \subseteq Msgs /\ starts \in [Msgs -> 0..Cap]

(* ... and a consumer knows its job from the take to the ack.              *)
JobHeld == \A p \in Procs : w[p] \in {"start", "handle", "ack", "clear"} => job[p] \in Msgs

(* Both together: no step leaves a variable of the wrong kind, and nothing *)
(* is ever acknowledged without a job in hand.                             *)
TypeInv == TypeOK /\ JobHeld

(* As long as no handler outlives the TTL of the lock, two consumers, or a *)
(* consumer and a reclaimer, never work on the lists of the session at the *)
(* same time, whatever crashes, shuts down or fails: the jobs of a session *)
(* run one by one (worker.py: "为每个 session 维护至多一个消费协程").            *)
Working(p) == Reclaiming(p) \/ w[p] \in Owning \ {"get", "del"}
OneConsumer ==
  n["long"] = 0 => \A p, r \in Procs : Working(p) /\ Working(r) => p = r

(* Why: whoever reclaims or consumes owns the lock as long as no TTL ran   *)
(* out under it, and a process does one of the two at a time.              *)
LockInv ==
  /\ \A p \in Procs : Reclaiming(p) => w[p] = "none"
  /\ n["long"] = 0 =>
       /\ ~aged
       /\ \A p \in Procs : Reclaiming(p) \/ w[p] \in Owning => lock = p

(* An accepted job whose handler has not run to its end is still in Redis, *)
(* pending or in processing, unless a process crashed, was shut down or    *)
(* had a command fail (a shutdown counts twice, for the cancel and for the *)
(* end of the process): consumers that overlap after a lapse of the lock    *)
(* may run a job twice, but drop none.                                     *)
InRedis == Elems(q) \cup Elems(proc)
Missing == Elems(pushed) \ (handled \cup InRedis \cup {hand[p] : p \in Procs})
Mishaps == n["crash"] + 2 * n["stop"] + n["fault"]
NothingLost == Mishaps = 0 => Missing = {}

(* Why: only the ack takes a job out of Redis, and without a cancellation  *)
(* the handler has run to its end by then.                                 *)
KeptInv ==
  Mishaps = 0 =>
    /\ Missing = {}
    /\ stopping = {}
    /\ \A p \in Procs : w[p] = "ack" => job[p] \in handled

(* A crash costs at most one job, the one a reclaimer holds between RPOP   *)
(* and RPUSH; a failing command that one, or the one whose start failed; a *)
(* shutdown that of the reclaimer and the one whose handler it cancelled.  *)
LossBounded == Cardinality(Missing) <= Mishaps

(* A job is handed to the handler again only after an incident, and never  *)
(* because the platform delivered its message again: as long as no lock    *)
(* lapses under its consumer, every redelivery is paid for by a crash, a   *)
(* fault or a shutdown, which pays for two as above.  (One lapse alone can *)
(* cost two redeliveries: the consumers reclaim the job from each other.)  *)
RedeliveryBounded ==
  n["long"] = 0 => \A m \in Msgs : starts[m] <= 1 + Mishaps

(* First come, first served, through crashes and reclaims: when a job has  *)
(* been started, every job accepted before it has been started too, or is  *)
(* not in Redis any more (take_jobs, reclaim_processing).                  *)
FIFO ==
  n["long"] = 0 =>
    \A i, j \in DOMAIN pushed :
      i < j /\ starts[pushed[j]] > 0 => starts[pushed[i]] > 0 \/ pushed[i] \notin InRedis

-----------------------------------------------------------------------------
Callback(p) == \E m \in Msgs : Push(p, m) \/ Kick(p, m)
Reclaim(p) == ReclaimPop(p) \/ ReclaimPush(p) \/ Spawn(p)
Consume(p) ==
  \/ RefreshGet(p) \/ RefreshExpire(p) \/ Take(p) \/ Start(p) \/ Finish(p)
  \/ Ack(p) \/ Clear(p) \/ Wake(p) \/ CheckLen(p)
  \/ ReleaseGet(p) \/ ReleaseDel(p) \/ CheckBacklog(p) \/ Rekick(p)

Next ==
  \/ \E p \in Procs :
       \/ \E m \in Msgs : Deliver(p, m)
       \/ Callback(p) \/ Reclaim(p) \/ Consume(p)
       \/ Overrun(p) \/ Crash(p) \/ Shutdown(p) \/ Exit(p) \/ Fault(p)
  \/ Lapse \/ ActiveLapse

Spec == Init /\ [][Next]_vars

(* The event loop of a process runs every task that can go on, a process   *)
(* that shuts down ends, and a TTL runs out.                               *)
Fairness ==
  /\ \A p \in Procs :
       /\ \A m \in Msgs : WF_vars(Push(p, m)) /\ WF_vars(Kick(p, m))
       /\ WF_vars(Reclaim(p)) /\ WF_vars(Consume(p)) /\ WF_vars(Exit(p))
  /\ WF_vars(Lapse)

FairSpec == Spec /\ Fairness

(* No consumer keeps the session for ever: a lock that is held is free at  *)
(* some later time, also when its owner crashed or failed.                 *)
LockFreed == \A p \in Procs : lock = p ~> lock # p

(* A consumer at the head of its loop with a backlog serves all of it,     *)
(* incidents apart.                                                        *)
Drained ==
  \A p \in Procs : w[p] = "top" /\ q # <<>> ~> q = <<>> \/ Mishaps + n["long"] > 0

(* Every accepted job is handled in the end, without any incident at all   *)
(* (worker.py:110: a backlog after the release is kicked again).           *)
EveryJobServed == \A m \in Msgs : m \in Elems(pushed) ~> m \in handled
=============================================================================
