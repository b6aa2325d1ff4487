# Hubloom: TLA+ models, checks and proofs

Hubloom is a private agent service in Python (`src/src`): an agent kernel that
alternates "decide" (an LLM call) and "act" (tool calls) under a policy gate,
reached over HTTP, through WeCom messages and through business events, with
Redis for sessions, queues and locks, a conversation store, a long term memory,
MCP tools and A2A peers.  This directory models the parts whose correctness
depends on order: who owns a session, which job runs when, what a crash leaves
behind, what the user has agreed to.  All paths below are relative to the root
of the repository; `src/agent/run.py` is meant where the file is
`src/src/agent/run.py` in this tree.

## 1. Inventory

| Part | State | Operations | Talks to | What is hard |
|---|---|---|---|---|
| IM session queue (`im/session_queue`) | Redis: `q`, `processing`, `lock`, `dedupe`, `active`, `cancel`; per process: `_tasks`, `_guard` | enqueue, kick, reclaim, take, handle, ack, refresh, release | WeCom adapter, the agent through `run_wecom_agent_turn` | several processes, TTL of the lock, crash between two Redis commands, cancellation, wake-ups |
| Redis locks (`agent/redis_session.py`, `events/session_gate.py`) | a key with a token and a TTL | acquire with polling and a deadline, release by GET, compare, DELETE | every entry point that runs the agent | TTL against a slow holder, timeouts, non-atomic release |
| Event dispatch (`events`) | Redis: result per `event_id`; per process: `_inflight`, `_claim_lock` | dispatch, wait or claim, gate, run, put, finish, callback | HTTP ingest, agent runner, result callback | duplicates in and across processes, crash between run and put |
| Agent kernel (`agent/run.py` and `gate`, `policy`, `actions`, `wait`, `session`, `evidence`, `loop`, `assemble`) | session record (status, awaiting, pending), memory, evidence, progress of the playbook | run, decide, gate, act, ask, await confirmation, finish, resume, cancel | LLM, tools, memory, session store | what a user's answer confirms, budgets and the fuse, half finished runs |
| HTTP server, runtime (`server`, `runtime.py`, `context.py`) | one runtime, one lock per session | chat, resume, events, WeCom callback, shutdown | all of the above | lock held across a stream, errors after the status is set |
| WeCom (`im/wecom`) | access token cache, MsgId LRU | verify, decrypt, push, resolve tokens | WeCom API, business API | expired tokens, eviction |
| Conversation memory (`memory/context.py`, both stores, `agent/assemble.py`) | rows per session; one shared connection per process | append, read the window, cut off the turn's own rows, trim | kernel, server | windows that cut a tool group in two, transactions shared by sessions |
| Consolidation (`memory/memory_worker.py`, consolidators, checkpoints) | checkpoint per session | count, read, distil, upsert checkpoint | LLM, stores | crash before the checkpoint, overlapping workers |
| Long term memory (`memory/manager.py`, stores, handlers, lifecycle) | points in one Qdrant collection, a graph in Neo4j | remember, recall, relate, link, forget, clear, evict | LLM, stores | every request may meet another client's deletion |
| MCP adapter (`mcp_adapter`) | a client session on a loop and thread of its own; context variables in the worker | connect, execute, time out, close; the caller's token | tools | close during a call, a token that is not the caller's |
| A2A adapter (`a2a_adapter`) | task state | execute, delegate | kernel | one final state |
| Tools (`tools`) | registry | run with retry | kernel | retry of side effects |
| LLM client (`core/llm.py`) with `decide` | buffers of a stream | assemble a turn from its chunks | kernel | interleaved calls, streams that end early |
| Retrieval (`retrieval`) | a Chroma collection | split, index, delete, search | host, tools | a start that dies half way, two at once |
| Skills, embedders, configuration, observability | caches | pure I/O and text | kernel | out of reach: text and network |
| Web example (`examples/chat/web`) | client state | pages | HTTP server | not modelled |

Which properties make each part correct:

* queue: one consumer of a session at a time, over all processes; an accepted
  job is handled or still in Redis; what an incident may cost; order; no lost
  wake-up;
* kernel: the playbook is kept whatever the model proposes and however often the
  run is suspended; a question is answered once; one run of a session at a time;
  a cancelled run does not go on; every request ends;
* events: one run per event and one more at most per mishap; serial runs per
  session; nobody waits for a claim that nobody will give up;
* consolidation: no turn is passed over, none is repeated without cause;
* conversation: no prompt contains half a tool chain, its history is the newest that
  fits, and a stored message stays;
* long term memory: namespaces do not touch, what is deleted stays so, eviction takes
  the overflow only, links of the graph are true;
* service: what a process that ends leaves open, and that calls end;
* LLM client: the action taken is the one the model meant;
* WeCom: a message is handled again, and a push given up, only for a reason;
* A2A client: what passes for an answer is the whole answer, with the exceptions it names;
* retrieval: chunks keep the text, a document is indexed once and whole;
* token: a call of the business API carries its caller's token and no other.

## 2. Plan

Most important behaviour first; each line is a module (or a group), what it
composes or implements, and how far it has come.

| # | Module | Composes or implements | State |
|---|---|---|---|
| 1 | `SessionQueue` | Redis and the processes of a session's queue | checked; types, exclusion, nothing lost, losses and redeliveries bounded, order proved |
| 2 | `AgentRun` | kernel, record, lock, entries | checked; types and every safety property proved |
| 3 | `EventDispatch` | implements `EventOnce` | checked; exclusive work and the refinement proved |
| 4 | `Consolidation` | worker, conversation, checkpoint | checked; no turn passed over, none repeated without cause proved |
| 5 | `Conversation` | store, connection, the kernel's turn, prompt window | checked; what is kept, and every property of the prompt, proved |
| 6 | `LongTermMemory` | manager, Qdrant, Neo4j, consolidators | checked; all four invariants proved |
| 7 | `Service` | lifespan, MCP client and its loop, tool runner, worker | checked; what is left open proved (`PartsProofs`) |
| 8 | `ModelTurn`, `ChatHistory`, `Splitter`, `Knowledge`, `WeCom`, `A2A`, `CallerToken` | single parts, checked together by `MCParts` (with 4) and `MCGateways` (with 7) | checked; every property but the violated one proved (`PartsProofs`, `SplitterProofs`) |

The modules to be proved about have no RECURSIVE operator, name their
assumptions on constants, and have one action per operation.

## 3. The modules

Conventions shared by all modules.  One action is the code between two awaits
(or two commands of Redis where the client is asynchronous): an asyncio task is
interrupted nowhere else, another process anywhere between two commands.  The
expiry of a key (`Lapse`, `Expire`) is a step that may come at any time the code
does not exclude; what it costs the properties is counted.  `n` counts incidents
by kind, and `Max` (`Limit` in `Consolidation`) bounds them: a bound is a `CONSTANT`, and each instance names
its values.  Variables marked *history* in the modules do not influence any
step; they remember what a property needs.  A definition with the comment
"Mutant" is a plausible mistake, used to see that a property notices it.

### `SessionQueue`: the IM queue of one session

Variables are the Redis keys of the session (`q`, `proc`, `lock`, `dedupe`,
`active`) and, per process, the callbacks under way (`cb`), the guard of
`ensure_consumer` (`guard`), the job a reclaimer holds (`hand`) and the consumer
coroutine (`w`, its program counter, `job`).  One action is one Redis command
with the code up to the next await, so every await is a place where another
process, a callback, a crash or a cancellation can come in.  Lists are written
oldest first.

* `Deliver`, `Push`, `Kick` are `schedule_handle_message` to `ensure_consumer`;
  `ReclaimPop`, `ReclaimPush`, `Spawn` the reclaim under the guard.
* `RefreshGet` to `Rekick` are `_run_session`, line by line.
* `Overrun` says that a handler takes so long that the TTL of the lock (600 s)
  may run out; `Lapse` is the TTL.  A handler is long at most `Max["long"]`
  times.  Without it the TTL cannot run out under a live consumer: it refreshes
  at the head of the loop when 30 s have passed.
* `Crash`, `Shutdown` with `Exit`, and `Fault` (a Redis command of the callback, of
  the loop or of the release raises) are bounded by `Max`.

A lock token is written as the process that set it.  That is exact: a process
has at most one consumer, and sets the key only when it is absent, so two tokens
of one process are never in play together.

| Run | Shows | Instance |
|---|---|---|
| `queue_incidents` | one consumer at a time while no handler outlives the TTL; nothing lost without a crash, shutdown or fault, even when consumers overlap; no job is handled again without an incident, however often its message is delivered | 2 processes, 2 messages delivered twice, one crash, shutdown, fault and overrun |
| `queue_history` | first come first served through reclaims; an incident costs at most one job (a shutdown counts as two, the cancel and the end of the process); the lock is freed; a consumer at the head of its loop drains the backlog | 2 processes, 2 messages, one crash and one shutdown, `FairSpec` |
| `queue_wakeup` (violated) | `worker.py:110` says a backlog after the release is kicked again; the kick finds its own task alive and does nothing | no incident, `FairSpec` |

The incidents of `LossBounded` include the shutdown: the cancelled handler's job is
acknowledged by the `finally` of `worker.py:105` and is in no list afterwards; and the
Redis error at `clear_cancel` or `set_active`, which is logged like one of the handler and
acknowledged in the same way.

Two processes and two messages are enough for what the properties
speak of: a consumer and a rival, a job in flight, one behind it and one that
arrives late.  `Cap` makes the counter of starts saturate: one lapse of the lock
can hand a job out again and again (a reclaimer and a consumer without the lock
take it from each other), which is why `RedeliveryBounded` speaks of runs
without a lapse.

Fairness: the event loop runs every task that can go on (`Push`, `Kick`, the
reclaim, the consumer), a handler ends (LLM and HTTP calls have timeouts), a
process that shuts down ends, a TTL runs out.  Nothing obliges the platform to
deliver.

### `AgentRun`: the agent kernel of one session

A request (`req`) is a message to run or the answer to resume with; several
requests of a session may be under way.  `lock` is the Redis session lock of the
entry (`server/app.py`, the queue's handler, the event runner all take it), `rec`
the session record, `loop` the counters and playbook progress of a run in
memory, `mine` the record a resume has read and not yet put back, `todo` the
tool calls of the act under way, `kind` the pending question to be asked.

* A run has the name of the request that began it, and a question that of the
  request and round that asked it: this stands for `run_id`, `await_token` and
  `PendingState`.
* `Acquire`, `GiveUp`: `RedisSessionLock.acquire` with its deadline; `Unlock`,
  `Release`: the release, which compares and deletes in two commands.
* `Refuse`, `Open`: `run_stream` up to the loop; `Reopen`, `Reply`: `resume_stream`,
  which awaits `remember` between reading the record and putting it back.  The
  store client is synchronous, so elsewhere a read and its write are one step.
  Two processes could split such a pair in the milliseconds it takes, after a
  lapse of the lock or in a cancel; the model leaves that out.
* `Think`, `Decide`, `Reject`, `Exec` and so on: the loop.  The model may propose
  anything, a tool may succeed or fail, the stream may break.
* A question ends a run according to its profile: `interactive` suspends it with
  a snapshot, `turn_based` leaves the question in the record for the next
  message, `no_wait` gives up.
* The incidents: `Fail` (the reader of the stream goes away, or an exception leaves
  the kernel), `Crash`, `Lapse`, `Cancel` (`cancel_awaiting`, which takes no lock) and
  `Expire` of the record.

| Run | Shows | Instance |
|---|---|---|
| `agent_policy` | counters keep their ranges; required steps come before a finish; a question the user saw is kept until it is answered; it is answered once, and a run makes at most its rounds over all suspensions | 3 requests, all profiles, 3 tools, 3 rounds, no incident |
| `agent_incidents` | the record awaits iff it has a snapshot; forbidden tools never, confirmed ones only on an answer; one run at a time, and no tool called by a cancelled run, unless the TTL ran out; every request ends | 2 requests, one incident of each kind, `FairSpec` |

Three requests are a question, its answer and a rival; the batches of the
instances have a harmless call in front of the one that matters, so a gate that
looks at the first call only is noticed.  Two or three rounds are enough for a
rejection, a retry and a finish, and to run out.

Where a property makes an exception, the exception is the code's: `QuestionKept`
speaks of runs without an incident (a reader that goes away between the question
and its record loses it); `CancelledRunEnds` leaves out the resume that had read
the record before the cancel and puts it back after it, and a TTL that ran out:
after it two resumes may have read the same snapshot, and while one suspends the
run again and is cancelled the other goes on calling tools (three requests are
needed; the preparation of the proof showed it); `OneRunUnlessLapsed` excludes a TTL that runs out under its holder, which the code does not renew.

The code takes whatever message comes next for the answer to a pending question
(`run.py:634`), also one that was sent before the question was shown, or after a
run that failed and left the question in the record; `PolicyKept` therefore says
that the question had been shown when the tool is called, and no more.

Fairness is weak fairness of each request's own steps: a waiter polls to its
deadline, LLM and tool calls have timeouts, a loop runs its rounds.

### `EventDispatch` and `EventOnce`: the event entry

`EventOnce` is the promise to the business system: whatever is delivered again,
an event is run once, and once more at most per mishap; an answer is the result
of a run of that event, and without mishap the recorded one.  `EventDispatch`
implements it (`EventsOnce` is `Once!Spec` under the mapping `of` = the event of
each delivery that has arrived, `ran` = `runs`, `record` = `idem`, `mishaps` = the
sum of the incidents).

An instance is a choice of installations (`inst`): `serve` is `POST /v1/events`
of any number of processes, where the session lock of `server/app.py` comes
first; `embed` is one process that calls `dispatch` itself.  Several processes
that embed the dispatcher are left out: nothing keeps them from running an event
twice, since the record is looked up before the wait for the gate (`dispatcher.py:182`)
and written after it.  The claim has its lock (`claimer`), because it is held over a call of
Redis: `TakeClaimLock`, `Look`, `Settle`.  Reads that only send the delivery on its
way are taken in one step.  A lock is released in two steps, `Compare` and
`Delete`.  `Fault` is an exception of a Redis command, which may have been executed
all the same; `Cancel` cancels the task at any of its awaits; both unwind through
the `finally` blocks (`Unwound`).  A lock whose holder is gone runs out at no
charge, one that is held costs a `lapse`.

| Run | Shows | Instance |
|---|---|---|
| `events_incidents` | work on an event is done under a claim of a live delivery that no other takes from it, and that of a session serially unless a TTL ran out (`ExclusiveWork`); the promise; every delivery ends | `serve` and `embed`: two deliveries of one event with one incident of every kind (5 in all), or three deliveries of two events of a session with one incident |

Two deliveries of one event are enough for claim, wait, claim again; the third,
of another event, contends for the session's gate.

Liveness makes one exception: a delivery cancelled while `_finish_inflight` waits
for `_claim_lock` leaves its claim, and who waits for it waits for ever
(`Abandoned`).  Fairness: Redis, the agent and the callback answer, locks are
polled to their deadline, tasks are scheduled.

### `Consolidation`: long term memory of one session

`log` holds the rows of the conversation (a row's id is also its rowid, `at` the
local time it was written), `cp` the checkpoint, and each worker has the
checkpoint it read (`after`), the messages not yet dealt with (`batch`) and the last
message read (`last`).  `Start`, `CountUsers`, `Read`, `Distil` (one turn) and `Upsert`
are `_maybe_consolidate_session` between its awaits; the conversation goes on in
the server's process meanwhile (`Say`), because the worker is a program of its
own.  Turns are `split_conversation_turns`: `Turns` counts them, `FirstTurn` takes the
oldest.  Rows are ordered by local time and rowid, as the store's SQL orders them.

| Run | Shows | Instance |
|---|---|---|
| `parts_each` (its sixth part) | the checkpoint passes no user's turn that was not handed to the model (unless the clock was set back); a message is handed over once, and once more per crash or overlap | 2 workers, 4 messages, 2 instants, threshold 2, one incident of each kind |

Four messages with a threshold of two are two batches of two turns, or one batch
and a tail; two workers are an overlap.  A turn is "handed over" when its model
call begins: a failing call is noted and passed over by the code on purpose.  The
property speaks of the user's messages: what the agent adds to a turn after the
worker has read it begins the next batch without a user and is skipped
(`batch_consolidator.py:289`).

### `Conversation`: the log and the prompt made of it

`rows` is what is committed of the session, `tx` the one connection each process
shares between its sessions and threads (open transaction and since when, failed
or not, rows not committed), `run` the turn served, `prompt` its last history
before and after trimming.

* `Insert` and `Commit` are the two halves of `add_message` (PostgreSQL),
  `AddLite` is SQLite's; `OtherRead` and `OtherWrite` are other sessions on the same
  connection, `Fault` a statement that fails there, which makes every other refuse
  until a COMMIT that rolls back.
* `Begin`, `Assemble`, `Act`, `Answer`, `Ask`, `Hint`, `Resume`, `GiveUp` are the
  turn of `agent/run.py` as far as it writes messages; who serves it is
  `AgentRun`'s matter, so turns are one at a time here and the process is any.
* `Strip` is `assemble_messages` cutting off the turn's own rows by number; `Group`,
  `KeepComplete`, `Keep`, `Trimmed` and `Trim` are `trim_conversation_history`, a pure
  function of the rows, group by group from the newest.

| Run | Shows | Instance |
|---|---|---|
| `conversation_prompts` | a prompt has no call without its results and no result without its call, but for one whose call was lost; its history is the longest end that fits; a stored message stays, but for one per failed statement | both stores, 2 processes, 2 turns, 6 rows, 2 incidents of any kind |
| `conversation_suffix` (violated) | `docs/modules/agent.md:370`: the tail that overlaps with the turn is cut off; after a hint, which is not stored, one row too many is | SQLite, one hint |

Rows of a process that read the session long ago are dated with that read, since
nothing ends the transaction a read opens (`conversation_postgres_store.py:95`): the
model has it, and `ChainsWhole` holds all the same, because the trimming drops
whole groups.  One thing does break it: a call whose COMMIT rolled back
(`Fault`) leaves results that have none, and where they follow the results of another
call, `group_conversation_messages` takes them into that call's group without a
look at their ids (`context.py:86`), so that the prompt has them.  The property excepts
these results, and no others, by name (`Astray`): every message between the lost
call and the result is a result too.

### `LongTermMemory`: points, graph and everything done to them

`cl` says in which operation each client is; a step is one request to Qdrant or
Neo4j.  A recall is `Query` and `Bump` (the whole points it read are written back),
an eviction or clearing is `Scan` by pages and then `Sweep`, a consolidation writes
relations, points and links one after the other (`Relate`, `Upsert`, `Resolve`,
`Link`), and the collection is created by whoever needs it first.  The text of a
memory is one of three kinds: what its weight in the eviction depends on.

| Run | Shows | Instance |
|---|---|---|
| `longterm_stores` | other namespaces are never touched; what was deleted while no recall had it in hand stays deleted; an eviction that nothing overtook leaves `max_items`; a link joins a living entity and a memory that is about its name | 2 clients, 3 operations, one failing request, over an empty, a filled and an unfit collection, pages of 2 |

Three operations are a writer, a deletion and a reader in each other's way; five
ids fill a second page.

### `Service`: from the start of the process to its end

`pc` goes through `HubloomRuntime.from_config` and the lifespan, any step of which may
fail (`Fails`); `open` is what the process then holds.  `client` is the MCP client
with the loop it starts on another thread, `up` the loops that run; `calls` is one
tool call per run with the runner's two attempts: posted to that loop, sent,
performed or not, answered, refused, timed out, cancelled.

| Run | Shows | Instance |
|---|---|---|
| `gateways_each` (its first part) | what stays open when the process is down has one of the reasons named in `LeftOpen`; every call ends, but one of a run kicked during the shutdown, on a loop stopped under it | 2 runs, 2 attempts |

Fairness: weak, of `Attempt` and `Enter` (the loops run what is ready), `Timeout`
(`wait_for`) and `Cancelled`.  The backend owes no answer, and nobody has to stop
the process.  `LeftOpen` says what the code leaves open, not what it should: a step
that fails after others leaves theirs, since the lifespan closes nothing then.

When `close` meets an error it is either swallowed (a RuntimeError of the stack, after which
the worker may still be there) or raised, and then the stores behind it stay open.

### The single parts, checked together by `MCParts` and `MCGateways`

Parts that share no state: a behaviour of `MCParts` (run `parts_each`: the first five
below and `Consolidation`) or `MCGateways` (run `gateways_each`: `A2A`, `CallerToken`
and `Service`) is about one of them while the others rest, so a run is the
union of their state spaces, and its bounds are those of as many runs.

| Module | Code | State and actions | Property | Bounds |
|---|---|---|---|---|
| `ModelTurn` | `core/llm.py`, `agent/loop/decide.py` | the endpoint's message and how much of it came; `Delta`, `OpenCall`, `Grow`, `Finish`, `Breaks`, `Decide` | `TurnAsMeant`: the action is the one meant, however the pieces of calls are mixed, and what an early end may make of it | 2 calls of 2 pieces, 3 tools |
| `ChatHistory` | `_history_messages` of `server/app.py` | the rows, the bubbles and what is pending; a step per row | `OwnSteps`: a bubble shows its own run's steps, each once | every history of 4 rows |
| `Splitter` | `retrieval/semantic_splitter.py` | a document and its chunks; the parser and the cutters as folds, a step per block or sentence (`ParseBlock`, `TokenAdd`, `LongAdd`, `FlatAdd`, `JoinAdd`) | `ChunksKeepText`: nothing lost or doubled, the right path, the size, and what may exceed it; the overlap is the end of the chunk before | every document of 4 of 7 blocks |
| `Knowledge` | `retrieval/knowledge_base.py`, `rag_bootstrap.py`, `query_optimizer.py` | collection, starts, one search | `RetrievalSound`: documents whole and once, unless starts overlapped or an empty file has the name of another; a search shows each chunk once, best first | 2 starts, 3 files (two of one name, one empty), a removal |
| `WeCom` | `im/wecom` | deliveries, LRU, the shared access token | `HandledAgainOnlyIfForgotten`; `GivenUpTwiceRefused`: also that a delivery is skipped only for another one that was taken on, or dropped by a failing queue with its MsgId registered | 2 messages, 3 deliveries, 3 tokens, an LRU of 1 |
| `A2A` | `a2a_adapter`, `tools/builtin/a2a_tool.py` | call, remote, wire, what was read | `AnswerIsWhole`: an answer is whole and of a remote that completed, unless the stream ended early without an error, or a remote that does not stream failed after part of it; the second case is what `FailureIsError` (run `a2a_failure`, violated) denies | 3 pieces, 1 in the violated run |
| `CallerToken` | `mcp_adapter/auth.py`, `runtime.py`, `context.py`, `http_client.py` | the context variable of each task, calls on their way, the variable of each request in the worker | `TokenOfCaller`: no call carries another caller's token, also after one without and for a call performed late | 3 callers in 2 tasks, 3 calls |

The bounds of the pure functions are exhaustive below them: four blocks hold a
heading, its subheading, a long paragraph and a short one behind it, four rows a
run without an answer and the next one.
## 4. Proofs

The theorems hold for every value of the constants that satisfies the named
assumption of the module (`QueueAssumption`, `AgentAssumption`, `EventAssumption` and `NoneAssumption`,
`ConsolidationAssumption`, `LongTermAssumption`, `ServiceAssumption`, `ModelTurnAssumption`,
`WeComAssumption`, `A2AAssumption`, `KnowledgeAssumption`, `ChatHistoryAssumption`,
`CallerTokenAssumption`, `SplitterAssumption`, `ConversationAssumption` and its own `NoneAssumption`): any number of processes, messages, requests, tools and
steps, any playbook, any limits, any number of incidents.  Each is the usual argument: the initial states satisfy an inductive
invariant, every action preserves it, it implies the property.

`SessionQueueProofs` (for `SessionQueue`)

* `TypeCorrect`: `TypeInv` is inductive as it stands.
* `OneConsumerCorrect`, from `LockInv`: whoever reclaims or consumes owns the lock
  as long as no TTL ran out under it, and a process does one of the two at a
  time.  `OneConsumer` alone is not inductive: it does not say who may release.
* `NothingLostCorrect`, from `KeptInv`: only the acknowledgement takes a job out of
  Redis, and without a cancellation the handler has ended by then.  Lemmas say
  what LPUSH, RPOP, RPUSH and LREM do to the set of entries of a list.
* `LossBoundedCorrect`, from `LossInv`: whatever is missing is paid for, and so is what
  may yet be lost: the job a stopped handler will still acknowledge.
* `RedeliveryBoundedCorrect`, from `AccountInv`: an account of each job, of the times it
  has been begun (`Served`) and may be begun without another incident (`Owed`),
  never more than the incidents and one.
* `FIFOCorrect`, from `QueueInv` and `OrderInv`: processing holds one job at most and is empty where
  jobs are taken; the pending list is in the order of acceptance, whatever was taken
  out of it comes before it, and nothing in Redis is older than a job begun, unless it
  was begun itself.

`AgentRunProofs` (for `AgentRun`)

* `TypeCorrect`, from `Shape`: beyond the types, the counters are below their limits
  where the loop goes on, which is what keeps rounds, parse retries and rejects
  within their ranges when a snapshot is taken and resumed.
* `OneRunCorrect`, from `Alone`: the requests past the lock own it as long as no TTL
  ran out.
* `RecordCorrect`: the record awaits its user iff it has the snapshot of its active
  run.  The invariant speaks of `mine` too, the copy a resume puts back later, which
  is why a cancel in between does no harm to coherence.
* `PolicyCorrect` and `StepsCorrect`, from `Sound`: a run's confirmation comes from a
  question its request, or one before it, answered; the steps done are those of
  successful calls; in the loop, in the snapshot and in the copy of it a resume
  has read.
* `AnsweredOnceCorrect` and `CancelledRunCorrect`, from `AskInv` and `LiveInv`: a request
  asks once, in its last round, and a question's name stands for no run before it
  is asked; as long as no TTL ran out, whoever drives the loop has the only copy of
  its run, and a snapshot in the record has been taken by nobody, counts all the
  decisions of its run, and belongs to a run that was not cancelled.
* `QuestionKeptCorrect`, from `KeptInv`: without an incident the record a resume has read
  is still the record when it writes (`Fresh`), so it can neither put an old question
  back nor drop a new one.

`EventDispatchProofs` (for `EventDispatch`)

* `ExclusiveWorkCorrect`, from `WorkInv`: the claims are owned, and who runs the agent
  or has compared the gate in order to delete it is the gate's holder.  Serial
  sessions alone are not inductive: they do not say who may delete the gate.  An
  exception, a cancellation, the death of a process and the TTL are steps of the
  proof like the others.
* `EventsOnceCorrect`: every step of dispatch, and every incident, is a step of
  `EventOnce` or a stutter.  The hard guard is that of `Run`, no more runs than
  mishaps.  The invariant `Paid` keeps an account of each event (`Debts`): the runs
  there have been, the deliveries that may run without another mishap (past the
  session lock, or the claim of the one process that embeds dispatch, with no record
  they would still see), one more while nobody past it will leave a record, and one
  for each delivery about to delete a session lock that is no longer its own; never
  more than the mishaps and one.  A step exchanges one debt for another, an incident
  may add one (`Exchanged`, `Charged`).  The other parts say that a result is one of a
  run of its event, that a delivery runs once and records its own result, and that
  without a mishap what it will be answered is the record.

`ConsolidationProofs` (for `Consolidation`)

* `NoTurnPassedCorrect`, from `PassInv`: the order by time is that of the ids, and what
  lies before the checkpoint, *and* before every checkpoint a worker has read
  and may write back, has been handed over.  The second half is what two workers
  at once need; that the checkpoint's message may have been cleared is the other.
* `HandedOnceCorrect`, from `OnceInv`: an account of each message: the times it has been
  handed over, the workers that may still hand it over, and one more while the
  checkpoint does not cover it and nobody attends to it; never more than the crashes,
  the overlaps and one.  It needs no assumption on the clock or on clears.

`LongTermMemoryProofs` (for `LongTermMemory`)

* `NamespacesApartCorrect`, `DeadStayDeadCorrect`, `LinksSoundCorrect` and
  `OverflowOnlyCorrect`, all from `MemoryInv`.  It says, beside the stores, what each client has in
  hand at each point of its operation (`Sound`), in terms of the stores as they are *now*: ids
  that are ours, copies of points of the kind they have, an entity that has the name asked for
  as long as it is there, a scan whose points are still there unless another deletion came.
  So the proof of a step is in two halves, what it makes of its own client, and that what the
  others hold stays sound (`OnGraph`, `OnPoints`, `Deleting`).  None of the four is inductive:
  they do not speak of what was read before and is used later.
* `FewVictims` is the arithmetic of `capacity_evict`: its key orders every two
  memories, so no more than the overflow have less than the overflow before them.
  The assumption on the stores at the start says that an id is a UUID: what is
  not ours there never is.

`ConversationProofs` (for `Conversation`)

* `KeptCorrect`, from `KeptInv`: the message between its INSERT and its COMMIT is in the
  log or in the transaction, whoever committed in between, and a message whose
  transaction has failed is counted before its COMMIT is answered (`Staked`).
* `ChainsWholeCorrect`, from `PromptInv`.  `ChainsWhole` speaks of a prompt only; what makes it
  true is the log, and a log is whole only as far as a turn has got.  So the invariant says
  what there is of a chain while it is written (`Plan`, `OpenChain`: the call is
  acknowledged and only results are newer than it, the next result has the number the call
  asked for), that the message between INSERT and COMMIT is the newest (`Coming`), and that
  every result in the log has its own call before it, there or lost, with nothing but results
  between the two (`Owned`).  The window is by time, the chains by number: `Dated` says that
  only a user's message can be dated before an older row, and `InTime` why, since
  a transaction that was left open ends with the turn's first COMMIT.  From there the proof is
  one about sequences: the window has no gap (`Stretch`), a complete group of it is a call with
  its results and perhaps strays (`GroupFair`), and fair groups make a fair row
  (`ConcatFair`, `TrimFair`).
* `TrimNewestCorrect`, from `Histories` and `TrimIsNewest`: after each group the loop has kept
  the longest end that fits so far, and once it is full no older end fits.  Costs are
  only known not to be negative.

The two need an induction over the length of a history.  The library's induction theorems take
an operator; `Inductive` states induction of sets of numbers instead, from
`WFMin` and `NatLessThanWellFounded`, and `Iterates` that what is defined step by step exists,
which is what unfolds the recursive functions `Total`, `Trimmed` and `Ends`.

`PartsProofs` (for `Service` and the single parts but `Splitter`; each theorem is of one of
them)

* `LeftOpenCorrect`, from `ServiceInv`: what is open at a step was opened before it, only
  the client's own loop runs, and once it is stopped a call starts another only
  for a run the shutdown did not know of.

* `TurnAsMeantCorrect`, from `MTInv`: what is in the buffers is, call by call, a beginning of
  what the endpoint means, in its order (`Buffered`); and a message that ended with "stop"
  is whole.
* `GivenUpTwiceRefusedCorrect` and `HandledAgainCorrect` (an action property), from `WCInv`: a
  push on its second try has the valid token, or one the platform replaced since
  (`SecondToken`); who is remembered was registered by a delivery that was neither skipped nor
  lost (`Recognised`), and who is not was pushed out by
  as many others as the LRU holds (`Forgotten`).
* `AnswerIsWholeCorrect`, from `A2Inv`: remote, wire and what was read make one chain of
  pieces (`Chain`), which only an early end cuts short, and of a failed remote the client
  has read that it failed, or will at the end of the wire.  A single
  response with the state "failed" and part of an answer passes for the answer
  (`client/mapping.py:75` looks at the text first); the property names that case.
* `RetrievalSoundCorrect`, from `KBInv`: a document is there whole and was made by a start that has
  it behind it (`Documents`); what a start takes for indexed is, until something is removed
  (`Listed`); and two starts overlapped, or one was over before the other looked (`InTurn`).  An empty file leaves no chunks and so hides nothing,
  but it does count as indexed for a file of the same name (`rag_bootstrap.py:94`); the
  property names that case.
* `OwnStepsCorrect`, from `CHInv`: the pending steps are those of the rows since the
  last answer or question, in order, and each bubble is closed with those of its own run.
* `TokenCorrect`, from `TokenInv`: a task serves one caller at a time, and the token is
  that caller's in the variable, on its way, and in the worker.

`SplitterProofs` (for `Splitter`)

* `ChunksKeepTextCorrect`: the state is only the document and what `split` makes of it, so the
  work is in the lemmas about the operators, one for each function of the code.  A cutter
  never holds more or less than it was given: `Held`, the places of its closed parts and of
  the open one, grows by those of each text added (`LongAddIs`, `TokenAddIs`, `FlatAddIs`),
  and a part is within the size or one sentence (`Part`).  After each block the parser's path is
  the set of headings above the block, rising in position and in level (`Stack`, `Above`),
  which is what makes popping to a lower level right (`PopStack`); the sections say what
  the paragraphs said (`Parsed`).  A document whose paragraphs leave no chunk of a section
  has none (`SectionChunksNone`), so the fall-back to flat text loses and doubles nothing.
  Joining a short chunk adds less than the minimum to the one before (`JoinedIsGood`).

The folds are recursive functions: that one exists and what it computes goes by `Inductive` and
`Iterates`, as for histories; `FlatIs` and `WeightIs` give the community modules' `FlattenSeq` and
the sum of weights by their beginnings, from which their algebra follows
(`FlatConcat`, `WeightConcat`, `AllConcat`).  Sums stand for the estimate of tokens, which
the code rounds up text by text: the theorem is about the cutting, not about the estimate.

Every safety and action property of the passing runs is proved.  What stays with TLC are the
liveness properties (`LockFreed`, `Drained`, `EveryRequestEnds`, `EveryDeliveryEnds`,
`CallsEnd`): fairness and ENABLED are out of the prover's reach.

## 5. Not modelled

* Texts: prompts, hints, the journal, transcripts, SSE framing, XML and
  cryptography of WeCom, the conversion of OpenAPI documents, of messages and of
  tool definitions; configuration and logging; the web example.
* External services are modelled as the code uses them: Redis, PostgreSQL, Qdrant,
  Neo4j, Chroma by their requests; the LLM, the tools and the backend answer
  anything.
* Code that nothing in `src/` calls: `request_cancel` of the queue,
  `ContextAssembler`, the inbound A2A turn (`set_a2a_inbound` has no caller).  The
  ingestion of documents has none either, but hosts are told to call it
  (`docs/modules/retrieval.md:76`), so `Knowledge` has it.
* Embedders and skills: HTTP calls and files without a state that lasts.
* In the modelled parts: the expiry of dedupe keys, the scan over
  sessions of the memory worker, several processes that embed the event
  dispatcher, `clear_collection`, the A2A cards; and smaller things.  `SessionQueue`:
  a reply of Redis that is lost after the command was executed (but for the RPOPLPUSH a
  shutdown interrupts).  `Consolidation`: the dates of PostgreSQL, which are the starts of
  transactions (`Conversation` has them).  `Conversation`: turns that overlap after a lapse
  of the session lock; a resume keeps its snapshot until the answer is stored, the model drops it
  before; a write of another session whose task was cancelled.  `LongTermMemory`: the
  payload indexes made after the collection, limits and TTLs that are not positive,
  the conversation's part of `clear_all`.  `Service`: a failure of `build_api_tools`, which
  only constructs two objects.  `WeCom`: an empty MsgId, which is never deduplicated.
  `CallerToken`: a job's token of blanks, which is taken for one.

## 6. Disagreements found

Three runs end in a violation on purpose: the property is a sentence of the
repository, the counterexample what the code does (`PROJECT.json` has the lines).

* `queue_wakeup` and `conversation_suffix`, quoted in the tables above.
* `a2a_failure`: `docs/modules/a2a-adapter.md:199` says of the result of `delegate_task` that it
  is only the answer's text, without the remote's trace, and that a failure goes back as
  an exception or as 「委托失败：…」; `a2a_tool.py:55` repeats that no trace is in it.
  `collect_answer_from_stream` looks at the text of a single task before its state
  (`client/mapping.py:75`), and `answer_from_task` falls back to the trace (`mapping.py:34`): a
  remote that does not stream and failed after it wrote something is taken for one
  that answered.

Two more need no run:

* `group_conversation_messages` says that the results of a chain match its ids
  (`context.py:71`), but takes any that follow, and the exception `ChainsWhole` makes
  (`Astray`) is what comes of it.
* The purpose of `processing` is that a crash loses no job (防崩溃丢任务,
  `redis_queue.py:5`, `docs/modules/im-wecom.md:216`).  It does for the consumer, but the
  reclaim takes a job out by RPOP before it puts it back by RPUSH, and the `finally` of the
  handler acknowledges what a shutdown cancelled, or what a Redis error kept from
  starting: `LossBounded` says that this is one job per crash or error and
  two per shutdown, and `queue_history` reaches such states.

## 7. Running

In this directory: `tlc -workers 2 -config MCSessionQueue_incidents.cfg
MCSessionQueue` (likewise for each line of `PROJECT.json`'s runs) and
`tlapm AgentRunProofs.tla`.
