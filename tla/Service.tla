------------------------------ MODULE Service ------------------------------
(* The process of src/src/server/app.py from its start to its end, and the *)
(* calls its runs make to the business API through the MCP client.         *)
(*                                                                         *)
(* Start: HubloomRuntime.from_config opens the MCP client, the Redis       *)
(* clients and the conversation store one after the other; the lifespan    *)
(* then builds the dispatcher of events and the WeCom adapter.  Any step   *)
(* may fail, and the process then never serves.                            *)
(* Calls: a tool runs in the main event loop, the session of the client in *)
(* a loop of its own on another thread (MCPToolClient); a call is posted   *)
(* there and waited for.  The runner tries a failing tool twice.           *)
(* End: the lifespan cancels the consumers it knows of and closes the      *)
(* runtime.  A consumer may be kicked after that by a callback whose       *)
(* enqueueing was still under way.                                         *)
(***************************************************************************)
EXTENDS Naturals, FiniteSets

CONSTANTS Runs,          \* runs of the agent, each of which makes one call
          MaxAttempts    \* ToolRunner.tool_max_attempts

ASSUME ServiceAssumption == MaxAttempts \in Nat \ {0}

VARIABLES pc,            \* where the lifespan is
          failedAt,      \* the step of the start that failed, "none" if none did
          open,          \* what the process holds: subset of Resources
          setup,         \* mcp_setup is not None
          client,        \* [loop: _bg_loop (0: None), conn: _session set, made: loops started]
          up,            \* the loops that run
          closeErr,      \* the close of the MCP client: "none", or an error "swallowed" or "raised"
          calls          \* per run, its tool call

vars == <<pc, failedAt, open, setup, client, up, closeErr, calls>>

Resources == {"worker", "redis", "store"}

\* A call in progress: its state, its attempt, the loop it is posted on, the attempts
\* still on their way to the backend and those the backend has performed, whether its
\* task is among those the lifespan cancels, and whether it has been cancelled.
NoCall == [st |-> "idle", att |-> 0, on |-> 0, wire |-> {}, did |-> {},
           tracked |-> FALSE, cancel |-> FALSE]

Active == {"ready", "posted", "sent"}
Ended  == {"done", "failed", "cancelled"}

\* MCPToolClient before its first call: no loop, no thread, no session.
NoClient == [loop |-> 0, conn |-> FALSE, made |-> 0]

Init == /\ pc = "config"
        /\ failedAt = "none"
        /\ open = {}
        /\ setup = FALSE
        /\ client = NoClient
        /\ up = {}
        /\ closeErr = "none"
        /\ calls = [r \in Runs |-> NoCall]

----------------------------------------------------------------------------
(* Start.                                                                  *)

\* A failing step raises out of the lifespan: nothing that is open is closed.
Fails(step) == pc' = "down" /\ failedAt' = step

\* _ensure_bg_loop: the loop in use, a new one when there is none.
Loop == IF client.loop # 0 THEN client.loop ELSE client.made + 1
Ensured == IF client.loop # 0 THEN client ELSE [client EXCEPT !.loop = Loop, !.made = Loop]

\* The key, the LLM client, the settings of MCP and the catalog of the API, before
\* anything is opened.
Configure ==
    /\ pc = "config"
    /\ \/ Fails("config")
       \/ pc' \in {"connect", "playbook"} /\ UNCHANGED failedAt
    /\ UNCHANGED <<open, setup, client, up, closeErr, calls>>

\* _connect_impl, over stdio or HTTP: the session is there when all of it has succeeded;
\* a failure unwinds its own stack.
Connected == [Ensured EXCEPT !.conn = TRUE]

\* load_agent_mcp_bindings has its client: the runtime will close it.
Bound == /\ pc' = "playbook"
         /\ client' = Connected
         /\ open' = open \union {"worker"}
         /\ setup' = TRUE

\* connect: the loop is started first, and stays when the connection fails.
Connect ==
    /\ pc = "connect"
    /\ up' = up \union {Loop}
    /\ \/ Fails("connect") /\ client' = Ensured /\ UNCHANGED <<open, setup>>
       \/ Bound /\ UNCHANGED failedAt
    /\ UNCHANGED <<closeErr, calls>>

\* The prompts, the playbook and the wait profile, then the Redis clients.
OpenRedis ==
    /\ pc = "playbook"
    /\ \/ Fails("playbook") /\ UNCHANGED open
       \/ pc' = "store" /\ open' = open \union {"redis"} /\ UNCHANGED failedAt
    /\ UNCHANGED <<setup, client, up, closeErr, calls>>

OpenStore ==
    /\ pc = "store"
    /\ \/ Fails("store") /\ UNCHANGED open
       \/ pc' = "events" /\ open' = open \union {"store"} /\ UNCHANGED failedAt
    /\ UNCHANGED <<setup, client, up, closeErr, calls>>

BuildDispatcher ==
    /\ pc = "events"
    /\ \/ Fails("events")
       \/ pc' = "wecom" /\ UNCHANGED failedAt
    /\ UNCHANGED <<open, setup, client, up, closeErr, calls>>

BuildWeCom ==
    /\ pc = "wecom"
    /\ \/ Fails("wecom")
       \/ pc' = "serving" /\ UNCHANGED failedAt
    /\ UNCHANGED <<open, setup, client, up, closeErr, calls>>

----------------------------------------------------------------------------
(* End.                                                                    *)

\* The finally of the lifespan cancels the consumers that SessionWorker._tasks holds.
Shutdown ==
    /\ pc = "serving"
    /\ pc' = IF setup THEN "closing" ELSE "stores"
    /\ calls' = [r \in Runs |->
                   [calls[r] EXCEPT !.cancel = calls[r].tracked /\ calls[r].st \in Active]]
    /\ UNCHANGED <<failedAt, open, setup, client, up, closeErr>>

\* _close_impl, on the client's loop.  A RuntimeError of the stack (its cancel scope is
\* left by another task than the one that entered it) is swallowed, any other error
\* leaves the session in place; with either the worker has ended or not.
CloseSession ==
    /\ pc = "closing"
    /\ pc' = "stopping"
    /\ \/ /\ client' = [client EXCEPT !.conn = FALSE]
          /\ open' = open \ {"worker"}
          /\ UNCHANGED closeErr
       \/ /\ closeErr' \in {"swallowed", "raised"}
          /\ open' \in {open, open \ {"worker"}}
          /\ client' = IF closeErr' = "raised" THEN client ELSE [client EXCEPT !.conn = FALSE]
    /\ UNCHANGED <<failedAt, setup, up, calls>>

\* Mutant: the error of the close skips the rest of close().
StopLoopIfClosed ==
    /\ pc = "stopping"
    /\ up' = IF closeErr = "raised" THEN up ELSE up \ {client.loop}
    /\ client' = IF closeErr = "raised" THEN client ELSE [client EXCEPT !.loop = 0]
    /\ setup' = FALSE
    /\ pc' = IF closeErr = "raised" THEN "down" ELSE "stores"
    /\ UNCHANGED <<failedAt, open, closeErr, calls>>

\* The finally of close(): the loop is stopped, whatever runs on it, and forgotten.
\* An error of the close then leaves aclose: the stores are not closed.
StopLoop ==
    /\ pc = "stopping"
    /\ up' = up \ {client.loop}
    /\ client' = [client EXCEPT !.loop = 0]
    /\ setup' = FALSE
    /\ pc' = IF closeErr = "raised" THEN "down" ELSE "stores"
    /\ UNCHANGED <<failedAt, open, closeErr, calls>>

\* The conversation store, then both Redis clients; their errors are swallowed.
CloseStores ==
    /\ pc = "stores"
    /\ pc' = "down"
    /\ open' = open \ {"store", "redis"}
    /\ UNCHANGED <<failedAt, setup, client, up, closeErr, calls>>

----------------------------------------------------------------------------
(* Calls.                                                                  *)

Held == <<pc, failedAt, open, setup, closeErr>>

\* A consumer starts a run that will call a tool.  One that is kicked while the process
\* goes down is not among the tasks that were cancelled.
Kick(r) ==
    /\ calls[r].st = "idle"
    /\ failedAt = "none"
    /\ \/ pc = "serving" /\ setup
       \/ pc \in {"closing", "stopping"}
       \/ pc \in {"stores", "down"} /\ client.made > 0
    /\ calls' = [calls EXCEPT ![r].st = "ready", ![r].tracked = pc = "serving"]
    /\ UNCHANGED <<Held, client, up>>

\* An attempt raised: once more after a pause, or the error is the tool's answer.
Raised(c) == [c EXCEPT !.st = IF c.att < MaxAttempts THEN "ready" ELSE "failed", !.on = 0]

\* The tool is called: an unknown tag or tool raises at once (and is tried again);
\* otherwise the call is posted on the client's loop.
Attempt(r) ==
    /\ calls[r].st = "ready"
    /\ ~calls[r].cancel
    /\ LET c == [calls[r] EXCEPT !.att = @ + 1]
       IN \/ /\ calls' = [calls EXCEPT ![r] = Raised(c)]
             /\ UNCHANGED <<client, up>>
          \/ /\ calls' = [calls EXCEPT ![r] = [c EXCEPT !.st = "posted", !.on = Loop]]
             /\ client' = Ensured
             /\ up' = up \union {Loop}
    /\ UNCHANGED Held

OnRunningLoop(r) == calls[r].on \in up

\* The request of the attempt is on its way to the worker.
Sent(c) == [c EXCEPT !.st = "sent", !.wire = @ \union {c.att}]

\* On the loop: without a session it raises, with one the request goes to the worker.
Enter(r) ==
    /\ calls[r].st = "posted"
    /\ OnRunningLoop(r)
    /\ calls' = [calls EXCEPT ![r] =
                   IF client.conn THEN Sent(calls[r]) ELSE Raised(calls[r])]
    /\ UNCHANGED <<Held, client, up>>

\* The worker performs a request, of this attempt or of one given up before.
Perform(r) ==
    /\ "worker" \in open
    /\ \E a \in calls[r].wire :
         calls' = [calls EXCEPT ![r].wire = @ \ {a}, ![r].did = @ \union {a}]
    /\ UNCHANGED <<Held, client, up>>

Answer(r) ==
    /\ calls[r].st = "sent"
    /\ calls[r].att \in calls[r].did
    /\ OnRunningLoop(r)
    /\ calls' = [calls EXCEPT ![r].st = "done"]
    /\ UNCHANGED <<Held, client, up>>

\* An MCP error, a failing transport, a session that closes: the attempt raises, and
\* the request may have been performed or still be.
Refused(r) ==
    /\ calls[r].st = "sent"
    /\ OnRunningLoop(r)
    /\ calls' = [calls EXCEPT ![r] = Raised(@)]
    /\ UNCHANGED <<Held, client, up>>

\* Mutant: a call is waited for without a limit.
NoTimeout(r) == FALSE /\ UNCHANGED vars

\* wait_for on the client's loop: a call is given up after its time.
Timeout(r) ==
    /\ calls[r].st = "sent"
    /\ OnRunningLoop(r)
    /\ calls' = [calls EXCEPT ![r] = Raised(@)]
    /\ UNCHANGED <<Held, client, up>>

\* CancelledError is no Exception: the runner does not try again.
Cancelled(r) ==
    /\ calls[r].cancel
    /\ calls[r].st \in Active
    /\ calls' = [calls EXCEPT ![r].st = "cancelled"]
    /\ UNCHANGED <<Held, client, up>>

\* The MCP worker's process ends by itself; nobody reconnects.
WorkerDies ==
    /\ pc = "serving"
    /\ "worker" \in open
    /\ open' = open \ {"worker"}
    /\ UNCHANGED <<pc, failedAt, setup, client, up, closeErr, calls>>

----------------------------------------------------------------------------
Lifespan == Configure \/ Connect \/ OpenRedis \/ OpenStore \/ BuildDispatcher \/ BuildWeCom
            \/ Shutdown \/ CloseSession \/ StopLoop \/ CloseStores

Next == \/ Lifespan
        \/ WorkerDies
        \/ \E r \in Runs : \/ Kick(r) \/ Attempt(r) \/ Enter(r) \/ Perform(r) \/ Answer(r)
                           \/ Refused(r) \/ Timeout(r) \/ Cancelled(r)

\* The event loops run what is ready, and timers fire.  The backend owes nothing, and
\* nobody has to stop the process.
Fairness == \A r \in Runs : /\ WF_vars(Attempt(r)) /\ WF_vars(Enter(r))
                            /\ WF_vars(Timeout(r)) /\ WF_vars(Cancelled(r))

Spec == Init /\ [][Next]_vars /\ Fairness

----------------------------------------------------------------------------
(* Properties.                                                             *)

\* What a process that is down still holds has a reason in the code: the worker, the
\* stores and the Redis clients stay open only when a later step of the start failed or
\* when closing the MCP client raised (the worker also when that error was swallowed); a
\* loop stays running only when the start failed or a run called a tool after the close.
LeftOpen ==
    pc = "down" =>
      /\ "worker" \in open => closeErr # "none" \/ failedAt \in {"playbook", "store", "events", "wecom"}
      /\ "redis"  \in open => closeErr = "raised" \/ failedAt \in {"store", "events", "wecom"}
      /\ "store"  \in open => closeErr = "raised" \/ failedAt \in {"events", "wecom"}
      /\ up # {} => \/ failedAt # "none"
                    \/ \E r \in Runs : ~calls[r].tracked /\ calls[r].att > 0

\* A call a run has begun ends, with a result, an error or a cancellation, whatever the
\* backend does: also after the worker has died, and also when it is made after the
\* close.  Only a run that was kicked during the shutdown can be left waiting, on a loop
\* that has been stopped under it.
CallsEnd ==
    \A r \in Runs :
      calls[r].st \in Active
        ~> \/ calls[r].st \in Ended
           \/ ~calls[r].tracked /\ calls[r].st \in Active /\ ~OnRunningLoop(r)

=============================================================================
