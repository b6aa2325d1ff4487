---------------------------- MODULE CallerToken ----------------------------
(* The way of a caller's token to the business API: from the headers, the  *)
(* event or the WeCom resolver into the context variables of the task that *)
(* runs the agent, from there as an argument to the MCP client's loop, in  *)
(* the _meta of the request to the MCP worker, into a context variable of  *)
(* the request there, and into the Authorization header.                   *)
(*                                                                         *)
(* A task has its own context.  Each HTTP request is served in a task of   *)
(* its own, the jobs of one WeCom session one after the other in the task  *)
(* of its consumer, and each request to the worker in a task of its own.   *)
(***************************************************************************)
EXTENDS Naturals, FiniteSets

CONSTANTS Callers,   \* requests that run the agent
          Given,     \* what each brings, best first: <<X-MCP-Token, Authorization>> of a chat,
                     \* the token of an event, those of a WeCom job and of the resolver
          TaskOf,    \* the task each is run in
          MaxCalls   \* bound: calls of the API

NoToken == "none"
Blank == "blank"     \* only white space

ASSUME CallerTokenAssumption ==
    /\ \A r \in Callers : Given[r] \in STRING \X STRING
    /\ DOMAIN TaskOf = Callers /\ MaxCalls \in Nat

VARIABLES bearer,    \* per task, the context variable _bearer_token
          stage,     \* per caller: new, running or over
          posted,    \* calls on their way to the worker: [of, nr, token]
          scope,     \* per call in the worker, its _request_auth_token
          received   \* what the backend got: [of, nr, header]

ctVars == <<bearer, stage, posted, scope, received>>

Tasks == {TaskOf[r] : r \in Callers}

CTInit == /\ bearer = [t \in Tasks |-> NoToken]
          /\ stage = [r \in Callers |-> "new"]
          /\ posted = {} /\ received = {}
          /\ scope = [c \in {} |-> NoToken]

\* resolve_auth_token: strip, and None for what is left empty.
Explicit(t) == IF t = Blank THEN NoToken ELSE t

\* _bearer_from_headers, normalize_event, and the job's token before the resolver's.
BearerOf(r) == IF Explicit(Given[r][1]) # NoToken THEN Given[r][1] ELSE Explicit(Given[r][2])

\* _bind_request_context sets every variable, also to None.
Bind(r) ==
    /\ stage[r] = "new"
    /\ \A o \in Callers : TaskOf[o] = TaskOf[r] => stage[o] # "running"
    /\ stage' = [stage EXCEPT ![r] = "running"]
    /\ bearer' = [bearer EXCEPT ![TaskOf[r]] = BearerOf(r)]
    /\ UNCHANGED <<posted, scope, received>>

\* The finally of run_stream, after an end, an error or a cancellation.
Unbind(r) ==
    /\ stage[r] = "running"
    /\ stage' = [stage EXCEPT ![r] = "over"]
    /\ bearer' = [bearer EXCEPT ![TaskOf[r]] = NoToken]
    /\ UNCHANGED <<posted, scope, received>>

Made == Cardinality(posted) + Cardinality(DOMAIN scope) + Cardinality(received)

\* call_api reads the token and posts the call with it, the first time, in the next
\* attempt or in the next round: what was posted before and timed out may still come.
CallApi(r) ==
    /\ stage[r] = "running" /\ Made < MaxCalls
    /\ posted' = posted \union {[of |-> r, nr |-> Made + 1, token |-> bearer[TaskOf[r]]]}
    /\ UNCHANGED <<bearer, stage, scope, received>>

CallOf(c) == [of |-> c.of, nr |-> c.nr]

\* Mutant: one variable for the whole worker.
AdmitGlobally(c) ==
    /\ posted' = posted \ {c}
    /\ scope' = [d \in DOMAIN scope \union {CallOf(c)} |-> Explicit(c.token)]
    /\ UNCHANGED <<bearer, stage, received>>

\* AuthPassthroughMiddleware: the token of the request's _meta, which lacks one if the
\* caller had none.
Admit(c) ==
    /\ posted' = posted \ {c}
    /\ scope' = [d \in DOMAIN scope \union {CallOf(c)} |->
                   IF d = CallOf(c) THEN Explicit(c.token) ELSE scope[d]]
    /\ UNCHANGED <<bearer, stage, received>>

\* AuthedHttpClient.send, some time later: an Authorization among the arguments of the
\* call stays, and without a token there is no header.  The variable is reset then.
SendAuthed(d) ==
    /\ \E header \in {scope[d], "argument"} :
         received' = received \union {[of |-> d.of, nr |-> d.nr, header |-> header]}
    /\ scope' = [o \in DOMAIN scope \ {d} |-> scope[o]]
    /\ UNCHANGED <<bearer, stage, posted>>

CTNext == \/ \E r \in Callers : Bind(r) \/ Unbind(r) \/ CallApi(r)
          \/ \E c \in posted : Admit(c)
          \/ \E d \in DOMAIN scope : SendAuthed(d)

CTSpec == CTInit /\ [][CTNext]_ctVars

----------------------------------------------------------------------------
\* A call of the business API is made with the token of the request for which the agent
\* runs, or with none if that brought none, and never with another's: whoever is served
\* beside it or was served before in the same task, and however late it is performed
\* (resolve_auth_token: no service account is put in its place).
TokenOfCaller ==
    \A x \in received : x.header \in {BearerOf(x.of), "argument"}

=============================================================================
