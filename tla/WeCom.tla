------------------------------- MODULE WeCom -------------------------------
(* The WeCom gateway: a callback of the platform becomes a message of a run*)
(* and the reply is pushed back (WeComChatAdapter), with an access token   *)
(* that all pushes share (WeComAppClient).                                 *)
(*                                                                         *)
(* The platform delivers a callback again when it is in doubt, so the same *)
(* MsgId may come several times; each delivery is a task of its own.  With *)
(* a Redis queue a delivery is enqueued and handed over later, one of a    *)
(* session at a time (the queue itself is SessionQueue); without, it is    *)
(* handled in the process and the MsgId is remembered in an LRU.           *)
(***************************************************************************)
EXTENDS Naturals, Sequences, FiniteSets, SequencesExt

CONSTANTS Msgs,          \* MsgIds, each a message of the one user of this model
          Kinds,         \* what the messages may be: functions Msgs -> {"text", "other"}
          MaxSeen,       \* MsgIdDeduper._max
          Deliveries,    \* callbacks in this model
          MaxTokens      \* access tokens the platform issues in this model

ASSUME WeComAssumption == /\ Kinds \subseteq [Msgs -> {"text", "other"}]
                          /\ {MaxSeen, Deliveries, MaxTokens} \subseteq Nat

VARIABLES viaQueue,      \* uses_redis_queue
          kind,          \* of each message, "other" for an empty text as well; in Kinds
          seen,          \* MsgIdDeduper._seen, or the dedupe keys in Redis; oldest first
          cache,         \* [tok: _token (0: None), fresh: not within 60 s of its expiry]
          valid,         \* the token the platform takes
          tasks,         \* the deliveries so far
          since          \* history: MsgIds registered -> the others registered after it

wcVars == <<viaQueue, kind, seen, cache, valid, tasks, since>>

WCInit == /\ viaQueue \in BOOLEAN
          /\ kind \in Kinds
          /\ seen = <<>>
          /\ cache = [tok |-> 0, fresh |-> FALSE]
          /\ valid = 1
          /\ tasks = <<>>
          /\ since = [m \in {} |-> {}]

----------------------------------------------------------------------------
(* The platform.                                                           *)

\* job: the worker holds it; tok: the token in use; replaced: history, the platform has
\* issued another token since the task was given its second one.
Task(m) == [m |-> m, st |-> "new", job |-> FALSE, tok |-> 0, replaced |-> FALSE]

\* A callback, the first or a repeated one; it is acknowledged at once.
Deliver(m) ==
    /\ Len(tasks) < Deliveries
    /\ tasks' = Append(tasks, Task(m))
    /\ UNCHANGED <<viaQueue, kind, seen, cache, valid, since>>

\* The platform replaces its token, by its time or because another client asked for one.
Replace ==
    /\ valid < MaxTokens
    /\ valid' = valid + 1
    /\ tasks' = [t \in DOMAIN tasks |-> [tasks[t] EXCEPT !.replaced = @ \/ tasks[t].st \in {"keepAgain", "postAgain"}]]
    /\ UNCHANGED <<viaQueue, kind, seen, cache, since>>

\* Time: the token in the cache comes near its end.
Lapse ==
    /\ cache.fresh
    /\ cache' = [cache EXCEPT !.fresh = FALSE]
    /\ UNCHANGED <<viaQueue, kind, seen, valid, tasks, since>>

----------------------------------------------------------------------------
(* A delivery.  Steps are what happens between two awaits.                 *)

At(t, st) == t \in DOMAIN tasks /\ tasks[t].st = st
Over == {"skipped", "lost", "dropped", "pushed", "refused", "failed"}
Go(t, st) == tasks' = [tasks EXCEPT ![t] = IF st \in Over
                                           THEN [@ EXCEPT !.st = st, !.job = FALSE, !.tok = 0]
                                           ELSE [@ EXCEPT !.st = st]]

\* What has no text is answered with a prompt.
AfterChecks(t) == Go(t, IF kind[tasks[t].m] = "text" THEN "resolve" ELSE "push")

Registered(m) ==
    /\ since' = [n \in DOMAIN since \union {m} |-> IF n = m THEN {} ELSE since[n] \union {m}]
    /\ UNCHANGED <<viaQueue, kind, cache, valid>>

\* Mutant: one place of the LRU is never used.
SeenOrAddShort(m) == LET s == Append(seen, m) IN seen' = IF Len(s) >= MaxSeen THEN Tail(s) ELSE s

\* seen_or_add of a MsgId not seen: it is registered before anything is done about it.
SeenOrAdd(m) == LET s == Append(seen, m) IN seen' = IF Len(s) > MaxSeen THEN Tail(s) ELSE s

\* handle_message: the MsgId first, then the checks.
Handle(t) ==
    /\ At(t, "new") /\ ~viaQueue
    /\ LET m == tasks[t].m IN
       IF m \in Range(seen)
       THEN Go(t, "skipped") /\ UNCHANGED <<viaQueue, kind, seen, cache, valid, since>>
       ELSE SeenOrAdd(m) /\ AfterChecks(t) /\ Registered(m)

\* _enqueue_from_msg: the checks first, a prompt is not deduplicated.  The queue may be
\* out of reach at its first command, or at the push: then the MsgId stays registered.
\* _safe_enqueue logs it.
Enqueue(t) ==
    /\ At(t, "new") /\ viaQueue
    /\ LET m == tasks[t].m IN
       \/ /\ kind[m] # "text" /\ Go(t, "push")
          /\ UNCHANGED <<viaQueue, kind, seen, cache, valid, since>>
       \/ /\ kind[m] = "text" /\ m \in Range(seen) /\ Go(t, "skipped")
          /\ UNCHANGED <<viaQueue, kind, seen, cache, valid, since>>
       \/ /\ kind[m] = "text" /\ m \notin Range(seen) /\ Go(t, "queued")
          /\ seen' = Append(seen, m) /\ Registered(m)
       \/ /\ kind[m] = "text" /\ m \notin Range(seen) /\ Go(t, "dropped")
          /\ seen' = Append(seen, m) /\ Registered(m)
       \/ /\ kind[m] = "text" /\ Go(t, "lost")
          /\ UNCHANGED <<viaQueue, kind, seen, cache, valid, since>>

\* The worker takes the next job of the session when the one before it is acknowledged.
TakeJob(t) ==
    /\ At(t, "queued") /\ \A u \in DOMAIN tasks : ~tasks[u].job
    /\ tasks' = [tasks EXCEPT ![t].st = "resolve", ![t].job = TRUE]
    /\ UNCHANGED <<viaQueue, kind, seen, cache, valid, since>>

\* BusinessTokenResolver.resolve: every failure has a text, which is pushed.
Answers == [net : BOOLEAN, status : {"ok", "unbound", "bad"}, code : BOOLEAN, token : BOOLEAN]
Resolved(a) == IF ~a.net THEN "unavailable"
               ELSE IF a.status = "unbound" \/ a.code THEN "unbound"
               ELSE IF a.status = "bad" \/ ~a.token THEN "refused"
               ELSE "bearer"

Resolve(t) ==
    /\ At(t, "resolve")
    /\ \E a \in Answers :
         Go(t, IF Resolved(a) = "bearer" THEN "run" ELSE "push")
    /\ UNCHANGED <<viaQueue, kind, seen, cache, valid, since>>

\* run_agent ends with a reply, or raises and the error is pushed.
RunEnd(t) ==
    /\ At(t, "run")
    /\ Go(t, "push")
    /\ UNCHANGED <<viaQueue, kind, seen, cache, valid, since>>

----------------------------------------------------------------------------
(* send_text: get_access_token, a post, and once more with a new token.    *)

\* Mutant: the cached token is given to the one who wants a new one.
UsableForced(force) == cache.tok # 0 /\ cache.fresh

Usable(force) == ~force /\ cache.tok # 0 /\ cache.fresh

\* get_access_token: the cached one, or gettoken is asked.
GetToken(t, from, ask, post, force) ==
    /\ At(t, from)
    /\ IF Usable(force)
       THEN tasks' = [tasks EXCEPT ![t].st = post, ![t].tok = cache.tok]
       ELSE Go(t, ask)
    /\ UNCHANGED <<viaQueue, kind, seen, cache, valid, since>>

\* The platform answers, or cannot be reached and the push raises.
Issue(t, ask, keep) ==
    /\ At(t, ask)
    /\ \/ tasks' = [tasks EXCEPT ![t].st = keep, ![t].tok = valid]
       \/ Go(t, "failed")
    /\ UNCHANGED <<viaQueue, kind, seen, cache, valid, since>>

\* The answer is read: it is cached, whatever another push has cached meanwhile.
Keep(t, keep, post) ==
    /\ At(t, keep)
    /\ cache' = [tok |-> tasks[t].tok, fresh |-> TRUE]
    /\ Go(t, post)
    /\ UNCHANGED <<viaQueue, kind, seen, valid, since>>

\* message/send: taken with the valid token; refused once, a new token is fetched.
Post(t, post, refused) ==
    /\ At(t, post)
    /\ \/ tasks[t].tok = valid /\ Go(t, "pushed")
       \/ tasks[t].tok # valid /\ Go(t, refused)
       \/ Go(t, "failed")
    /\ UNCHANGED <<viaQueue, kind, seen, cache, valid, since>>

Push(t) == \/ GetToken(t, "push", "ask", "post", FALSE)
           \/ Issue(t, "ask", "keep")
           \/ Keep(t, "keep", "post")
           \/ Post(t, "post", "again")
           \/ GetToken(t, "again", "askAgain", "postAgain", TRUE)
           \/ Issue(t, "askAgain", "keepAgain")
           \/ Keep(t, "keepAgain", "postAgain")
           \/ Post(t, "postAgain", "refused")

WCNext == \/ \E m \in Msgs : Deliver(m)
          \/ Replace \/ Lapse
          \/ \E t \in 1..Deliveries : \/ Handle(t) \/ Enqueue(t) \/ TakeJob(t)
                                      \/ Resolve(t) \/ RunEnd(t) \/ Push(t)

WCSpec == WCInit /\ [][WCNext]_wcVars

----------------------------------------------------------------------------
\* What has not registered its MsgId, or not yet (lost: its SET NX failed).
Unregistered == {"new", "skipped", "lost"}

\* A reply is given up for a refused token only if the platform replaced the token
\* after it had issued it to this very push: however many pushes fetch, overwrite and
\* use the cached token at once, none is refused twice for what another one cached.
\* And a message is skipped only for another delivery of it that was taken on itself, or
\* dropped with its MsgId registered when the queue failed: skips never skip each other.
GivenUpTwiceRefused ==
    \A t \in DOMAIN tasks :
      /\ tasks[t].st = "refused" => tasks[t].replaced
      /\ tasks[t].st = "skipped" =>
           \E u \in DOMAIN tasks : tasks[u].m = tasks[t].m /\ tasks[u].st \notin Unregistered

\* A message is handled again only if as many others as are remembered have come since
\* it was registered; with the Redis queue (its keys outlive this model) it never is.
HandledAgainOnlyIfForgotten ==
    [][\A t \in DOMAIN tasks :
         /\ tasks[t].st = "new" /\ tasks'[t].st \in {"queued", "resolve"}
         /\ tasks[t].m \in DOMAIN since
         => ~viaQueue /\ Cardinality(since[tasks[t].m]) >= MaxSeen]_wcVars

=============================================================================
