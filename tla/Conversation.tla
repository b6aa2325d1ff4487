---------------------------- MODULE Conversation ----------------------------
(***************************************************************************)
(* The conversation log and the prompt that is made of it.  Every process  *)
(* has one connection to the store, shared by all its sessions; the turns  *)
(* of the session under study are served one at a time (AgentRun), each by *)
(* any process.  A turn writes its messages one by one, and before every   *)
(* decision of the model it reads the newest rows back, cuts off what it   *)
(* takes for its own messages, and trims the rest to the token budget.     *)
(*                                                                         *)
(* PostgreSQL and psycopg are external: a connection without autocommit    *)
(* opens a transaction with any statement, a read too, and NOW(), the      *)
(* default of created_at, is the time the transaction began; a statement   *)
(* that fails makes the transaction refuse all others until a COMMIT,      *)
(* which then rolls back.                                                  *)
(***************************************************************************)
EXTENDS Integers, FiniteSets, SequencesExt

CONSTANTS
  Procs,
  None,
  Backends, \* subset of {"sqlite", "postgres"}: memory.conversation_store
  Limit,    \* history_limit, in messages
  Budget,   \* what the system messages leave of history_max_tokens
  Cost,     \* tokens of a message, by kind
  MaxTime,  \* bound: the clock
  MaxRows,  \* bound: messages of the session
  MaxTurns, \* bound: turns
  Times,    \* bound: incidents of each kind
  Mishaps   \* bound: incidents in all

ASSUME ConversationAssumption ==
  /\ Limit \in Nat /\ Budget \in Int
  /\ Cost \in [{"user", "call", "tool", "say"} -> Nat]

Incidents == {"ask", "hint", "clear", "crash", "fault", "busy"}

(* kind "call" is an assistant's message with tool calls, "say" one without. *)
Message(kind, ids) == [kind |-> kind, ids |-> ids]

(* A message to be written, a row of the log, and a turn that is served.   *)
Roles == {"user", "call", "tool", "say"}
Plain == [kind : Roles, ids : SUBSET Nat]
Stored == [kind : Roles, ids : SUBSET Nat, seq : Nat, at : Nat, turn : Nat]
Turns == [p : Procs, step : {"add", "commit", "assemble", "decide"}, turn : Seq(Stored),
          todo : Seq(Plain \cup Stored), next : {"assemble", "end", "suspend"}]
ASSUME NoneAssumption == None \notin Turns

VARIABLES
  backend,
  clock,
  rows,   \* committed rows of the session: [kind, ids, seq, at, turn]
  seq,    \* last number given to a row
  tx,     \* per process: the state of its connection
  run,    \* the turn being served, or None
  snap,   \* the turn that waits for its user (interactive), or None
  turns,  \* turns so far
  prompt, \* the history of the last prompt, before and after trimming
  acked,  \* history: numbers of the rows whose add_message returned, but for
          \* those cleared since
  n       \* incidents so far

vars == <<backend, clock, rows, seq, tx, run, snap, turns, prompt, acked, n>>

Quiet == [open |-> FALSE, since |-> 0, failed |-> FALSE, pending |-> {}]
NoPrompt == [prior |-> <<>>, kept |-> <<>>]

Init ==
  /\ backend \in Backends
  /\ clock = 0 /\ rows = {} /\ seq = 0 /\ turns = 0
  /\ tx = [p \in Procs |-> Quiet]
  /\ run = None /\ snap = None /\ prompt = NoPrompt
  /\ acked = {} /\ n = [k \in Incidents |-> 0]

Count(k) ==
  /\ n[k] < Times[k] /\ FoldFunction(+, 0, n) < Mishaps
  /\ n' = [n EXCEPT ![k] = @ + 1]

-----------------------------------------------------------------------------
(* The connection.                                                         *)

(* Any statement opens a transaction; after a failed one they all raise.   *)
Usable(p) == ~tx[p].failed
Began(p) == IF tx[p].open THEN tx[p].since ELSE clock
Opened(p) ==
  IF backend = "postgres" THEN [tx[p] EXCEPT !.open = TRUE, !.since = Began(p)]
                          ELSE tx[p]

(* created_at of a row inserted now.                                       *)
Stamp(p) == IF backend = "postgres" THEN Began(p) ELSE clock

(* ORDER BY created_at, then seq (PostgreSQL) or rowid (SQLite).           *)
Older(a, b) == a.at < b.at \/ (a.at = b.at /\ a.seq < b.seq)

(* get_recent: ORDER BY ... DESC LIMIT, reversed; on the connection of p   *)
(* its own uncommitted rows are visible too.                               *)
Newer(S, m) == Cardinality({k \in S : Older(m, k)})
Recent(p) ==
  LET S   == rows \cup tx[p].pending
      len == IF Cardinality(S) < Limit THEN Cardinality(S) ELSE Limit
  IN  [i \in 1..len |-> CHOOSE m \in S : Newer(S, m) = len - i]

-----------------------------------------------------------------------------
(* From rows to the history of a prompt.                                   *)

Tokens(m) == Cost[m.kind]
Total(ms) ==
  LET sum[i \in 0..Len(ms)] == IF i = 0 THEN 0 ELSE sum[i - 1] + Tokens(ms[i])
  IN  sum[Len(ms)]

(* _strip_turn_suffix: as many rows as the turn has messages, by number.   *)
Strip(history, turn) ==
  IF Len(turn) = 0 \/ Len(history) < Len(turn)
    THEN history ELSE SubSeq(history, 1, Len(history) - Len(turn))

(* group_conversation_messages: a call and the results that follow it make *)
(* a group, every other message one of its own.                            *)
Chained(ms, h, i) ==
  ms[h].kind = "call" /\ h < i /\ \A k \in h + 1 .. i : ms[k].kind = "tool"
Heads(ms) == {h \in DOMAIN ms : ~\E g \in DOMAIN ms : Chained(ms, g, h)}
Group(ms, h) ==
  LET S == {h} \cup {i \in DOMAIN ms : Chained(ms, h, i)}
  IN  [i \in 1..Cardinality(S) |-> ms[h + i - 1]]

(* _is_complete_tool_group: all results are there; a result without its    *)
(* call is not complete.                                                   *)
Complete(g) ==
  CASE g[1].kind = "call" ->
         g[1].ids # {} /\ g[1].ids \subseteq UNION {g[i].ids : i \in 2..Len(g)}
    [] g[1].kind = "tool" -> FALSE
    [] OTHER -> TRUE

(* Mutant: a group that does not fit is skipped, and older ones are tried. *)
KeepSkips(g, acc) ==
  IF Total(g) <= acc.left
    THEN [acc EXCEPT !.kept = g \o @, !.left = @ - Total(g)] ELSE acc

(* One group of trim_conversation_history, newest first: it is taken when  *)
(* it fits, skipped when it never could, and otherwise ends the history.   *)
Keep(g, acc) ==
  IF acc.full THEN acc
  ELSE IF Total(g) <= acc.left
         THEN [acc EXCEPT !.kept = g \o @, !.left = @ - Total(g)]
         ELSE [acc EXCEPT !.full = Total(g) <= Budget]

(* Mutant: incomplete chains are kept.                                     *)
KeepAny(ms, h, acc) == IF h \in Heads(ms) THEN Keep(Group(ms, h), acc) ELSE acc

(* Incomplete chains and lone results are left out.                        *)
KeepComplete(ms, h, acc) ==
  IF h \in Heads(ms) /\ Complete(Group(ms, h)) THEN Keep(Group(ms, h), acc) ELSE acc

(* trim_conversation_history, after the groups at the last j positions.    *)
Trimmed(ms) ==
  LET acc[j \in 0..Len(ms)] ==
        IF j = 0 THEN [kept |-> <<>>, left |-> Budget, full |-> FALSE]
                 ELSE KeepComplete(ms, Len(ms) - j + 1, acc[j - 1])
  IN  acc
Trim(ms) == IF Budget <= 0 THEN <<>> ELSE Trimmed(ms)[Len(ms)].kept

-----------------------------------------------------------------------------
(* A turn.                                                                 *)

Serving(p, step) == run # None /\ run.p = p /\ run.step = step

(* Nobody serves the session, and the bound leaves room.                   *)
Resting == run = None /\ seq < MaxRows
Write(p, turn, ms, next) ==
  run' = [p |-> p, step |-> "add", turn |-> turn, todo |-> ms, next |-> next]

(* run_stream remembers its trigger.                                       *)
Begin(p) ==
  /\ Resting /\ turns < MaxTurns /\ turns' = turns + 1 /\ snap' = None
  /\ Write(p, <<>>, <<Message("user", {})>>, "assemble")
  /\ UNCHANGED <<backend, clock, rows, seq, tx, prompt, acked, n>>

(* resume_stream remembers the reply and goes on with the turn's messages, *)
(* in whichever process the reply arrives.                                 *)
Resume(p) ==
  /\ Resting /\ snap # None
  /\ Write(p, snap, <<Message("user", {})>>, "assemble") /\ snap' = None
  /\ UNCHANGED <<backend, clock, rows, seq, tx, turns, prompt, acked, n>>

(* The message is stored: the turn holds it too, unless it ends the run.   *)
Added(m) ==
  /\ acked' = acked \cup {m.seq}
  /\ run' = IF Len(run.todo) = 1 /\ run.next \in {"end", "suspend"} THEN None
            ELSE [run EXCEPT !.turn = Append(@, m), !.todo = Tail(@),
                             !.step = IF Len(run.todo) = 1 THEN run.next ELSE "add"]
  /\ snap' = IF Len(run.todo) = 1 /\ run.next = "suspend" THEN run.turn ELSE snap

Raise == run' = None /\ prompt' = NoPrompt

Row(p) ==
  [kind |-> Head(run.todo).kind, seq |-> seq + 1, at |-> Stamp(p), turn |-> turns,
   ids |-> IF Head(run.todo).kind = "call"
             THEN {seq + 1 + i : i \in Head(run.todo).ids}
             ELSE IF Head(run.todo).kind = "tool" THEN {seq + 1} ELSE {}]

(* add_message, SQLite: INSERT and commit.                                 *)
AddLite(p) ==
  /\ backend = "sqlite" /\ Serving(p, "add")
  /\ rows' = rows \cup {Row(p)} /\ seq' = seq + 1 /\ Added(Row(p))
  /\ UNCHANGED <<backend, clock, tx, turns, prompt, n>>

(* add_message, PostgreSQL: the INSERT.                                    *)
Insert(p) ==
  /\ backend = "postgres" /\ Serving(p, "add") /\ Usable(p)
  /\ tx' = [tx EXCEPT ![p] = [Opened(p) EXCEPT !.pending = {Row(p)}]]
  /\ seq' = seq + 1
  /\ run' = [run EXCEPT !.step = "commit", !.todo = <<Row(p)>> \o Tail(@)]
  /\ UNCHANGED <<backend, clock, rows, snap, turns, prompt, acked, n>>

(* Mutant: add_message returns without a commit.                           *)
CommitNever(p) ==
  /\ Serving(p, "commit") /\ Added(Head(run.todo)) /\ UNCHANGED <<rows, tx>>
  /\ UNCHANGED <<backend, clock, seq, turns, prompt, n>>

(* add_message, PostgreSQL: the COMMIT, a rollback when a statement of     *)
(* another thread has failed in between, and nothing when another thread   *)
(* has committed.                                                          *)
Commit(p) ==
  /\ Serving(p, "commit") /\ Added(Head(run.todo))
  /\ rows' = IF tx[p].failed THEN rows ELSE rows \cup tx[p].pending
  /\ tx' = [tx EXCEPT ![p] = Quiet]
  /\ UNCHANGED <<backend, clock, seq, turns, prompt, n>>

(* A refused statement raises in whoever makes it: the run fails.          *)
Refused(p) ==
  /\ run # None /\ run.p = p /\ run.step \in {"add", "assemble"} /\ ~Usable(p)
  /\ Raise
  /\ UNCHANGED <<backend, clock, rows, seq, tx, snap, turns, acked, n>>

(* assemble_messages: recall, strip, trim.                                 *)
Assemble(p) ==
  /\ Serving(p, "assemble") /\ Usable(p)
  /\ LET prior == Strip(Recent(p), run.turn)
     IN  prompt' = [prior |-> prior, kept |-> Trim(prior)]
  /\ tx' = [tx EXCEPT ![p] = Opened(p)]
  /\ run' = [run EXCEPT !.step = "decide"]
  /\ UNCHANGED <<backend, clock, rows, seq, snap, turns, acked, n>>

(* The model's decision: tools are called, all results coming back before  *)
(* the first message is stored; the user is answered; the user is asked,   *)
(* and the turn suspended; or the decision is refused, by the parser or    *)
(* the gate, and the turn gets a hint that is not stored.                  *)
Act(p) ==
  \E k \in 1..2 :
    /\ Serving(p, "decide") /\ seq + k < MaxRows
    /\ Write(p, run.turn,
             <<Message("call", 1..k)>> \o [i \in 1..k |-> Message("tool", {})],
             "assemble")
    /\ prompt' = NoPrompt
    /\ UNCHANGED <<backend, clock, rows, seq, tx, snap, turns, acked, n>>

Answer(p) ==
  /\ Serving(p, "decide") /\ seq < MaxRows
  /\ Write(p, run.turn, <<Message("say", {})>>, "end") /\ prompt' = NoPrompt
  /\ UNCHANGED <<backend, clock, rows, seq, tx, snap, turns, acked, n>>

Ask(p) ==
  /\ Serving(p, "decide") /\ seq < MaxRows /\ Count("ask")
  /\ Write(p, run.turn, <<Message("say", {})>>, "suspend") /\ prompt' = NoPrompt
  /\ UNCHANGED <<backend, clock, rows, seq, tx, snap, turns, acked>>

Hint(p) ==
  /\ Serving(p, "decide") /\ Count("hint")
  /\ run' = [run EXCEPT !.step = "assemble",
       !.turn = Append(@, [kind |-> "user", ids |-> {}, seq |-> 0, at |-> 0, turn |-> turns])]
  /\ prompt' = NoPrompt
  /\ UNCHANGED <<backend, clock, rows, seq, tx, snap, turns, acked>>

(* The run ends without an answer: rounds, stream or tools.                *)
GiveUp(p) ==
  /\ Serving(p, "decide") /\ Raise
  /\ UNCHANGED <<backend, clock, rows, seq, tx, snap, turns, acked, n>>

-----------------------------------------------------------------------------
(* What happens beside the turn.                                           *)

Tick ==
  /\ clock < MaxTime /\ clock' = clock + 1
  /\ UNCHANGED <<backend, rows, seq, tx, run, snap, turns, prompt, acked, n>>

(* Another session's prompt, a page of history, a list or a count: a read  *)
(* on the same connection, which nobody commits.                           *)
OtherRead(p) ==
  /\ backend = "postgres" /\ Usable(p) /\ ~tx[p].open /\ Count("busy")
  /\ tx' = [tx EXCEPT ![p] = Opened(p)]
  /\ UNCHANGED <<backend, clock, rows, seq, run, snap, turns, prompt, acked>>

(* Another session's message: its commit is that of the whole connection.  *)
OtherWrite(p) ==
  /\ Usable(p) /\ tx[p].open
  /\ rows' = rows \cup tx[p].pending /\ tx' = [tx EXCEPT ![p] = Quiet]
  /\ UNCHANGED <<backend, clock, seq, run, snap, turns, prompt, acked, n>>

(* A statement of the connection fails at the server; nobody rolls back.   *)
Fault(p) ==
  /\ Usable(p) /\ tx[p].open /\ Count("fault")
  /\ tx' = [tx EXCEPT ![p].failed = TRUE]
  /\ UNCHANGED <<backend, clock, rows, seq, run, snap, turns, prompt, acked>>

(* clear_session, from any process, between two turns.                     *)
ClearSession(p) ==
  /\ run = None /\ rows # {} /\ Usable(p) /\ Count("clear")
  /\ rows' = {} /\ acked' = acked \ {r.seq : r \in rows}
  /\ tx' = [tx EXCEPT ![p] = Quiet]
  /\ UNCHANGED <<backend, clock, seq, run, snap, turns, prompt>>

(* The process dies and is started again; what waits in Redis stays.       *)
Crash(p) ==
  /\ Count("crash") /\ tx' = [tx EXCEPT ![p] = Quiet]
  /\ IF run # None /\ run.p = p THEN Raise ELSE UNCHANGED <<run, prompt>>
  /\ UNCHANGED <<backend, clock, rows, seq, snap, turns, acked>>

Next ==
  \/ Tick
  \/ \E p \in Procs :
       \/ Begin(p) \/ Resume(p)
       \/ AddLite(p) \/ Insert(p) \/ Commit(p) \/ Refused(p)
       \/ Assemble(p) \/ Act(p) \/ Answer(p) \/ Ask(p) \/ Hint(p) \/ GiveUp(p)
       \/ OtherRead(p) \/ OtherWrite(p) \/ Fault(p) \/ ClearSession(p) \/ Crash(p)

Spec == Init /\ [][Next]_vars

-----------------------------------------------------------------------------
(* Properties.                                                             *)

(* A stored message is lost when a statement of another thread has failed  *)
(* between its INSERT and its COMMIT; its caller is not told.              *)
Lost == acked \ {r.seq : r \in rows}

(* Every prompt is one a model's interface accepts: each call is followed  *)
(* at once by its results, and no result stands without its call, whatever *)
(* the window, a crash, the budget or a displaced row has cut off          *)
(* (trim_conversation_history over get_recent).  A result whose own call   *)
(* was lost is the exception: behind the results of another call it passes *)
(* for one of theirs (group_conversation_messages asks for no id).         *)
Astray(m) == \E s \in Lost : /\ s < m.seq
                            /\ \A r \in rows : s < r.seq /\ r.seq < m.seq => r.kind = "tool"
Answered(ms, i) ==
  /\ ms[i].kind = "call" =>
       \A id \in ms[i].ids : \E j \in DOMAIN ms :
          ms[j].kind = "tool" /\ id \in ms[j].ids /\ Chained(ms, i, j)
  /\ ms[i].kind = "tool" =>
       \E h \in DOMAIN ms : Chained(ms, h, i) /\ (ms[i].ids \subseteq ms[h].ids \/ Astray(ms[i]))
ChainsWhole ==
  run # None /\ run.step = "decide" =>
    LET ms == prompt.kept \o run.turn IN \A i \in DOMAIN ms : Answered(ms, i)

(* The history of a prompt is the longest end of the conversation that the *)
(* budget admits, complete groups only and without those that could never  *)
(* fit: nothing newer is given up for something older                      *)
(* (trim_conversation_history).  Without a budget there is none.           *)
Fits(g) == Complete(g) /\ Total(g) <= Budget
Ends(ms) ==
  LET from[j \in 0..Len(ms)] ==
        IF j = 0 THEN <<>>
        ELSE LET h == Len(ms) - j + 1
             IN  IF h \in Heads(ms) /\ Fits(Group(ms, h)) THEN Group(ms, h) \o from[j - 1]
                                                          ELSE from[j - 1]
  IN  from
Newest(ms, kept) ==
  \E j \in 0..Len(ms) :
    /\ kept = Ends(ms)[j] /\ Total(kept) <= Budget
    /\ \A i \in j..Len(ms) : Ends(ms)[i] = kept \/ Total(Ends(ms)[i]) > Budget
TrimNewest ==
  IF Budget > 0 THEN Newest(prompt.prior, prompt.kept) ELSE prompt.kept = <<>>

(* A message whose add_message returned is in the log until the session is *)
(* cleared; a statement that fails on the shared connection takes with it  *)
(* at most the one message that was between its INSERT and its COMMIT.     *)
KeptButForFaults ==
  Cardinality(Lost) <= n["fault"]

(* What assemble_messages promises: the history of a prompt is the newest  *)
(* rows without those of the turn itself, which follows in full.           *)
PriorExact ==
  run # None /\ run.step = "decide" =>
    prompt.prior = SelectSeq(Recent(run.p), LAMBDA r : r.turn # turns)

=============================================================================
