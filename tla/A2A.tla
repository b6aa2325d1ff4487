-------------------------------- MODULE A2A --------------------------------
(* A task delegated to a remote agent: the tool delegate_task, the client  *)
(* that reads the stream of the remote (send_and_wait_answer), and the     *)
(* server side that writes it (HubloomExecutor), with the turn of the      *)
(* remote and the wire external.  A remote may also answer with one final  *)
(* task instead of a stream.                                               *)
(***************************************************************************)
EXTENDS Naturals, Sequences

CONSTANT MaxWrites       \* pieces a remote turn streams in this model

ASSUME A2AAssumption == MaxWrites \in Nat

VARIABLES call,          \* what the tool is called with
          remote,        \* [st, answer, trace: pieces written so far, streams: BOOLEAN]
          wire,          \* events on their way, in order
          got,           \* failed_msg, answer_parts and last_task of what was read
          lost,          \* history: the stream ended, cleanly, before its last event
          shown,         \* the last status the user was shown, "none" before
          outcome        \* what the tool returns, NoOutcome before

a2Vars == <<call, remote, wire, got, lost, shown, outcome>>

\* An event tells how far the remote r is; "answer" and "trace" bring its last piece, a
\* "task" all of them, and "end" an empty last chunk.
Event(kind, r) == [kind |-> kind, st |-> r.st, answer |-> r.answer, trace |-> r.trace]
NoTask == [kind |-> "none", st |-> "none", answer |-> 0, trace |-> 0]
Text(channel, n) == [k \in 1..n |-> <<channel, k>>]

NoOutcome == [kind |-> "none", text |-> <<>>]
Outcome(kind, text) == [kind |-> kind, text |-> text]

A2Init == /\ call \in [id : {"known", "unknown", "empty"}, message : BOOLEAN, inbound : BOOLEAN]
          /\ remote \in [st : {"idle"}, answer : {0}, trace : {0}, streams : BOOLEAN]
          /\ wire = <<>> /\ got = [failed |-> FALSE, text |-> <<>>, task |-> NoTask] /\ lost = FALSE
          /\ shown = "none"
          /\ outcome = NoOutcome

Open == outcome = NoOutcome

\* DelegateTaskTool.execute up to the request: what cannot be sent is answered with a
\* text.  The agent is found in the directory, its card fetched, the request posted.
Delegate ==
    /\ Open /\ remote.st = "idle"
    /\ IF call.id = "empty" \/ ~call.message \/ call.inbound \/ call.id = "unknown"
       THEN outcome' = Outcome("refused", <<>>) /\ UNCHANGED <<remote, shown>>
       ELSE \/ remote' = [remote EXCEPT !.st = "submitted"] /\ shown' = "working" /\ UNCHANGED outcome
            \/ outcome' = Outcome("error", <<>>) /\ UNCHANGED <<remote, shown>>
    /\ UNCHANGED <<call, wire, got, lost>>

----------------------------------------------------------------------------
(* The remote: HubloomExecutor.execute.                                    *)

\* What it writes goes to the stream, or is only kept for the final task.
Emit(events) == wire' = IF remote.streams THEN wire \o events ELSE wire
Reader == UNCHANGED <<call, got, lost, shown, outcome>>

\* The task first, then WORKING.
Accept ==
    /\ remote.st = "submitted"
    /\ remote' = [remote EXCEPT !.st = "working"]
    /\ Emit(<<Event("task", remote), Event("status", [remote EXCEPT !.st = "working"])>>)
    /\ Reader

\* on_stream: a piece of the answer or of the trace.
Write(channel) ==
    /\ remote.st = "working"
    /\ remote.answer + remote.trace < MaxWrites
    /\ LET after == [remote EXCEPT ![channel] = @ + 1]
       IN  remote' = after /\ Emit(<<Event(channel, after)>>)
    /\ Reader

\* A remote that does not stream answers with its task, when the turn is over.
TurnEnds(after, events) ==
    /\ remote.st = "working"
    /\ remote' = after
    /\ wire' = IF remote.streams THEN wire \o events ELSE <<Event("task", after)>>
    /\ Reader

\* The turn ends.  A reply of which nothing was streamed is written at once; then the
\* last chunks, which are empty, and COMPLETED.
Complete ==
    LET after == [remote EXCEPT !.st = "completed", !.answer = IF @ = 0 THEN 1 ELSE @]
    IN  TurnEnds(after, <<Event(IF remote.answer = 0 THEN "answer" ELSE "end", after),
                       Event("status", after)>>)

\* The turn raises: FAILED, whatever has been written before.
Fail == LET after == [remote EXCEPT !.st = "failed"] IN TurnEnds(after, <<Event("status", after)>>)

----------------------------------------------------------------------------
(* The client.                                                             *)

Listening == Open /\ remote.st # "idle"

\* _dispatch_chunk shows a status as it comes, and the chunk is kept for
\* collect_answer_from_stream, which adds it to what it has.
Read ==
    /\ Listening /\ wire # <<>>
    /\ wire' = Tail(wire)
    /\ LET e == Head(wire)
       IN  /\ got' = [failed |-> got.failed \/ (e.kind = "status" /\ e.st = "failed"),
                      text |-> IF e.kind = "answer" THEN Append(got.text, <<"answer", e.answer>>)
                               ELSE got.text,
                      task |-> IF e.kind = "task" THEN e ELSE got.task]
           /\ shown' = IF e.kind = "status" THEN e.st ELSE shown
    /\ UNCHANGED <<call, remote, lost, outcome>>

\* answer_from_task: the pieces named answer, or else whatever there is.
FromTask == IF got.task.answer > 0 THEN Text("answer", got.task.answer)
            ELSE Text("trace", got.task.trace)
Fruitful == got.task.answer + got.task.trace > 0

\* Mutant: a failure counts only if nothing was streamed.
CollectLenient ==
    IF got.failed /\ got.text = <<>> THEN Outcome("error", <<>>)
    ELSE IF Fruitful THEN Outcome("answer", FromTask)
    ELSE IF got.text = <<>> /\ got.task.st = "failed" THEN Outcome("error", <<>>)
    ELSE Outcome("answer", got.text)

\* The end of collect_answer_from_stream: a FAILED of the stream raises; the last task
\* wins over what was streamed, a failed one too; without a word a failed task raises,
\* and nothing at all is "(empty)".
Collect ==
    IF got.failed THEN Outcome("error", <<>>)
    ELSE IF Fruitful THEN Outcome("answer", FromTask)
    ELSE IF got.text = <<>> /\ got.task.st = "failed" THEN Outcome("error", <<>>)
    ELSE Outcome("answer", got.text)

\* The stream has ended: after its last event, or before it without an error.
Ends(early) ==
    /\ Listening
    /\ early \/ (wire = <<>> /\ remote.st \in {"completed", "failed"})
    /\ outcome' = Collect
    /\ lost' = (wire # <<>> \/ remote.st \notin {"completed", "failed"})
    /\ shown' = IF Collect.kind = "answer" THEN "completed" ELSE shown
    /\ wire' = <<>>
    /\ UNCHANGED <<call, remote, got>>

\* A broken stream or the timeout of the client: the tool returns the error as a text.
\* The remote is not told, and goes on.
BreaksOff ==
    /\ Listening
    /\ outcome' = Outcome("error", <<>>)
    /\ wire' = <<>>
    /\ UNCHANGED <<call, remote, got, lost, shown>>

A2Next == \/ Delegate \/ Accept \/ Complete \/ Fail
          \/ \E channel \in {"answer", "trace"} : Write(channel)
          \/ Read \/ BreaksOff
          \/ \E early \in BOOLEAN : Ends(early)

A2Spec == A2Init /\ [][A2Next]_a2Vars

----------------------------------------------------------------------------
\* What the tool returns as the answer is the whole answer of a remote that completed,
\* and nothing of its trace; a remote whose stream tells of a failure is answered with an
\* error, however much of an answer it had streamed before.  Two things pass for whole all
\* the same, and the user is shown "completed": a stream that ended early without an
\* error, whose answer is a beginning of what was written; and a single task that failed,
\* whose answer is what it had written, its trace if that was all.  The second is denied
\* by FailureIsError below.
AnswerIsWhole ==
    outcome.kind = "answer" =>
      /\ shown = "completed"
      /\ IF lost THEN \E n \in 0..remote.answer : outcome.text = Text("answer", n)
         ELSE \/ remote.st = "completed" /\ outcome.text = Text("answer", remote.answer)
              \/ /\ remote.st = "failed" /\ ~remote.streams
                 /\ outcome.text = IF remote.answer > 0 THEN Text("answer", remote.answer)
                                   ELSE Text("trace", remote.trace)

\* What the documentation says of the result: a failure of the remote that has reached
\* the client comes back as an error, and an answer holds nothing of the remote's trace.
\* collect_answer_from_stream does so for a stream; it takes a single task that failed for
\* the answer as soon as there is any text in it, and its trace when there is no other.
FailureIsError ==
    outcome.kind = "answer" /\ ~lost =>
      /\ remote.st = "completed"
      /\ \A i \in DOMAIN outcome.text : outcome.text[i][1] = "answer"

=============================================================================
