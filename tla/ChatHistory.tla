---------------------------- MODULE ChatHistory ----------------------------
(* _history_messages of src/src/server/app.py: the rows of a session as    *)
(* the bubbles a chat window shows.  The steps of a run are folded into the*)
(* bubble of its final answer; a step is one row of the loop.  A row is    *)
(* known by its position, a block or a thought by the row it comes from.   *)
(***************************************************************************)
EXTENDS Naturals, Sequences, SequencesExt

CONSTANT MaxRows        \* rows of a session in this model

ASSUME ChatHistoryAssumption == MaxRows \in Nat

VARIABLES rows,         \* get_chat_history: [role, reasoning, content]
          thoughts,     \* include_thought
          at,           \* how many rows the loop has been through
          bubbles,      \* out
          ths, tls      \* pending_thoughts, pending_tools

chVars == <<rows, thoughts, at, bubbles, ths, tls>>

\* "calls": an assistant row with tool calls, "final": one without, "other": a role the
\* view leaves out (system).
Roles == {"user", "tool", "calls", "final", "other"}
Row == {r \in [role : Roles, reasoning : BOOLEAN, content : BOOLEAN] :
          r.role \notin {"calls", "final"} => ~r.reasoning /\ r.content}

CHInit == /\ rows \in UNION {[1..n -> Row] : n \in 0..MaxRows}
          /\ thoughts \in BOOLEAN
          /\ at = 0 /\ bubbles = <<>> /\ ths = <<>> /\ tls = <<>>

Bubble(i, seen, used) == [row |-> i, thoughts |-> seen, tools |-> used]

\* reasoning_content first, then the text: what a row adds to the thoughts.
Thought(i) == (IF rows[i].reasoning THEN <<<<i, "reasoning">>>> ELSE <<>>)
              \o (IF rows[i].role = "calls" /\ rows[i].content THEN <<<<i, "content">>>> ELSE <<>>)

\* The loop takes the next row.
Take(role) == /\ at < Len(rows) /\ rows[at + 1].role = role
              /\ at' = at + 1
              /\ UNCHANGED <<rows, thoughts>>

Forget == ths' = <<>> /\ tls' = <<>>

\* What is pending when a user row comes belongs to no answer.
UserRow == /\ Take("user")
           /\ bubbles' = Append(bubbles, Bubble(at + 1, <<>>, <<>>))
           /\ Forget

ToolRow == /\ Take("tool")
           /\ tls' = Append(tls, at + 1)
           /\ UNCHANGED <<bubbles, ths>>

CallsRow == /\ Take("calls")
            /\ tls' = Append(tls, at + 1)
            /\ ths' = IF thoughts THEN ths \o Thought(at + 1) ELSE ths
            /\ UNCHANGED bubbles

Finished(i) == bubbles' = Append(bubbles, Bubble(i, IF thoughts THEN ths \o Thought(i) ELSE <<>>, tls))

\* Mutant: the pending blocks stay for the next bubble.
FinalRowKeeps == /\ Take("final")
                 /\ Finished(at + 1)
                 /\ UNCHANGED <<ths, tls>>

FinalRow == /\ Take("final")
            /\ Finished(at + 1)
            /\ Forget

OtherRow == Take("other") /\ UNCHANGED <<bubbles, ths, tls>>

CHNext == UserRow \/ ToolRow \/ CallsRow \/ FinalRow \/ OtherRow

CHSpec == CHInit /\ [][CHNext]_chVars

----------------------------------------------------------------------------
Closes(i) == rows[i].role \in {"user", "final"}

\* The steps before a row and after the closing row before it: calls and results.
Steps(i) == {j \in 1..(i - 1) : /\ \A k \in j..(i - 1) : ~Closes(k)
                               /\ rows[j].role \in {"tool", "calls"}}

\* However far the loop is, there is a bubble for every row it saw that closes a run, in
\* their order.  The bubble of an answer (or of a question, which is stored like one) shows
\* the calls and the results of its own run and no others, each once and in their order;
\* what a run did that stored no such row (it failed or was cut off) is shown in no
\* bubble, and so is never taken for a step of the next run.
OwnSteps ==
    /\ {bubbles[b].row : b \in DOMAIN bubbles} = {i \in 1..at : Closes(i)}
    /\ \A b, c \in DOMAIN bubbles : b < c => bubbles[b].row < bubbles[c].row
    /\ \A b \in DOMAIN bubbles :
         LET i == bubbles[b].row
             used == bubbles[b].tools
         IN  /\ Range(used) = IF rows[i].role = "user" THEN {} ELSE Steps(i)
             /\ \A k, l \in DOMAIN used : k < l => used[k] < used[l]
             /\ \A t \in Range(bubbles[b].thoughts) : t[1] \in Steps(i) \union {i}

=============================================================================
