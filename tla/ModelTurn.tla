----------------------------- MODULE ModelTurn -----------------------------
(* One turn of the model: LLM.generate_stream puts the chunks of a stream  *)
(* together, decide makes of the end of the stream one typed action.       *)
(*                                                                         *)
(* The endpoint has a message in mind: a text or none, and tool calls, each*)
(* with a name and with arguments that come in pieces.  The pieces of      *)
(* different calls may be mixed, each chunk names the call by its index.   *)
(* The stream may break with an error, or end before the message is whole: *)
(* at the limit of tokens or because the connection was closed.            *)
(***************************************************************************)
EXTENDS Naturals, Sequences, FiniteSets, SequencesExt

CONSTANTS Names,     \* tools the model may call
          Control,   \* CONTROL_TOOL_NAMES, some of Names
          Pieces,    \* the arguments of a call come in at most so many pieces
          Calls      \* a message has at most so many calls

ASSUME ModelTurnAssumption == /\ Control \subseteq Names /\ Control \cap {"act", "error"} = {}
                              /\ Pieces \in Nat /\ Calls \in Nat

VARIABLES message,   \* what the endpoint means to say: [text, calls]
          sent,      \* how many pieces of each call it has sent
          text,      \* content is not empty
          buffers,   \* tool_buffers: index -> [name, got], got the pieces received
          finish,    \* finish_reason of the last chunk, "none" before
          turn       \* DecideResult: what the turn comes to, NoTurn while it is read

mtVars == <<message, sent, text, buffers, finish, turn>>

Call == [name : Names, pieces : 0..Pieces]
NoTurn == [kind |-> "reading", calls |-> <<>>]
NoBuffer == [name |-> "", got |-> <<>>]

MTInit == /\ message \in [text : BOOLEAN, calls : UNION {[1..n -> Call] : n \in 0..Calls}]
          /\ sent = [i \in DOMAIN message.calls |-> 0]
          /\ text = FALSE
          /\ buffers = [i \in {} |-> NoBuffer]
          /\ finish = "none"
          /\ turn = NoTurn

Reading == turn = NoTurn /\ finish = "none"

Buffer(i) == IF i \in DOMAIN buffers THEN buffers[i] ELSE NoBuffer
Put(i, b) == buffers' = [j \in DOMAIN buffers \union {i} |-> IF j = i THEN b ELSE buffers[j]]

\* A chunk with content, which is forwarded as it comes.
Delta ==
    /\ Reading /\ message.text
    /\ text' = TRUE
    /\ UNCHANGED <<message, sent, buffers, finish, turn>>

\* The first chunk of a call brings its index, its id and its name.  The endpoint opens
\* the calls in order, and need not have finished one before the next.
OpenCall(i) ==
    /\ Reading
    /\ i \in DOMAIN message.calls
    /\ DOMAIN buffers = 1..(i - 1)
    /\ Put(i, [NoBuffer EXCEPT !.name = message.calls[i].name])
    /\ UNCHANGED <<message, sent, text, finish, turn>>

\* The next piece of a call, known by the call and its number.
Piece(i) == <<i, sent[i] + 1>>
SendPiece(i) ==
    /\ Reading
    /\ i \in DOMAIN buffers
    /\ sent[i] < message.calls[i].pieces
    /\ sent' = [sent EXCEPT ![i] = @ + 1]

\* Mutant: the piece goes to the call that was opened last.
GrowLast(i) ==
    LET last == Cardinality(DOMAIN buffers) IN
    /\ SendPiece(i)
    /\ Put(last, [Buffer(last) EXCEPT !.got = Append(@, Piece(i))])
    /\ UNCHANGED <<message, text, finish, turn>>

\* A piece of the arguments is appended to the buffer of its index.
Grow(i) ==
    /\ SendPiece(i)
    /\ Put(i, [Buffer(i) EXCEPT !.got = Append(@, Piece(i))])
    /\ UNCHANGED <<message, text, finish, turn>>

Whole == /\ text = message.text
         /\ DOMAIN buffers = DOMAIN message.calls
         /\ \A i \in DOMAIN buffers : sent[i] = message.calls[i].pieces

\* The last chunk: "stop" or "tool_calls" after the whole message, "length" at any
\* moment; "cut" stands for a connection that is closed without a finish_reason.
Finish ==
    /\ Reading
    /\ finish' \in {"length", "cut"} \union (IF Whole THEN {"stop"} ELSE {})
    /\ UNCHANGED <<message, sent, text, buffers, turn>>

\* An error of the request or of the stream: StreamErrorEvent, and no action whatever
\* has been read.
Breaks ==
    /\ turn = NoTurn
    /\ turn' = [kind |-> "error", calls |-> <<>>]
    /\ UNCHANGED <<message, sent, text, buffers, finish>>

\* json.loads of a buffer: no piece is {}, all of them are the arguments, and what was
\* cut in between is no JSON and becomes {} as well.
AllPieces(i) == [k \in 1..message.calls[i].pieces |-> <<i, k>>]
Parsed(i) == IF buffers[i].got = AllPieces(i) /\ buffers[i].got # <<>>
             THEN "whole" ELSE "empty"

Assembled == [i \in DOMAIN buffers |-> [name |-> buffers[i].name, args |-> Parsed(i)]]

IsControl(c) == c.name \in Control
\* parse_decide_output: no call is a finish with the text, one control call alone is
\* that control, business calls are an act, anything mixed is an error of the model.
Typed(calls) ==
    IF calls = <<>> THEN [kind |-> "finish", calls |-> <<>>]
    ELSE IF \A i \in DOMAIN calls : ~IsControl(calls[i]) THEN [kind |-> "act", calls |-> calls]
    ELSE IF Len(calls) = 1 THEN [kind |-> calls[1].name, calls |-> calls]
    ELSE [kind |-> "parse_error", calls |-> <<>>]

\* decide at StreamEndEvent.  The stop reason is kept for the log only.
Decide ==
    /\ turn = NoTurn
    /\ finish # "none"
    /\ turn' = Typed(Assembled)
    /\ UNCHANGED <<message, sent, text, buffers, finish>>

MTNext == \/ Delta \/ Finish \/ Breaks \/ Decide
          \/ \E i \in 1..Calls : OpenCall(i) \/ Grow(i)

MTSpec == MTInit /\ [][MTNext]_mtVars

----------------------------------------------------------------------------
\* What the endpoint meant, had it been received in one piece.
Meant == Typed([i \in DOMAIN message.calls |->
                  [name |-> message.calls[i].name,
                   args |-> IF message.calls[i].pieces > 0 THEN "whole" ELSE "empty"]])

\* However the pieces of parallel calls are mixed, the action of a turn is the one the
\* endpoint meant, and a stream that broke gives none.  Only a stream that ended early
\* gives another one: then its calls are the first of the message, a call whose
\* arguments were cut is run with none, and a message cut before its first call is
\* taken for a finish (the stop reason is not looked at).  Never does a business call run
\* in a turn that also meant to ask, to confirm or to finish, unless the stream was cut
\* before that control call came.
TurnAsMeant ==
    /\ turn # NoTurn =>
         IF turn.kind = "error" THEN turn.calls = <<>>
         ELSE IF finish = "stop" THEN turn = Meant
         ELSE \/ turn.kind = "finish" /\ turn.calls = <<>>
              \/ turn.kind = "parse_error" /\ Meant.kind = "parse_error"
              \/ \A i \in DOMAIN turn.calls :
                   /\ turn.calls[i].name = message.calls[i].name
                   /\ turn.calls[i].args = "empty" \/ sent[i] = message.calls[i].pieces
    /\ turn.kind = "act" =>
         \A i \in DOMAIN message.calls :
           message.calls[i].name \in Control => finish # "stop" /\ i \notin DOMAIN buffers

=============================================================================
