--------------------------- MODULE AnthropicStream ---------------------------
(***************************************************************************)
(* One answer on its way to an Anthropic client: the lines of a backend, an        *)
(* Ollama server (anthropic_translator.py) or mlx_lm.server (mlx_proxy.py), and      *)
(* the events each becomes. The other form of the same answer, one JSON body          *)
(* collected from the same lines, is Whole.                                          *)
(* A text is a sequence of words; "stop" is the client's stop sequence.               *)
(***************************************************************************)
EXTENDS Integers, Sequences, SequencesExt

CONSTANTS
    OllamaLines,    \* [word, calls, done, reason]
    MlxLines,       \* [word, thought, parts, finish]
    MaxLines

VARIABLES
    backend,    \* "ollama" or "mlx"
    lines,      \* what the backend has sent
    state,      \* AnthropicSSEState
    tools,      \* MLX's tools_state: started tools, in the order they came
    sent,       \* the events the client has
    ended       \* "open", "finished" or "failed"

vars == <<backend, lines, state, tools, sent, ended>>

NoBlock == -1

Init ==
    /\ backend \in {"ollama", "mlx"} /\ lines = <<>>
    /\ state = [started |-> FALSE, text |-> NoBlock, next |-> 0, emitted |-> 0, reason |-> ""]
    /\ tools = <<>> /\ sent = <<>> /\ ended = "open"

-----------------------------------------------------------------------------
(* The events. x is what a line works on: state, tools and events so far.        *)

Ev(type, block, data) == <<[type |-> type, block |-> block, data |-> data]>>
Send(x, type, block, data) == [x EXCEPT !.sent = @ \o Ev(type, block, data)]

MessageStart(x) ==
    IF x.state.started THEN x
    ELSE Send([x EXCEPT !.state.started = TRUE], "message_start", NoBlock, "")

\* The index of a new block is taken, and its start sent.
Opened(x, kind) ==
    Send([x EXCEPT !.state.next = @ + 1], "block_start", x.state.next, kind)

Text(x, word) ==
    LET y == IF x.state.text # NoBlock THEN x
             ELSE [Opened(x, "text") EXCEPT !.state.text = x.state.next]
    IN  IF word = "" THEN x ELSE Send(y, "delta", y.state.text, word)

\* Mutant: the block is not marked closed.
TextClosed_Forgotten(x) ==
    IF x.state.text = NoBlock THEN x ELSE Send(x, "block_stop", x.state.text, "")
TextClosed(x) ==
    IF x.state.text = NoBlock THEN x
    ELSE [Send(x, "block_stop", x.state.text, "") EXCEPT !.state.text = NoBlock]

MessageStop(x, reason) ==
    Send(Send([x EXCEPT !.state.reason = reason], "message_delta", NoBlock, reason),
         "message_stop", NoBlock, "")

-----------------------------------------------------------------------------
(* Ollama: whole calls, and a last line with done.                               *)

StopReason(reason, called, matched) ==
    IF called THEN "tool_use" ELSE IF reason = "length" THEN "max_tokens"
    ELSE IF matched THEN "stop_sequence" ELSE "end_turn"

\* Arguments that are a JSON text are parsed; a text that is not JSON is kept as _raw.
Parsed(args) == IF args = "json" THEN "object" ELSE IF args = "broken" THEN "raw" ELSE args

Call(x, call) ==
    LET i == x.state.next
    IN  [Send(Send(Opened(x, call.name), "delta", i, Parsed(call.args)), "block_stop", i, "")
            EXCEPT !.state.emitted = @ + 1]
Calls(x, calls) == IF calls = <<>> THEN x ELSE FoldLeft(Call, TextClosed(x), calls)

\* Mutant: the reason looks at the last line's calls only.
Done_LastLine(x, line) ==
    IF ~line.done THEN x
    ELSE MessageStop(TextClosed(x), StopReason(line.reason, line.calls # <<>>, FALSE))
Done(x, line) ==
    IF ~line.done THEN x
    ELSE MessageStop(TextClosed(x), StopReason(line.reason, x.state.emitted > 0, FALSE))

ollama_chunk_to_anthropic_events(x, line) ==
    Done(Calls(Text(MessageStart(x), line.word), line.calls), line)

-----------------------------------------------------------------------------
(* MLX: calls in parts, [index, name, piece] with the name in the first one, and    *)
(* a finish_reason. A block of a call stays open until then.                       *)

StartedTool(x, index) == \E i \in 1..Len(x.tools) : x.tools[i].index = index
Part(x, part) ==
    LET y == TextClosed(x)
        z == IF StartedTool(x, part.index) THEN x
             ELSE [Opened(y, part.name) EXCEPT
                      !.tools = Append(@, [index |-> part.index, block |-> y.state.next])]
        mine == SelectSeq(z.tools, LAMBDA t : t.index = part.index)
    IN  Send(z, "delta", mine[1].block, part.piece)

ToolsClosed(x) ==
    FoldLeft(LAMBDA y, t : Send(y, "block_stop", t.block, ""), x, x.tools)

\* Mutant: the calls' blocks stay open.
Finish_Open(x, finish) ==
    IF finish = "" THEN x
    ELSE MessageStop(TextClosed(x), IF finish = "tool_calls" THEN "tool_use"
                                    ELSE IF finish = "length" THEN "max_tokens" ELSE "end_turn")
Finish(x, finish) ==
    IF finish = "" THEN x
    ELSE MessageStop(TextClosed(ToolsClosed(x)),
                     IF finish = "tool_calls" THEN "tool_use"
                     ELSE IF finish = "length" THEN "max_tokens" ELSE "end_turn")

\* What a model thinks is text like any other here.
openai_sse_to_anthropic_events(x, line) ==
    Finish(FoldLeft(Part, Text(MessageStart(x), IF line.word # "" THEN line.word ELSE line.thought),
                    line.parts), line.finish)

-----------------------------------------------------------------------------
(* The route's generator.                                                    *)

IsLast(line) == IF backend = "ollama" THEN line.done ELSE line.finish # ""

\* A backend sends nothing after its last line, and a call's name only once.
Plausible(line) ==
    backend = "mlx" => \A i \in 1..Len(line.parts) :
        (line.parts[i].name = "") <=>
            \/ \E t \in ToSet(tools) : t.index = line.parts[i].index
            \/ \E j \in 1..(i - 1) : line.parts[j].index = line.parts[i].index

Line(line) ==
    LET x == [state |-> state, tools |-> tools, sent |-> sent]
        y == IF backend = "ollama" THEN ollama_chunk_to_anthropic_events(x, line)
             ELSE openai_sse_to_anthropic_events(x, line)
    IN  /\ ended = "open" /\ Len(lines) < MaxLines /\ Plausible(line)
        /\ lines' = Append(lines, line)
        /\ state' = y.state /\ tools' = y.tools /\ sent' = y.sent
        /\ ended' = IF IsLast(line) THEN "finished" ELSE ended
        /\ UNCHANGED backend

\* The backend stopped or failed without a last line: an error, never a message_stop.
Broken ==
    /\ ended = "open"
    /\ sent' = sent \o Ev("error", NoBlock, "") /\ ended' = "failed"
    /\ UNCHANGED <<backend, lines, state, tools>>

Next ==
    \/ Broken
    \/ backend = "ollama" /\ \E line \in OllamaLines : Line(line)
    \/ backend = "mlx" /\ \E line \in MlxLines : Line(line)

Spec == Init /\ [][Next]_vars

-----------------------------------------------------------------------------
(* The one body: accumulate_anthropic_response, and for MLX                        *)
(* _collect_openai_stream with build_anthropic_non_streaming_response.              *)

Words(field(_)) == SelectSeq([i \in 1..Len(lines) |-> field(lines[i])], LAMBDA w : w # "")
Flat(seqs) == FoldLeft(LAMBDA all, s : all \o s, <<>>, seqs)

OllamaWhole ==
    LET text == Words(LAMBDA l : l.word)
        uses == Flat([i \in 1..Len(lines) |-> lines[i].calls])
    IN  [text |-> text,
         uses |-> {<<uses[i].name, <<Parsed(uses[i].args)>>>> : i \in 1..Len(uses)},
         reason |-> StopReason(lines[Len(lines)].reason, uses # <<>>,
                               text # <<>> /\ text[Len(text)] = "stop")]

MlxWhole ==
    LET parts == Flat([i \in 1..Len(lines) |-> lines[i].parts])
        Of(index) == SelectSeq(parts, LAMBDA p : p.index = index)
        finish == lines[Len(lines)].finish
    IN  [text |-> Words(LAMBDA l : l.word),
         uses |-> {<<Of(p.index)[1].name,
                     [i \in 1..Len(Of(p.index)) |-> Of(p.index)[i].piece]>> : p \in ToSet(parts)},
         reason |-> IF finish = "tool_calls" THEN "tool_use"
                    ELSE IF finish = "length" THEN "max_tokens" ELSE "end_turn"]

Whole == IF backend = "ollama" THEN OllamaWhole ELSE MlxWhole

-----------------------------------------------------------------------------
(* Properties.                                                               *)

Starts == {i \in 1..Len(sent) : sent[i].type = "block_start"}
Pieces(i) == SelectSeq(sent, LAMBDA e : e.type = "delta" /\ e.block = sent[i].block)
Data(events) == [i \in 1..Len(events) |-> events[i].data]
Thoughts == {l.thought : l \in MlxLines}

\* What a client puts together from the events is the body it would have had
\* without streaming, for texts, calls and stop reason; but an Ollama stream never
\* says stop_sequence (anthropic_translator.py:518-522), and an MLX stream gives
\* thoughts as text, where the body keeps them apart.
SameAnswer ==
    ended = "finished" =>
        /\ SelectSeq(Data(SelectSeq(sent, LAMBDA e :
               e.type = "delta" /\ \E i \in Starts : sent[i].block = e.block /\ sent[i].data = "text")),
               LAMBDA w : w \notin Thoughts \/ backend = "ollama") = Whole.text
        /\ {<<sent[i].data, Data(Pieces(i))>> : i \in {j \in Starts : sent[j].data # "text"}} = Whole.uses
        /\ state.reason = IF Whole.reason = "stop_sequence" THEN "end_turn" ELSE Whole.reason

\* The events of a message: one start first, blocks numbered from 0 and each opened
\* before its pieces and closed once after them, and a stop last, never after an
\* error. Ollama's blocks, one at a time; MLX's calls may stay open side by side.
WellFormed ==
    /\ \A i \in 1..Len(sent) : (sent[i].type = "message_start") => i = 1
    /\ \A i \in Starts :
           LET stops == {j \in 1..Len(sent) : sent[j].type = "block_stop" /\ sent[j].block = sent[i].block}
           IN  /\ sent[i].block = Len(SelectSeq(SubSeq(sent, 1, i - 1), LAMBDA e : e.type = "block_start"))
               /\ \A j, k \in stops : j = k
               /\ ended = "finished" => stops # {}
               /\ \A j \in stops : j > i /\ \A k \in (j + 1)..Len(sent) :
                                        ~(sent[k].type = "delta" /\ sent[k].block = sent[i].block)
               /\ backend = "ollama" => \A j \in Starts : i < j => \E k \in stops : k < j
    /\ \A i \in 1..Len(sent) :
           sent[i].type \in {"message_stop", "error"} => i = Len(sent)
    /\ ended = "failed" => sent[Len(sent)].type = "error"
=============================================================================
