------------------------- MODULE ResponsesTranslator -------------------------
(***************************************************************************)
(* server/responses_translator.py: a coding agent's Responses turn over an Ollama   *)
(* chat. The lines of a backend become items, an assistant message and one item per *)
(* call; a call goes out in the shape its tool was declared in. The items come back *)
(* in the next turn's input, where they are the model's history.                    *)
(* Arguments are a shape and a text: shape says which JSON the text sits in ("one" a  *)
(* single key that may hold a patch), "raw" being no JSON at all; a text is "plain", "patch", "cmd" (itself the JSON of a     *)
(* command), "json" (any other JSON) or "js".                                       *)
(***************************************************************************)
EXTENDS Integers, Sequences, SequencesExt, FiniteSetsExt

CONSTANTS
    Offers,         \* what a request declares: [functions, custom]
    Lines,          \* [word, calls, done, reason]
    MaxLines

VARIABLES
    offer,      \* the request's tools
    lines,      \* what the backend has sent
    state,      \* ResponsesSSEState
    sent,       \* the events the client has
    history,    \* messages made of the items, when the client has sent them back
    ended       \* "open", "finished" or "failed"

vars == <<offer, lines, state, sent, history, ended>>

NoItem == -1

Init ==
    /\ offer \in Offers /\ lines = <<>> /\ history = <<>> /\ ended = "open"
    /\ state = [started |-> FALSE, item |-> NoItem, next |-> 0, words |-> <<>>, tools |-> <<>>]
    /\ sent = <<>>

-----------------------------------------------------------------------------
(* _tools_to_openai: functions of the default namespace are offered as they are, a  *)
(* custom tool as a function of one text, "input"; other namespaces are dropped.     *)

custom_names == offer.custom
known_names == offer.functions \cup offer.custom

\* (Of the names a custom tool's description declares, the request offers stubs, but
\* they are not among the known ones: a call of a stub is one of a nested tool.)

-----------------------------------------------------------------------------
(* A call and its item.                                                          *)

IsDict(args) == args.shape # "list"

\* A text that is not JSON is wrapped, under a key of its own.
_normalize_tool_args(args) == IF args.shape = "raw" THEN [args EXCEPT !.shape = "wrapped"] ELSE args

\* _repair_if_json_exec: the JSON of a command becomes the JavaScript that runs it.
Repaired(text) == IF text = "cmd" THEN "js" ELSE text

\* Mutant: the input is passed on as it is.
Unwrapped_AsIs(args) ==
    IF args.shape \in {"input", "one", "wrapped"} THEN args.text ELSE "json"
Unwrapped(args) ==
    CASE args.shape \in {"input", "one", "wrapped"} -> Repaired(args.text)
      [] args.shape = "cmd"                         -> "js"
      [] OTHER                                      -> "json"

\* redirect_apply_patch_call: a patch for a tool that is not there, by way of the shell.
PatchByShell(name, args) ==
    /\ name = "apply_patch" /\ name \notin known_names /\ "exec_command" \in known_names
    /\ args.shape \in {"input", "one", "cmd"} /\ args.text = "patch"

\* redirect_nested_tool_call: a tool inside the custom tool, called by its own name.
\* Mutant: a call of any name goes to the custom tool.
IsNested_Any(name, args) == known_names # {} /\ custom_names # {} /\ IsDict(args)
IsNested(name, args) ==
    /\ known_names # {} /\ custom_names # {} /\ name \notin known_names /\ IsDict(args)

Host == CHOOSE h \in custom_names : TRUE

FunctionCall(name, args) == [kind |-> "function_call", name |-> name, args |-> args]
CustomCall(name, text) ==
    [kind |-> "custom_tool_call", name |-> name, args |-> [shape |-> "none", text |-> text]]

Heredoc == [shape |-> "cmd", text |-> "json"]

\* build_responses_object: the shell's call is a function call, whatever exec_command is.
WholeItem(call) ==
    LET args == _normalize_tool_args(call.args)
    IN  CASE PatchByShell(call.name, args) -> FunctionCall("exec_command", Heredoc)
          [] IsNested(call.name, args)     -> CustomCall(Host, "js")
          [] call.name \in custom_names    -> CustomCall(call.name, Unwrapped(args))
          [] OTHER                         -> FunctionCall(call.name, args)

\* The stream's version of the same.
StreamItem(call) ==
    LET args == _normalize_tool_args(call.args)
        shell == PatchByShell(call.name, args)
        name == IF shell THEN "exec_command" ELSE call.name
        told == IF shell THEN Heredoc ELSE args
    IN  CASE IsNested(name, told)    -> CustomCall(Host, "js")
          [] name \in custom_names   -> CustomCall(name, Unwrapped(told))
          [] OTHER                   -> FunctionCall(name, told)

Message(words) == [kind |-> "message", name |-> "assistant", args |-> words]

-----------------------------------------------------------------------------
(* ollama_chunk_to_responses_events. x is the state and the events so far.          *)

Send(x, type, index, data) ==
    [x EXCEPT !.sent = Append(@, [type |-> type, index |-> index, data |-> data,
                                  seq |-> Len(@) + 1])]

Started(x) ==
    IF x.state.started THEN x
    ELSE Send(Send([x EXCEPT !.state.started = TRUE], "created", NoItem, <<>>),
              "in_progress", NoItem, <<>>)

Added(x, kind) == Send([x EXCEPT !.state.next = @ + 1], "item_added", x.state.next, kind)

Text(x, word) ==
    LET y == IF x.state.item # NoItem THEN x
             ELSE [Added(x, "message") EXCEPT !.state.item = x.state.next]
    IN  IF word = "" THEN x
        ELSE Send([y EXCEPT !.state.words = Append(@, word)], "delta", y.state.item, word)

\* _close_message_item: its text is every word so far, of earlier messages too.
\* Mutants: the item stays the open one; its words are forgotten.
MessageClosed_Reset(x) ==
    IF x.state.item = NoItem THEN x
    ELSE [Send(x, "item_done", x.state.item, Message(x.state.words))
            EXCEPT !.state.item = NoItem, !.state.words = <<>>]
MessageClosed_Open(x) ==
    IF x.state.item = NoItem THEN x
    ELSE Send(x, "item_done", x.state.item, Message(x.state.words))
MessageClosed(x) ==
    IF x.state.item = NoItem THEN x
    ELSE [Send(x, "item_done", x.state.item, Message(x.state.words)) EXCEPT !.state.item = NoItem]

ToolItem(x, call) ==
    LET i == x.state.next
        item == StreamItem(call)
    IN  Send(Send([Added(x, item.kind) EXCEPT !.state.tools = Append(@, item)],
                  "delta", i, item.args), "item_done", i, item)
Tools(x, calls) == IF calls = <<>> THEN x ELSE FoldLeft(ToolItem, MessageClosed(x), calls)

_map_status(reason) ==
    IF reason = "upstream_incomplete" THEN "failed"
    ELSE IF reason = "length" THEN "incomplete" ELSE "completed"

FinalOutput(x) ==
    (IF x.state.words = <<>> THEN <<>> ELSE <<Message(x.state.words)>>) \o x.state.tools

Done(x, line) ==
    LET y == MessageClosed(x)
        status == _map_status(line.reason)
    IN  IF ~line.done THEN x
        ELSE Send(y, IF status = "failed" THEN "failed" ELSE "completed", NoItem,
                  [status |-> status, output |-> FinalOutput(x)])

ollama_chunk_to_responses_events(x, line) ==
    Done(Tools(Text(Started(x), line.word), line.calls), line)

-----------------------------------------------------------------------------
(* The route's generator, and the client's next turn.                              *)

Emit(line) ==
    LET x == ollama_chunk_to_responses_events([state |-> state, sent |-> sent], line)
    IN  state' = x.state /\ sent' = x.sent

Line(line) ==
    /\ ended = "open" /\ Len(lines) < MaxLines
    /\ lines' = Append(lines, line) /\ Emit(line)
    /\ ended' = IF line.done THEN "finished" ELSE ended
    /\ UNCHANGED <<offer, history>>

\* responses_failure_events: the backend stopped, or raised. To a stream a last line
\* with the failure's reason; without streaming a 502.
FailureLine == [word |-> "", calls |-> <<>>, done |-> TRUE, reason |-> "upstream_incomplete"]
Broken ==
    /\ ended = "open" /\ Emit(FailureLine) /\ ended' = "failed"
    /\ UNCHANGED <<offer, lines, history>>

\* responses_input_to_messages, of the items of this answer: a custom call's text goes
\* back under "input", a function call's arguments as they were.
InputMessage(item) ==
    CASE item.kind = "message"          -> [role |-> "assistant", call |-> <<>>]
      [] item.kind = "custom_tool_call" ->
            [role |-> "assistant",
             call |-> <<[name |-> item.name, args |-> [shape |-> "input", text |-> item.args.text]]>>]
      [] OTHER -> [role |-> "assistant", call |-> <<[name |-> item.name, args |-> item.args]>>]

NextTurn ==
    /\ ended = "finished" /\ history = <<>> /\ FinalOutput([state |-> state]) # <<>>
    /\ history' = [i \in 1..Len(FinalOutput([state |-> state])) |->
                      InputMessage(FinalOutput([state |-> state])[i])]
    /\ UNCHANGED <<offer, lines, state, sent, ended>>

Next == Broken \/ NextTurn \/ \E line \in Lines : Line(line)

Spec == Init /\ [][Next]_vars

-----------------------------------------------------------------------------
(* Properties.                                                               *)

Words == SelectSeq([i \in 1..Len(lines) |-> lines[i].word], LAMBDA w : w # "")
AllCalls == FoldLeft(LAMBDA all, l : all \o l.calls, <<>>, lines)
WholeOutput ==
    (IF Words = <<>> THEN <<>> ELSE <<Message(Words)>>)
        \o [i \in 1..Len(AllCalls) |-> WholeItem(AllCalls[i])]
Last1 == sent[Len(sent)]

\* The response of the last event is the one a caller without streaming gets; the
\* two are built by separate code (responses_translator.py:943-1010 and 1246-1397).
\* It takes exec_command to be a function, as the agent declares it.
SameResponse ==
    ended = "finished" /\ "exec_command" \notin custom_names =>
        Last1.data = [status |-> _map_status(lines[Len(lines)].reason), output |-> WholeOutput]

\* A stream's items: numbered from 0, each added once and done once and no piece after
\* that, and one last event, which is response.failed just when the backend broke off.
ItemsWellFormed ==
    /\ \A i \in 1..Len(sent) : sent[i].type = "item_added" =>
           LET done == {j \in 1..Len(sent) : sent[j].type = "item_done" /\ sent[j].index = sent[i].index}
           IN  /\ sent[i].index = Cardinality({j \in 1..(i - 1) : sent[j].type = "item_added"})
               /\ Cardinality(done) <= 1 /\ (ended # "open" => done # {})
               /\ \A j \in done, k \in 1..Len(sent) :
                      k > j => ~(sent[k].type = "delta" /\ sent[k].index = sent[i].index)
    /\ ended = "open" <=> {i \in 1..Len(sent) : sent[i].type \in {"completed", "failed"}} = {}
    /\ ended # "open" => (Last1.type = "failed") = (ended = "failed")

\* No custom tool is called with a function call and no function with a custom call
\* (responses_translator.py:1260-1265), and a call the model repeats from its own
\* history gives the client the same item again.
DeclaredShape ==
    /\ \A i \in 1..Len(state.tools) :
           /\ state.tools[i].kind = "custom_tool_call" <=> state.tools[i].name \in custom_names
           /\ state.tools[i].kind = "custom_tool_call" => state.tools[i].args.text # "cmd"
    /\ \A i \in 1..Len(history) : history[i].call # <<>> =>
           \E j \in 1..Len(state.tools) : StreamItem(history[i].call[1]) = state.tools[j]
=============================================================================
