-------------------------- MODULE AnthropicMessages --------------------------
(***************************************************************************)
(* What server/anthropic_translator.py makes of a Messages conversation: the     *)
(* client sends its whole transcript with every request, and each time it is     *)
(* translated anew into the messages of an Ollama chat. The model server's       *)
(* prefix cache helps only if the next request begins with the same bytes.       *)
(* A text is a pair <<words, stamp>>: stamp is the fingerprint (cch=...) that    *)
(* Claude Code writes into its system text and changes with every request.       *)
(***************************************************************************)
EXTENDS Integers, Sequences, SequencesExt, FiniteSetsExt

CONSTANTS
    Said,           \* the contents of a user's turn besides tool results: block types
    MaxCalls,       \* calls in one assistant turn
    MaxTurns        \* turns of a conversation

VARIABLES
    conv,       \* the client's transcript
    calls,      \* ids of the calls that await their results
    fresh,      \* the next tool_use id
    request,    \* the messages of the last request, as Ollama gets them
    choice,     \* tool_choice of the last request
    kept        \* history: the request before the last, and its tool_choice

vars == <<conv, calls, fresh, request, choice, kept>>

Init ==
    /\ conv = <<>> /\ calls = {} /\ fresh = 1
    /\ request = <<>> /\ choice = "auto" /\ kept = <<<<>>, "auto">>

-----------------------------------------------------------------------------
(* The translation. A block is [type, id]: id is the call's for tool_use and     *)
(* tool_result, the stamp for the text of a system turn, 0 otherwise.            *)

\* The blocks of a type, in the order of the turn: the loop appends each to its list.
Blocks(msg, type) ==
    LET found[i \in 0..Len(msg.blocks)] ==
            IF i = 0 THEN <<>>
            ELSE IF msg.blocks[i].type = type THEN Append(found[i - 1], msg.blocks[i])
            ELSE found[i - 1]
    IN  found[Len(msg.blocks)]
Ids(blocks) == [i \in 1..Len(blocks) |-> blocks[i].id]

\* _normalize_cache_busting_tokens puts a fixed word in the place of every stamp.
Normalized(stamps) == [i \in 1..Len(stamps) |-> 0]

\* Thinking, and types the translator does not know, leave nothing behind.
Primary(msg) ==
    LET texts == Ids(Blocks(msg, "text"))
        images == Blocks(msg, "image")
        uses == Ids(Blocks(msg, "tool_use"))
    IN  IF texts = <<>> /\ images = <<>> /\ uses = <<>> THEN <<>>
        ELSE <<[role |-> msg.role, text |-> IF msg.role = "system" THEN Normalized(texts) ELSE texts,
                images |-> Len(images), calls |-> uses]>>

Results(msg) ==
    LET results == Ids(Blocks(msg, "tool_result"))
    IN  [i \in 1..Len(results) |->
            [role |-> "tool", text |-> <<results[i]>>, images |-> 0, calls |-> <<>>]]

\* Mutant: every result after the whole conversation (the line's indentation).
Translated_ResultsLast(msgs) ==
    FlattenSeq([i \in 1..Len(msgs) |-> Primary(msgs[i])])
        \o FlattenSeq([i \in 1..Len(msgs) |-> Results(msgs[i])])
Translated(msgs) == FlattenSeq([i \in 1..Len(msgs) |-> Primary(msgs[i]) \o Results(msgs[i])])

\* anthropic_system_to_text and apply_tool_choice: "any" and "tool" add a sentence.
\* Mutant: the system prompt goes out with its fingerprint.
System_Stamped(stamp, c) ==
    <<[role |-> "system", text |-> <<stamp, c \in {"any", "tool"}>>, images |-> 0, calls |-> <<>>]>>
System(stamp, c) ==
    <<[role |-> "system", text |-> <<0, c \in {"any", "tool"}>>, images |-> 0, calls |-> <<>>]>>

anthropic_to_ollama_messages(msgs, stamp, c) == System(stamp, c) \o Translated(msgs)

-----------------------------------------------------------------------------
(* The client, Claude Code: every turn is a request with a fresh stamp.          *)

Block(type, id) == [type |-> type, id |-> id]

Send(turn, c) ==
    /\ Len(conv) < MaxTurns
    /\ conv' = Append(conv, turn) /\ choice' = c
    /\ request' = anthropic_to_ollama_messages(conv', Len(conv'), c)
    /\ kept' = <<request, choice>>

\* The results of the calls that wait, with words or a picture before or after them.
UserTurn(before, after, c) ==
    /\ before # <<>> \/ after # <<>> \/ calls # {}
    /\ Send([role |-> "user",
             blocks |-> before \o [i \in 1..Cardinality(calls) |->
                                     Block("tool_result", Min(calls) + i - 1)] \o after], c)
    /\ calls' = {} /\ UNCHANGED fresh

\* The model's answer joins the transcript, and is sent with the next turn.
AssistantTurn(words, n) ==
    /\ calls = {} /\ Len(conv) > 0 /\ conv[Len(conv)].role # "assistant"
    /\ Len(words) + n > 0 /\ Len(conv) < MaxTurns
    /\ conv' = Append(conv, [role |-> "assistant",
                             blocks |-> words \o [i \in 1..n |-> Block("tool_use", fresh + i - 1)]])
    /\ calls' = fresh..(fresh + n - 1) /\ fresh' = fresh + n
    /\ UNCHANGED <<request, choice, kept>>

\* A system turn inside messages[] carries the stamp of the request it came with.
SystemTurn(c) ==
    /\ calls = {} /\ Len(conv) > 0
    /\ Send([role |-> "system", blocks |-> <<Block("text", Len(conv) + 1)>>], c)
    /\ UNCHANGED <<calls, fresh>>

\* Claude Code writes the stamp anew everywhere: also in the system turns that are
\* already in the transcript.
Restamp(c) ==
    /\ \E i \in 1..Len(conv) : conv[i].role = "system" /\ conv[i].blocks[1].id # Len(conv) + 1
    /\ conv' = [i \in 1..Len(conv) |->
                   IF conv[i].role = "system"
                   THEN [conv[i] EXCEPT !.blocks[1].id = Len(conv) + 1] ELSE conv[i]]
    /\ choice' = c /\ request' = anthropic_to_ollama_messages(conv', Len(conv) + 1, c)
    /\ kept' = <<request, choice>>
    /\ UNCHANGED <<calls, fresh>>

Maybe == {<<>>} \cup {<<Block(t, 0)>> : t \in Said}

Next ==
    \/ \E before, after \in Maybe, c \in {"auto", "any"} : UserTurn(before, after, c)
    \/ \E words \in Maybe, n \in 0..MaxCalls : AssistantTurn(words, n)
    \/ \E c \in {"auto", "any"} : SystemTurn(c) \/ Restamp(c)

Spec == Init /\ [][Next]_vars

-----------------------------------------------------------------------------
(* Properties.                                                               *)

\* anthropic_translator.py:261-264, "Tool results follow the assistant's tool_use
\* turn": the last assistant message before a tool message is the one that holds
\* its call, and every call that was answered is answered once.
ResultsFollowCalls ==
    \A i \in 1..Len(request) :
        request[i].role = "tool" =>
            LET asked == {j \in 1..(i - 1) : request[j].role = "assistant" /\ request[j].calls # <<>>}
            IN  /\ asked # {} /\ request[i].text[1] \in ToSet(request[Max(asked)].calls)
                /\ \A k \in (i + 1)..Len(request) :
                       request[k].role = "tool" => request[k].text # request[i].text

\* The fingerprint and later turns change nothing before them: while tool_choice
\* stays, a request of the conversation begins with all of the one before
\* (anthropic_translator.py:84-92 and 246-251). With no words in a system turn's
\* text but its stamp, this holds for system turns inside messages[] too.
PrefixKept ==
    kept[1] # <<>> /\ kept[2] = choice => IsPrefix(kept[1], request)

-----------------------------------------------------------------------------
(* What the proofs of the properties rest on.                                *)

Turns ==
    [role : {"user", "assistant", "system"},
     blocks : Seq([type : Said \cup {"text", "tool_use", "tool_result"}, id : Nat])]

\* A system turn is one text.
TurnsTyped ==
    /\ conv \in Seq(Turns)
    /\ \A i \in 1..Len(conv) :
           conv[i].role = "system" => conv[i].blocks = <<Block("text", conv[i].blocks[1].id)>>

\* What was sent last is the transcript up to a turn, and after it nothing was.
RequestSent ==
    LET all == Translated(conv)
    IN  request # <<>> =>
            \E n \in 0..Len(all) : request = System(0, choice) \o SubSeq(all, 1, n)

\* A result's call is in the last message before it that has calls, and results are of
\* different calls, none of them waiting; the calls that wait are in the last message that
\* has any, and are the latest ids.
Asks(m) == m.role = "assistant" /\ m.calls # <<>>
Answered(all, waiting, next) ==
    /\ next \in Nat /\ \E c \in 1..next : waiting = c..(next - 1)
    /\ waiting # {} =>
           \E j \in 1..Len(all) : /\ Asks(all[j]) /\ waiting \subseteq ToSet(all[j].calls)
                                  /\ \A k \in (j + 1)..Len(all) : ~Asks(all[k])
    /\ \A i \in 1..Len(all) :
           all[i].role = "tool" =>
               /\ \E id \in (1..(next - 1)) \ waiting : all[i].text = <<id>>
               /\ \E j \in 1..(i - 1) : /\ Asks(all[j]) /\ all[i].text[1] \in ToSet(all[j].calls)
                                        /\ \A k \in (j + 1)..(i - 1) : ~Asks(all[k])
               /\ \A k \in (i + 1)..Len(all) :
                      all[k].role = "tool" => all[k].text # all[i].text
CallsAnswered == Answered(Translated(conv), calls, fresh)
=============================================================================
