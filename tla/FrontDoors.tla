------------------------------ MODULE FrontDoors ------------------------------
(***************************************************************************)
(* Requests through the four chat doors (server/routes/ollama_compat.py,              *)
(* openai_compat.py, anthropic_compat.py and responses_compat.py) that Ollama serves:   *)
(* the route, the queue it waits in, and StreamingProxy's generator that reads one node   *)
(* after another, writes the trace rows and keeps two tables the routes empty.             *)
(* How the node is chosen is Routing, what a line becomes is AnthropicStream and          *)
(* ResponsesTranslator; here a line is some output, or the one that says done.             *)
(***************************************************************************)
EXTENDS Integers, Sequences

CONSTANTS
    Asks,           \* the requests there are: [door, stream]
    MaxRetries      \* settings.max_retries

VARIABLES
    asked,      \* the request; the tables and the rows have entries of each its own
    pc,         \* new, queued, streaming, cut, ended
    seen,       \* what the node sent: "nothing", "some", "done", "empty"
    tokens,     \* it has an entry in StreamingProxy._request_tokens
    meta,       \* it has one in StreamingProxy._request_meta
    rows,       \* its trace rows: [status, counted]
    answer      \* what the client was told last

vars == <<asked, pc, seen, tokens, meta, rows, answer>>

Init ==
    /\ asked \in Asks /\ pc = "new" /\ seen = "nothing"
    /\ tokens = FALSE /\ meta = FALSE /\ rows = <<>> /\ answer = "none"

Door == asked.door
Streams == asked.stream
Done == seen \in {"done", "empty"}

\* The two doors that choose the model themselves, and that clean up in a finally.
Maps == Door \in {"anthropic", "responses"}

Ended(told) == pc' = "ended" /\ answer' = told

\* A row is written with the counts the table holds at that moment.
Row(status) == rows' = Append(rows, [status |-> status, counted |-> tokens])

-----------------------------------------------------------------------------
(* Before a node is read.                                                        *)

\* resolve_model found no model for the name asked: answered before there is a request.
Unmapped ==
    /\ pc = "new" /\ Maps /\ Ended("404")
    /\ UNCHANGED <<seen, tokens, meta, rows>>

\* No node, online or not, has the model or a fallback of it.
Missing ==
    /\ pc = "new" /\ Ended("404")
    /\ Row("rejected") /\ UNCHANGED <<seen, tokens, meta>>

\* A node has it, and none would take the request.
Rejected ==
    /\ pc = "new" /\ Ended("503")
    /\ Row("rejected") /\ UNCHANGED <<seen, tokens, meta>>

\* The queue has as many requests of this client as it may have.
TooMany ==
    /\ pc = "new" /\ Ended("429") /\ UNCHANGED <<seen, tokens, meta, rows>>

Enqueued ==
    /\ pc = "new" /\ pc' = "queued"
    /\ UNCHANGED <<seen, tokens, meta, rows, answer>>

\* dispatched_stream looks twice a second whether the client is still there.
LeavesQueue ==
    /\ pc = "queued" /\ Ended("gone")
    /\ Row("client_disconnected") /\ UNCHANGED <<seen, tokens, meta>>

Dispatched ==
    /\ pc = "queued" /\ pc' = "streaming"
    /\ answer' = "open" /\ UNCHANGED <<seen, tokens, meta, rows>>

-----------------------------------------------------------------------------
(* The stream.                                                                   *)

Line ==
    /\ pc = "streaming" /\ seen = "nothing" /\ seen' = "some"
    /\ UNCHANGED <<pc, tokens, meta, rows, answer>>

DoneLine ==
    /\ pc = "streaming" /\ ~Done
    /\ \E last \in {"done", "empty"} : seen' = last
    /\ tokens' = TRUE /\ meta' = TRUE
    /\ UNCHANGED <<pc, rows, answer>>

\* Mutant: a stream that ends without its last line is finished like any other.
Concluded_Synthesized ==
    IF Door = "ollama" /\ ~Done /\ Streams THEN "torn" ELSE "finished"

\* The Ollama doors pass lines on as they are; the one that collects answers with what it has.
OllamaConcluded == IF Streams /\ ~Done THEN "torn" ELSE "finished"

\* The doors that translate look for the last line.
TranslatedConcluded == IF Done THEN "finished" ELSE IF Streams THEN "error" ELSE "502"

\* What the route makes of a stream that is over: finished with the last line, or not.
Concluded == IF Door = "ollama" THEN OllamaConcluded ELSE TranslatedConcluded

\* The entry of meta is left there by an OpenAI route, unless it collected an answer.
MetaLeft == Door = "openai" /\ (Streams \/ ~Done) /\ meta

\* Mutant: a stream without its last line is finished too.
Status_Any == IF seen = "empty" THEN "no_output" ELSE "completed"

\* _finish_stream: done is what the table of counts says.
Status == IF ~tokens THEN "incomplete"
          ELSE IF seen = "empty" THEN "no_output" ELSE "completed"

\* Mutant: the route takes the counts before the row is written.
Over_PopsFirst ==
    /\ pc = "streaming" /\ Ended(Concluded)
    /\ rows' = Append(rows, [status |-> Status, counted |-> FALSE])
    /\ tokens' = FALSE /\ meta' = MetaLeft /\ UNCHANGED seen

\* The generator ends, and the route after it.
Over ==
    /\ pc = "streaming" /\ Ended(Concluded) /\ Row(Status)
    /\ tokens' = FALSE /\ meta' = MetaLeft /\ UNCHANGED seen

\* A refusal of the request is passed through as it came by the doors that collect.
Failed(code) ==
    IF Streams THEN IF Door = "ollama" THEN "torn" ELSE "error"
    ELSE IF Door = "ollama" THEN "500" ELSE IF code = "4xx" THEN "4xx" ELSE "502"

\* The node fails for good: after its first line, in a way another would fail as well, or
\* once too often.
Raises ==
    /\ pc = "streaming" /\ Row("failed")
    /\ \E code \in {"4xx", "5xx"} : Ended(Failed(code))
    /\ tokens' = (tokens /\ ~Maps /\ ~(Door = "openai" /\ Streams)) /\ meta' = (meta /\ ~Maps)
    /\ UNCHANGED seen

\* It fails before its first line and may be tried again elsewhere; a row says so, one for
\* every retry so far.
MayRetry == pc = "streaming" /\ seen = "nothing" /\ Len(rows) < MaxRetries /\ Row("retried")

Retry == MayRetry /\ UNCHANGED <<pc, seen, tokens, meta, answer>>

\* No other node takes it: the request fails, and the row of the attempt is its last.
NoNodeLeft == MayRetry /\ Ended(Failed("5xx")) /\ UNCHANGED <<seen, tokens, meta>>

-----------------------------------------------------------------------------
(* The client leaves. A route that collects is not told and runs to its end.       *)

\* Mutant: the tables are emptied after the stream only, and not in a finally.
Cancelled_NoFinally ==
    /\ pc = "streaming" /\ Streams /\ Ended("gone")
    /\ Row("client_disconnected")
    /\ tokens' = FALSE /\ UNCHANGED <<seen, meta>>

\* The generator awaits the node: it is cancelled there, and the route around it next.
Cancelled ==
    /\ pc = "streaming" /\ Streams /\ Ended("gone")
    /\ Row("client_disconnected")
    /\ tokens' = FALSE /\ meta' = (meta /\ ~Maps)
    /\ UNCHANGED seen

\* A line is on its way to the client: the route's generator is closed from outside ...
Cut ==
    /\ pc = "streaming" /\ Streams /\ seen # "nothing"
    /\ pc' = "cut" /\ answer' = "gone"
    /\ tokens' = (tokens /\ ~Maps) /\ meta' = (meta /\ ~Maps)
    /\ UNCHANGED <<seen, rows>>

\* Mutant: only an awaiting generator writes its row.
Closed_Silent ==
    /\ pc = "cut" /\ pc' = "ended"
    /\ tokens' = FALSE /\ UNCHANGED <<seen, meta, rows, answer>>

\* ... and StreamingProxy's inside it later.
Closed ==
    /\ pc = "cut" /\ pc' = "ended"
    /\ Row("client_disconnected") /\ tokens' = FALSE
    /\ UNCHANGED <<seen, meta, answer>>

Next == /\ UNCHANGED asked
        /\ \/ Unmapped \/ Missing \/ Rejected \/ TooMany \/ Enqueued \/ LeavesQueue \/ Dispatched
           \/ Line \/ DoneLine \/ Over \/ Raises \/ Retry \/ NoNodeLeft
           \/ Cancelled \/ Cut \/ Closed

Spec == Init /\ [][Next]_vars
-----------------------------------------------------------------------------

\* A client is told that the answer is finished only when the node said so, on the three
\* doors that translate.
OnlyFinishedIsFinished ==
    answer = "finished" /\ Door # "ollama" => Done

\* The same of every door, as CHANGELOG.md says of every surface: the Ollama door that
\* collects answers 200 and done to whatever it has.
TruncationTold == answer = "finished" => Done

\* What became of a request is written once, after a row for every attempt that was tried
\* again. It says completed only of an answer the node finished, with its counts; of one that
\* was cut short it never does, whichever of the two generators heard of it first. Only when
\* the nodes run out before the attempts do is there no such row, but one of a retry that
\* never was: what the comment at streaming.py:600 has the failed row for, "left only
\* "retried" rows and no failure", this end still leaves.
TruthfulRows ==
    LET last == rows[Len(rows)] IN
    /\ \A i \in 1..Len(rows) - 1 : rows[i].status = "retried"
    /\ Len(rows) <= MaxRetries + 1
    /\ pc = "ended" /\ answer \notin {"404", "429"} => rows # <<>>
    /\ pc = "ended" /\ rows # <<>> /\ last.status = "retried"
       => seen = "nothing" /\ answer \in {"torn", "error", "500", "502"}
    /\ rows # <<>> /\ last.status \in {"completed", "no_output"} => Done /\ last.counted
    /\ rows # <<>> /\ last.status \in {"failed", "incomplete", "client_disconnected"}
       /\ Door # "ollama" => answer # "finished"

\* The tables are as large as the requests in progress at the two doors that empty them
\* in a finally, however a request ends. (An OpenAI stream leaves its entry in meta, and an
\* Ollama stream whose client left after the last line does.)
TablesDrained == Maps /\ pc \in {"ended", "cut"} => ~tokens /\ ~meta

-----------------------------------------------------------------------------
(* What the proofs of the properties rest on.                                *)

\* What a row may say.
Statuses == {"rejected", "client_disconnected", "retried", "failed", "incomplete",
             "no_output", "completed"}

\* Only retries are written before the end, and none once there was a line; while lines are
\* read the tables say whether the last one came.
RowAtTheEnd ==
    /\ pc \in {"new", "queued", "streaming", "cut", "ended"}
    /\ tokens \in BOOLEAN /\ meta \in BOOLEAN
    /\ rows \in Seq([status : Statuses, counted : BOOLEAN])
    /\ pc # "ended" =>
        /\ \A i \in 1..Len(rows) : rows[i].status = "retried"
        /\ Len(rows) <= MaxRetries
    /\ pc \in {"new", "queued"} =>
        ~tokens /\ ~meta /\ seen = "nothing" /\ answer = "none" /\ rows = <<>>
    /\ pc = "streaming" => answer = "open" /\ (tokens <=> Done) /\ (meta => Done)
    /\ pc = "cut" => answer = "gone"
=============================================================================
