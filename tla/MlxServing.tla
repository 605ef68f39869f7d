------------------------------ MODULE MlxServing ------------------------------
(***************************************************************************)
(* A request that mlx_lm.server answers: _serve_via_mlx of the Anthropic door,           *)
(* _serve_openai_via_mlx of the OpenAI one, and MlxProxy's two calls under them           *)
(* (server/mlx_proxy.py), which take the server's address, a slot (MlxAdmission has the    *)
(* queue for one) and the server's lines.                                                  *)
(* A stream's route takes the slot itself, before the answer starts; the other call takes   *)
(* and gives it back inside. Both leave the token counts in a table the routes empty.        *)
(***************************************************************************)
EXTENDS Integers, Sequences

CONSTANT Asks           \* the requests there are: [door, stream]

VARIABLES
    asked,      \* the request
    up,         \* a node says it has a healthy server of the model
    pc,         \* new, waiting, held, reading, ended
    got,        \* the server's lines so far, see below
    slot,       \* the request has a slot
    counts,     \* it has an entry in _mlx_request_tokens
    tally,      \* of _completed, _failed and _rejected, those that counted it
    rows,       \* its trace rows: [status, counted]
    answer      \* what the client was told last

vars == <<asked, up, pc, got, slot, counts, tally, rows, answer>>

\* The lines in the order the server sends them: output, the one with the finish_reason,
\* the usage, [DONE]. It may stop after any.
Nothing == 0
Output == 1
Reason == 2
Usage == 3
Last == 4

Door == asked.door
Streams == asked.stream

Init ==
    /\ asked \in Asks /\ up \in BOOLEAN /\ pc = "new" /\ got = Nothing
    /\ slot = FALSE /\ counts = FALSE /\ tally = {} /\ rows = <<>> /\ answer = "none"

\* The heartbeats of the nodes come and go.
Server == up' = ~up /\ UNCHANGED <<asked, pc, got, slot, counts, tally, rows, answer>>

Ended(told) == pc' = "ended" /\ answer' = told
Row(status, counted) == rows' = Append(rows, [status |-> status, counted |-> counted])

-----------------------------------------------------------------------------
(* Up to the server's answer.                                                    *)

\* The route asks for the address first; without one there is no row, only a 503.
Gate ==
    /\ pc = "new" /\ ~up /\ Ended("503")
    /\ UNCHANGED <<got, slot, counts, tally, rows>>

\* The address is asked for again: by the collecting call before it waits for the slot, ...
Waits ==
    /\ pc = "new" /\ up /\ pc' = "waiting"
    /\ UNCHANGED <<got, slot, counts, tally, rows, answer>>

Refused ==
    /\ pc = "waiting" /\ Ended("503") /\ tally' = {"rejected"} /\ Row("failed", FALSE)
    /\ UNCHANGED <<got, slot, counts>>

Admitted ==
    /\ pc = "waiting" /\ slot' = TRUE /\ pc' = IF Streams THEN "held" ELSE "reading"
    /\ UNCHANGED <<got, counts, tally, rows, answer>>

\* ... by the stream's when it has it. It may be gone by then, and no counter hears of it.
Finds ==
    /\ pc = "held" /\ up /\ pc' = "reading"
    /\ UNCHANGED <<got, slot, counts, tally, rows, answer>>
Unfound ==
    /\ pc = "held" /\ ~up /\ Ended("error") /\ slot' = FALSE /\ Row("failed", FALSE)
    /\ UNCHANGED <<got, counts, tally>>

\* A line. The Anthropic stream puts the usage in the table as it passes.
Line ==
    /\ pc = "reading" /\ got < Last /\ got' = got + 1
    /\ counts' = (counts \/ (Streams /\ Door = "anthropic" /\ got' = Usage))
    /\ UNCHANGED <<pc, slot, tally, rows, answer>>

-----------------------------------------------------------------------------
(* The ends.                                                                     *)

\* What each stream takes for the end of a whole answer.
Whole == IF Door = "anthropic" THEN got >= Reason ELSE got = Last

\* Mutant: whatever was streamed is whole, as the Anthropic door once had it.
StreamOver_Synthesized ==
    /\ pc = "reading" /\ Streams /\ slot' = FALSE /\ counts' = FALSE
    /\ tally' = {"completed"} /\ Ended("finished")
    /\ Row("completed", FALSE) /\ UNCHANGED got

\* Mutant: the slot is given back when the answer is whole.
StreamOver_KeepsSlot ==
    /\ pc = "reading" /\ Streams /\ slot' = ~Whole /\ counts' = FALSE
    /\ tally' = {"completed"}
    /\ Ended(IF Whole THEN "finished" ELSE "error")
    /\ Row(IF Whole THEN "completed" ELSE "incomplete", FALSE) /\ UNCHANGED got

\* The stream ends. MlxProxy counts it as completed whatever it had; the route empties
\* the table before the row is written, so no row of a stream has counts.
StreamOver ==
    /\ pc = "reading" /\ Streams /\ slot' = FALSE /\ counts' = FALSE
    /\ tally' = {"completed"}
    /\ Ended(IF Whole THEN "finished" ELSE "error")
    /\ Row(IF Whole THEN "completed" ELSE "incomplete", FALSE) /\ UNCHANGED got

\* The collected answer is answered as finished whatever it had. Only the Anthropic door's
\* row is written before the table is emptied.
Collected ==
    /\ pc = "reading" /\ ~Streams /\ slot' = FALSE /\ tally' = {"completed"}
    /\ Ended("finished") /\ Row("completed", Door = "anthropic" /\ got >= Usage)
    /\ UNCHANGED <<got, counts>>

\* Mutant: two rows, one where it failed and one where it ends.
Raises_Twice ==
    /\ pc = "reading" /\ slot' = FALSE /\ counts' = FALSE /\ tally' = {"failed"}
    /\ Ended(IF Streams THEN "error" ELSE "502")
    /\ rows' = Append(Append(rows, [status |-> "failed", counted |-> FALSE]),
                      [status |-> "completed", counted |-> FALSE])
    /\ UNCHANGED got

\* The call fails, or has taken longer than the wall clock allows.
Raises ==
    /\ pc = "reading" /\ slot' = FALSE /\ counts' = FALSE /\ tally' = {"failed"}
    /\ \E why \in {"4xx", "5xx", "time"} :
         Ended(IF Streams THEN "error"
               ELSE IF why = "4xx" THEN "4xx"
               ELSE IF why = "time" /\ Door = "anthropic" THEN "413" ELSE "502")
    /\ Row("failed", FALSE) /\ UNCHANGED got

\* The client of a stream leaves; its route's finally cannot tell that from a stream that
\* ended. A route that collects is not told.
Gone ==
    /\ pc = "reading" /\ Streams /\ slot' = FALSE /\ counts' = FALSE
    /\ Ended("gone")
    /\ Row(IF Door = "anthropic" \/ got = Last THEN "completed" ELSE "incomplete", FALSE)
    /\ UNCHANGED <<got, tally>>

Next ==
    \/ Server
    \/ /\ UNCHANGED <<asked, up>>
       /\ \/ Gate \/ Waits \/ Refused \/ Admitted \/ Finds \/ Unfound \/ Line
          \/ StreamOver \/ Collected \/ Raises \/ Gone

Spec == Init /\ [][Next]_vars
-----------------------------------------------------------------------------

\* Every request that came past the gate ends with one row, its slot given back and its
\* entry of the table gone, and the row and the counters agree with what the client was
\* told, also when the server went away while it waited.
MlxAccounted ==
    /\ pc = "ended" /\ ~(answer = "503" /\ tally = {}) => Len(rows) = 1
    /\ Len(rows) <= 1
    /\ pc = "ended" => ~slot /\ ~counts
    /\ rows # <<>> /\ answer \notin {"none", "gone"} =>
         (rows[1].status = "completed" <=> answer = "finished")
    /\ "failed" \in tally => answer \notin {"finished", "gone"}

\* A stream's client is told that the answer is finished only if the server said so.
StreamTold == answer = "finished" /\ Streams => got >= Reason

-----------------------------------------------------------------------------
(* What the proofs of the properties rest on.                                *)

\* Nothing is counted before the end, a slot is held from the admission on, and only a
\* stream's counts are in the table while it is read.
CountedAtTheEnd ==
    /\ pc \in {"new", "waiting", "held", "reading", "ended"} /\ got \in Nothing..Last
    /\ counts \in BOOLEAN /\ slot \in BOOLEAN
    /\ pc # "ended" => rows = <<>> /\ answer = "none" /\ tally = {}
    /\ pc \in {"new", "waiting"} => ~slot
    /\ counts => pc = "reading" /\ Streams
=============================================================================
