--------------------------- MODULE MediaRequests ---------------------------
(***************************************************************************)
(* Requests for pictures and for transcriptions: the routes (image_compat,                  *)
(* transcription_compat, /v1/images/generations), the process functions the queue calls for  *)
(* them (StreamingProxy), and the node's image server, which renders in a child process and  *)
(* has to stop it and to delete its file. When the queue calls is QueueManager's matter.      *)
(* The router waits 120 s for a picture, the image server 180 s for its renderer.             *)
(***************************************************************************)
EXTENDS Integers, Sequences

CONSTANT Asks           \* what may be asked: functions request -> "image", "ollama", "stt"

VARIABLES
    asked,
    node,       \* [up, serves]: the agent's process, and the servers the registry knows
    pc,         \* where the route is
    told,       \* what its client was told
    kept,       \* [marks, events, rows] of a request: mark_*, _record_*, its trace
    job,        \* the node's handler
    child,      \* its renderer
    file,       \* output_path exists
    reply       \* what the handler answers, once it is over

vars == <<asked, node, pc, told, kept, job, child, file, reply>>
None == "none"
Requests == DOMAIN asked
Image(r) == asked[r] = "image"
Working == {"new", "rendering", "terminating", "killing"}

Init ==
    /\ asked \in Asks
    /\ \E s \in SUBSET {"image", "stt"} : node = [up |-> TRUE, serves |-> s]
    /\ pc = [r \in Requests |-> "new"] /\ told = [r \in Requests |-> None]
    /\ kept = [r \in Requests |-> [marks |-> <<>>, events |-> <<>>, rows |-> 0]]
    /\ job = [r \in Requests |-> None] /\ child = [r \in Requests |-> None]
    /\ file = [r \in Requests |-> FALSE] /\ reply = [r \in Requests |-> None]

At(r, there) == pc' = [pc EXCEPT ![r] = there]
Tells(r, what) == At(r, "done") /\ told' = [told EXCEPT ![r] = what]

-----------------------------------------------------------------------------
(* The routes. Nothing is kept of a request that is refused.                       *)

Refused(r) ==
    /\ pc[r] = "new" /\ asked[r] \notin node.serves /\ asked[r] # "ollama"
    /\ Tells(r, "refused") /\ UNCHANGED <<node, kept, job, child, file, reply>>

\* An image model of Ollama's goes the way of a generation (FrontDoors).
Elsewhere(r) ==
    /\ pc[r] = "new" /\ asked[r] = "ollama"
    /\ Tells(r, "elsewhere") /\ UNCHANGED <<node, kept, job, child, file, reply>>

Enqueued(r) ==
    /\ pc[r] = "new" /\ asked[r] \in node.serves /\ At(r, "queued")
    /\ UNCHANGED <<node, told, kept, job, child, file, reply>>

\* Its client leaves while it is queued: dispatched_stream has a row for it.
Leaves(r) ==
    /\ pc[r] = "queued" /\ Tells(r, "499") /\ kept' = [kept EXCEPT ![r].rows = @ + 1]
    /\ UNCHANGED <<node, job, child, file, reply>>

\* The worker calls the process function, which calls the node.
Dispatched(r) ==
    /\ pc[r] = "queued" /\ At(r, "sent")
    /\ IF node.up /\ Image(r)
       THEN job' = [job EXCEPT ![r] = "new"] /\ UNCHANGED reply
       ELSE /\ UNCHANGED job
            /\ reply' = [reply EXCEPT ![r] = IF node.up THEN None ELSE "error"]
    /\ UNCHANGED <<node, told, kept, child, file>>

\* A job of the transcription server is submitted and polled, until it has ended, a poll
\* fails or transcription_timeout is over. It is the server's, and nobody cancels it.
Polled(r) ==
    /\ pc[r] = "sent" /\ asked[r] = "stt" /\ reply[r] = None
    /\ \E what \in {"ok", "error"} : reply' = [reply EXCEPT ![r] = what]
    /\ UNCHANGED <<node, pc, told, kept, job, child, file>>

\* Mutant: mark_completed stands before the call, and the except clause marks as well.
Settle_Early(r, what) ==
    /\ kept' = [kept EXCEPT ![r].marks = Append(@, "completed") \o
                                         IF what = "ok" THEN <<>> ELSE <<"failed">>,
                            ![r].events = Append(@, IF what = "ok" THEN "completed" ELSE "failed")]
    /\ Tells(r, IF what = "ok" THEN "ok" ELSE "502")

\* The process function marks the entry and yields or raises; the route records the event
\* and answers.
Settle(r, what) ==
    LET status == IF what = "ok" THEN "completed" ELSE "failed"
    IN  /\ kept' = [kept EXCEPT ![r].marks = Append(@, status), ![r].events = Append(@, status)]
        /\ Tells(r, IF what = "ok" THEN "ok" ELSE "502")
Answered(r) ==
    /\ pc[r] = "sent" /\ reply[r] # None /\ Settle(r, reply[r])
    /\ UNCHANGED <<node, job, child, file, reply>>

\* image_timeout: the queue's slot is free, whatever the node still does.
ReadTimeout(r) ==
    /\ pc[r] = "sent" /\ Image(r) /\ reply[r] = None /\ Settle(r, "timeout")
    /\ UNCHANGED <<node, job, child, file, reply>>

-----------------------------------------------------------------------------
(* The node's image server, one handler for each request, and its renderer.         *)

\* Mutant: only a picture that was sent is deleted.
Over_Left(r, what) ==
    /\ job' = [job EXCEPT ![r] = "over"] /\ reply' = [reply EXCEPT ![r] = what]
    /\ file' = [file EXCEPT ![r] = @ /\ what # "ok"]

\* The handler is over, with its file deleted. Its answer may find nobody.
Over(r, what) ==
    /\ job' = [job EXCEPT ![r] = "over"] /\ reply' = [reply EXCEPT ![r] = what]
    /\ file' = [file EXCEPT ![r] = FALSE]

\* No prompt, no binary, or no process.
Fails(r) ==
    /\ job[r] = "new" /\ Over(r, "error") /\ UNCHANGED <<node, pc, told, kept, child>>
Starts(r) ==
    /\ job[r] = "new" /\ job' = [job EXCEPT ![r] = "rendering"]
    /\ child' = [child EXCEPT ![r] = "running"]
    /\ UNCHANGED <<node, pc, told, kept, file, reply>>

\* The renderer writes its file and exits, well or badly; SIGTERM may find it deaf, and
\* SIGKILL may find it in a call of the kernel.
Writes(r) ==
    /\ child[r] \in {"running", "termed"} /\ ~file[r] /\ file' = [file EXCEPT ![r] = TRUE]
    /\ UNCHANGED <<node, pc, told, kept, job, child, reply>>
Exits(r) ==
    /\ \/ child[r] = "running" /\ \E c \in {"good", "bad"} : child' = [child EXCEPT ![r] = c]
       \/ child[r] \in {"termed", "killed"} /\ child' = [child EXCEPT ![r] = "bad"]
    /\ UNCHANGED <<node, pc, told, kept, job, file, reply>>

\* communicate() returns: nothing to reap.
Rendered(r) ==
    /\ job[r] = "rendering" /\ child[r] \in {"good", "bad"}
    /\ Over(r, IF child[r] = "good" /\ file[r] THEN "ok" ELSE "error")
    /\ UNCHANGED <<node, pc, told, kept, child>>

\* Mutant: wait_for cancels the await and does not signal the child.
Stop_NoReap(r) ==
    /\ Over(r, "error") /\ UNCHANGED child

\* IMAGE_TIMEOUT_S is over, or the handler is cancelled: the finally clause asks the
\* renderer to end.
Stop(r) ==
    /\ job' = [job EXCEPT ![r] = "terminating"] /\ child' = [child EXCEPT ![r] = "termed"]
    /\ UNCHANGED <<file, reply>>
Stopped(r) ==
    /\ job[r] = "rendering" /\ child[r] = "running" /\ Stop(r)
    /\ UNCHANGED <<node, pc, told, kept>>

\* The renderer has ended within its grace.
Reaped(r) ==
    /\ job[r] \in {"terminating", "killing"} /\ child[r] = "bad" /\ Over(r, "error")
    /\ UNCHANGED <<node, pc, told, kept, child>>

\* Mutant: whoever is deaf to SIGTERM is left alone.
Deaf_Left(r) ==
    /\ job[r] = "terminating" /\ child[r] = "termed" /\ Over(r, "error")
    /\ UNCHANGED <<node, pc, told, kept, child>>

\* RENDERER_TERM_GRACE_S is over: SIGKILL.
Deaf(r) ==
    /\ job[r] = "terminating" /\ child[r] = "termed"
    /\ job' = [job EXCEPT ![r] = "killing"] /\ child' = [child EXCEPT ![r] = "killed"]
    /\ UNCHANGED <<node, pc, told, kept, file, reply>>

\* RENDERER_KILL_GRACE_S is over: the child watcher will reap it.
Unreaped(r) ==
    /\ job[r] = "killing" /\ child[r] = "killed" /\ Over(r, "error")
    /\ UNCHANGED <<node, pc, told, kept, child>>

\* The handler is cancelled while it cleans up: CancelledError leaves the finally clause.
Cut(r) ==
    /\ job[r] \in {"terminating", "killing"} /\ job' = [job EXCEPT ![r] = "cut"]
    /\ reply' = [reply EXCEPT ![r] = "error"]
    /\ UNCHANGED <<node, pc, told, kept, child, file>>

\* The agent dies, with its handlers and not with their renderers; it comes back.
Crash ==
    /\ node.up /\ node' = [node EXCEPT !.up = FALSE]
    /\ LET dead == {r \in Requests : job[r] \in Working}
           lost == {r \in Requests : pc[r] = "sent" /\ reply[r] = None}
       IN  /\ job' = [r \in Requests |-> IF r \in dead THEN "cut" ELSE job[r]]
           /\ reply' = [r \in Requests |-> IF r \in dead \cup lost THEN "error" ELSE reply[r]]
    /\ UNCHANGED <<pc, told, kept, child, file>>
Returns ==
    /\ ~node.up /\ node' = [node EXCEPT !.up = TRUE]
    /\ UNCHANGED <<pc, told, kept, job, child, file, reply>>

Step(r) ==
    \/ Refused(r) \/ Elsewhere(r) \/ Enqueued(r) \/ Dispatched(r) \/ Polled(r) \/ Answered(r)
    \/ ReadTimeout(r)

Renders(r) ==
    \/ Fails(r) \/ Starts(r) \/ Writes(r) \/ Exits(r) \/ Rendered(r) \/ Stopped(r) \/ Reaped(r)
    \/ Deaf(r) \/ Unreaped(r) \/ Cut(r)

Next ==
    /\ UNCHANGED asked
    /\ (\E r \in Requests : Step(r) \/ Leaves(r) \/ Renders(r)) \/ Crash \/ Returns
Spec == Init /\ [][Next]_vars
-----------------------------------------------------------------------------

\* Whatever the node, its renderer and the client do, a request that was dispatched settles
\* its queue entry once and leaves one event, both agreeing with what its client is told; one
\* whose client left leaves a row instead, and one that was refused nothing.
MediaAccounted ==
    \A r \in Requests :
        /\ kept[r].marks = kept[r].events
        /\ kept[r].marks = CASE told[r] = "ok" -> <<"completed">> [] told[r] = "502" -> <<"failed">>
                             [] OTHER -> <<>>
        /\ kept[r].rows = (IF told[r] = "499" THEN 1 ELSE 0)

\* image_server.py:73: nothing of the renderer outlives the request, its picture included,
\* unless the handler died or was cancelled in its clean-up. One that SIGKILL found in the
\* kernel writes nothing any more.
NothingOutlives ==
    \A r \in Requests :
        job[r] = "over" => child[r] \notin {"running", "termed"} /\ ~file[r]

-----------------------------------------------------------------------------
(* What the proofs of the properties rest on.                                *)

\* A request is told once, and has no renderer before its handler starts one.
StartedOnce ==
    /\ DOMAIN pc = Requests /\ DOMAIN told = Requests /\ DOMAIN job = Requests
    /\ DOMAIN child = Requests /\ DOMAIN kept = Requests /\ file \in [Requests -> BOOLEAN]
    /\ reply \in [Requests -> {None, "ok", "error"}]
    /\ \A r \in Requests :
        /\ DOMAIN kept[r] = {"marks", "events", "rows"}
        /\ pc[r] \in {"new", "queued", "sent"} => told[r] = None
        /\ pc[r] \in {"new", "queued"} => job[r] = None
        /\ job[r] \in {None, "new"} => child[r] = None /\ ~file[r]
=============================================================================
