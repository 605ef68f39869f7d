---------------------------- MODULE ToolClearing ----------------------------
(***************************************************************************)
(* Layer 1 of context management: server/context_management.py replaces old     *)
(* tool results by a placeholder, and server/clearing_store.py remembers in      *)
(* SQLite which, so that the next prompt of the session begins with the same     *)
(* bytes. The client sends its whole transcript, never cleared, with every turn. *)
(***************************************************************************)
EXTENDS Integers, Sequences, SequencesExt, FiniteSetsExt

CONSTANTS
    Ids,            \* tool_use_ids, 1..n, given out in order
    Sizes,          \* id -> tokens of its result
    Placeholder,    \* tokens of CLEARED_PLACEHOLDER
    Trigger,        \* trigger_tokens
    KeepRecent      \* keep_recent

VARIABLES
    transcript, \* the client's: ids of its tool results, oldest first
    fresh,      \* the next id
    store,      \* cleared_tool_uses
    cleared,    \* ids that the last prompt had cleared
    prompt,     \* ids in the last prompt
    failed,     \* history: SQLite was locked at least once
    advanced    \* history: what the last turn cleared that was not cleared before

vars == <<transcript, fresh, store, cleared, prompt, failed, advanced>>

Init ==
    /\ transcript = <<>> /\ fresh = 1 /\ store = {} /\ cleared = {} /\ prompt = <<>>
    /\ failed = FALSE /\ advanced = {}

-----------------------------------------------------------------------------
(* The client.                                                               *)

ToolRuns ==
    /\ fresh \in Ids
    /\ transcript' = Append(transcript, fresh) /\ fresh' = fresh + 1
    /\ UNCHANGED <<store, cleared, prompt, failed, advanced>>

\* The user goes back to an earlier point of the conversation.
Rewind ==
    /\ Len(transcript) > 0
    /\ transcript' = Front(transcript)
    /\ UNCHANGED <<fresh, store, cleared, prompt, failed, advanced>>

-----------------------------------------------------------------------------
(* clear_old_tool_results.                                                   *)

TotalTokens(ids, gone) ==
    FoldSet(LAMBDA i, n : n + IF i \in gone THEN Placeholder ELSE Sizes[i], 0, ids)

\* candidates[:-keep_recent], as places in the transcript.
\* Mutant: off by one.
AllButRecent_OneMore(at) == {i \in at : Cardinality({j \in at : j > i}) + 1 >= KeepRecent}
AllButRecent(at) == {i \in at : Cardinality({j \in at : j > i}) >= KeepRecent}

\* load_all gives nothing when the database is locked.
Sticky(readable) == IF readable THEN store ELSE {}

\* Without a store the window slides over the whole transcript.
\* Mutant: what was cleared before counts for nothing.
ToClear_Stateless(sticky) ==
    IF TotalTokens(ToSet(transcript), {}) > Trigger
    THEN {transcript[i] : i \in AllButRecent(1..Len(transcript))} ELSE {}
ToAdvance(sticky) ==
    LET candidates == {i \in 1..Len(transcript) : transcript[i] \notin sticky}
    IN  IF TotalTokens(ToSet(transcript), {}) > Trigger
        THEN {transcript[i] : i \in AllButRecent(candidates)} ELSE {}
ToClear(sticky) == (sticky \cap ToSet(transcript)) \cup ToAdvance(sticky)

\* One request. Reading, adding and the prompt are one step: nothing awaits in between.
Turn(readable, writable) ==
    LET sticky == Sticky(readable)
        new == ToClear(sticky) \ sticky
    IN  /\ transcript # <<>>
        /\ cleared' = ToClear(sticky) /\ prompt' = transcript
        /\ store' = IF writable THEN store \cup new ELSE store
        /\ failed' = (failed \/ ~readable \/ ~writable)
        /\ advanced' = new
        /\ UNCHANGED <<transcript, fresh>>

Next == ToolRuns \/ Rewind \/ \E r, w \in BOOLEAN : Turn(r, w)

Spec == Init /\ [][Next]_vars

-----------------------------------------------------------------------------
(* Properties.                                                               *)

\* context_management.py:170 and clearing_store.py:38: what one prompt of a session
\* had cleared every later prompt has cleared, wherever the user rewinds to, as
\* long as the database answers; the model server's prefix cache depends on it.
\* An action: stated of every step.
ClearedStaysCleared ==
    ~failed' => cleared \cap ToSet(prompt') \subseteq cleared'

\* Over the trigger, the newest result is sent as it is, unless an earlier prompt
\* had it cleared; and no more than KeepRecent results are.
RecentAndNoMore ==
    advanced # {} =>
        /\ Cardinality(ToSet(prompt) \ cleared) = KeepRecent
        /\ \A i \in ToSet(prompt) \ cleared, j \in advanced : j < i

-----------------------------------------------------------------------------
(* What the proofs of the properties rest on.                                *)

\* What the last prompt had cleared is stored.
ClearedStored == failed \in BOOLEAN /\ (~failed => cleared \subseteq store)

\* Results stand in the transcript in the order their ids were given out.
TranscriptOrdered ==
    /\ fresh \in Nat /\ transcript \in Seq(Nat)
    /\ \A i \in 1..Len(transcript) : transcript[i] < fresh
    /\ \A i, j \in 1..Len(transcript) : i < j => transcript[i] < transcript[j]
=============================================================================
