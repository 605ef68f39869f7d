----------------------------- MODULE TraceStore -----------------------------
(***************************************************************************)
(* server/trace_store.py: one row for every attempt of a request, written over a   *)
(* connection all requests share. The latency store writes to the same file over a        *)
(* connection of its own.                                                            *)
(***************************************************************************)
EXTENDS Integers, Sequences, SequencesExt, FiniteSetsExt

CONSTANTS
    Attempts,   \* attempts whose end is recorded
    MaxTries    \* 1 + Len(_RETRY_BACKOFFS_S)

VARIABLES
    pc,         \* attempt -> "none", "trying", "inserted", "stored" or "lost"
    tries,      \* attempt -> INSERTs so far
    open,       \* rows inserted and not committed, on the shared connection
    rows,       \* rows committed
    lock,       \* the other connection is in a transaction
    failures    \* _write_failure_times, as a count

vars == <<pc, tries, open, rows, lock, failures>>

Init ==
    /\ pc = [a \in Attempts |-> "none"] /\ tries = [a \in Attempts |-> 0]
    /\ open = <<>> /\ rows = <<>> /\ lock = FALSE /\ failures = 0

-----------------------------------------------------------------------------
(* record_trace.                                                             *)

Record(a) ==
    /\ pc[a] = "none" /\ pc' = [pc EXCEPT ![a] = "trying"]
    /\ UNCHANGED <<tries, open, rows, lock, failures>>

\* An INSERT waits for the lock until busy_timeout, unless the connection is in a
\* transaction already.
Insert(a) ==
    /\ pc[a] = "trying" /\ (~lock \/ open # <<>>)
    /\ open' = Append(open, a) /\ pc' = [pc EXCEPT ![a] = "inserted"]
    /\ UNCHANGED <<tries, rows, lock, failures>>

Locked(a) ==
    /\ pc[a] = "trying" /\ lock /\ open = <<>> /\ tries[a] + 1 < MaxTries
    /\ tries' = [tries EXCEPT ![a] = @ + 1]
    /\ UNCHANGED <<pc, open, rows, lock, failures>>

\* The last try, or an OperationalError other than the lock: the caller logs it and goes on.
\* (Any other exception is logged as well, but not counted; the model has none.)
\* Mutant: nobody counts it.
GiveUp_Silent(a) ==
    /\ pc[a] = "trying" /\ (tries[a] + 1 = MaxTries => lock /\ open = <<>>)
    /\ pc' = [pc EXCEPT ![a] = "lost"]
    /\ UNCHANGED <<tries, open, rows, lock, failures>>
GiveUp(a) ==
    /\ pc[a] = "trying" /\ (tries[a] + 1 = MaxTries => lock /\ open = <<>>)
    /\ pc' = [pc EXCEPT ![a] = "lost"] /\ failures' = failures + 1
    /\ UNCHANGED <<tries, open, rows, lock>>

\* Commits the rows of the others too.
Commit(a) ==
    /\ pc[a] = "inserted"
    /\ rows' = rows \o open /\ open' = <<>>
    /\ pc' = [pc EXCEPT ![a] = "stored"]
    /\ UNCHANGED <<tries, lock, failures>>

OtherWriter ==
    /\ lock' = ~lock /\ open = <<>>
    /\ UNCHANGED <<pc, tries, open, rows, failures>>

Next ==
    \/ OtherWriter
    \/ \E a \in Attempts :
        Record(a) \/ Insert(a) \/ Locked(a) \/ GiveUp(a) \/ Commit(a)

-----------------------------------------------------------------------------
(* Properties.                                                               *)

\* An attempt whose recorder is done is in the table exactly once, or it counts as a
\* write failure; none is both, though the recorders commit each other's rows.
StoredOrCounted ==
    /\ \A a \in Attempts : pc[a] = "stored" => Cardinality({i \in DOMAIN rows : rows[i] = a}) = 1
    /\ \A a \in Attempts : pc[a] = "lost" => a \notin ToSet(rows \o open)
    /\ failures = Cardinality({a \in Attempts : pc[a] = "lost"})

-----------------------------------------------------------------------------
(* What the proofs of the properties rest on.                                *)

\* The rows, committed or not, are those of the attempts that were inserted, each once.
RowsOnce ==
    /\ pc \in [Attempts -> {"none", "trying", "inserted", "stored", "lost"}]
    /\ rows \in Seq(Attempts) /\ open \in Seq(Attempts)
    /\ \A i, j \in 1..Len(rows \o open) : (rows \o open)[i] = (rows \o open)[j] => i = j
    /\ ToSet(rows \o open) = {a \in Attempts : pc[a] \in {"inserted", "stored"}}
    /\ \A a \in Attempts : pc[a] = "stored" => a \in ToSet(rows)
=============================================================================
