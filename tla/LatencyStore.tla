---------------------------- MODULE LatencyStore ----------------------------
(***************************************************************************)
(* server/latency_store.py, for one pair of node and model: observations go to     *)
(* SQLite, and the 75th percentile of the last Limit of them is kept in memory for   *)
(* the scorer. Recorders run side by side over one connection for writing and one     *)
(* for reading, each served in the order it was asked (aiosqlite). The reading          *)
(* connection is everybody's: while the rows of one question are still to be fetched,  *)
(* the next one is answered from where that one began (SQLite's read snapshot).        *)
(***************************************************************************)
EXTENDS Integers, Sequences, SequencesExt, FiniteSetsExt

CONSTANTS
    Recorders, Latencies,
    Limit,          \* observations a percentile looks at
    MaxRows         \* bound on the table

VARIABLES
    rows,       \* committed and not: latencies, oldest first
    committed,  \* how many of them are committed
    pc,         \* recorder -> "idle", "inserted", "committed" or "reading"
    reads,      \* unanswered questions, in their order: [by, saw], by is {} or a recorder's
    cache,      \* the percentile in memory, as a set: {} before the first
    last        \* of the last recorder's question: [saw, alone]

vars == <<rows, committed, pc, reads, cache, last>>

Init ==
    /\ rows = <<>> /\ committed = 0 /\ pc = [r \in Recorders |-> "idle"]
    /\ reads = <<>> /\ cache = {} /\ last = [saw |-> <<>>, alone |-> TRUE]

-----------------------------------------------------------------------------
(* The two ways of computing the percentile.                                  *)

Latest(s, n) == SubSeq(s, Max({1, Len(s) - n + 1}), Len(s))
Below(s, x) == Cardinality({i \in 1..Len(s) : s[i] < x})
UpTo(s, x) == Cardinality({i \in 1..Len(s) : s[i] <= x})

\* What stands at place k when the values are sorted.
InOrder(s, k) == CHOOSE x \in ToSet(s) : Below(s, x) < k /\ k <= UpTo(s, x)

\* get_percentile: an index into the sorted values.
Percentile(s) ==
    LET values == Latest(s, Limit)
        idx == (Len(values) * 75) \div 100
    IN  IF values = <<>> THEN {} ELSE {InOrder(values, 1 + Min({idx, Len(values) - 1}))}

\* _refresh_cache: the least value whose PERCENT_RANK, (rank - 1) / (rows - 1), is 0.75
\* or more; a pair without one gets no entry.
AtRank(below, n) == 4 * below >= 3 * (n - 1)
Refreshed(s) ==
    LET values == Latest(s, Limit)
        high == {x \in ToSet(values) : Len(values) > 1 /\ AtRank(Below(values, x), Len(values))}
    IN  IF high = {} THEN {} ELSE {Min(high)}

-----------------------------------------------------------------------------
(* record.                                                                   *)

Insert(r, ms) ==
    /\ pc[r] = "idle" /\ Len(rows) < MaxRows
    /\ rows' = Append(rows, ms) /\ pc' = [pc EXCEPT ![r] = "inserted"]
    /\ UNCHANGED <<committed, reads, cache, last>>

\* A commit takes along whatever the others have inserted.
Commit(r) ==
    /\ pc[r] = "inserted"
    /\ committed' = Len(rows) /\ pc' = [pc EXCEPT ![r] = "committed"]
    /\ UNCHANGED <<rows, reads, cache, last>>

\* What a question sees: the committed rows, or, as long as an earlier one is open, what
\* that one saw.
Visible == {SubSeq(rows, 1, committed)} \cup (IF reads = <<>> THEN {} ELSE {reads[Len(reads)].saw})

\* get_percentile up to the execute: the rows are found then, and fetched later.
\* Mutant: the percentile is asked for before the observation is committed.
Ask_Early(r) ==
    /\ pc[r] = "inserted" /\ committed' = Len(rows)
    /\ \E saw \in Visible :
        /\ reads' = Append(reads, [by |-> {r}, saw |-> saw])
        /\ last' = [saw |-> saw, alone |-> reads = <<>>]
    /\ pc' = [pc EXCEPT ![r] = "reading"] /\ UNCHANGED <<rows, cache>>
Ask(r) ==
    /\ pc[r] = "committed"
    /\ \E saw \in Visible :
        /\ reads' = Append(reads, [by |-> {r}, saw |-> saw])
        /\ last' = [saw |-> saw, alone |-> reads = <<>>]
    /\ pc' = [pc EXCEPT ![r] = "reading"] /\ UNCHANGED <<rows, committed, cache>>

\* The dashboard, or a recorder of another pair, reads over the same connection.
OtherAsks ==
    /\ \A i \in DOMAIN reads : reads[i].by # {}
    /\ \E saw \in Visible : reads' = Append(reads, [by |-> {}, saw |-> saw])
    /\ UNCHANGED <<rows, committed, pc, cache, last>>

\* The fetchall, and for a recorder the cache; without rows the cache is left alone.
Answer ==
    /\ reads # <<>>
    /\ LET read == reads[1] IN
        /\ cache' = IF read.by = {} \/ read.saw = <<>> THEN cache ELSE Percentile(read.saw)
        /\ pc' = [r \in Recorders |-> IF r \in read.by THEN "idle" ELSE pc[r]]
    /\ reads' = Tail(reads) /\ UNCHANGED <<rows, committed, last>>

\* What is not committed is lost; initialize fills the cache from the rest.
Restart ==
    /\ rows' = SubSeq(rows, 1, committed) /\ UNCHANGED committed
    /\ pc' = [r \in Recorders |-> "idle"] /\ reads' = <<>>
    /\ cache' = Refreshed(rows') /\ last' = [saw |-> rows', alone |-> TRUE]

Next ==
    \/ OtherAsks \/ Answer \/ Restart
    \/ \E r \in Recorders : Commit(r) \/ Ask(r) \/ \E ms \in Latencies : Insert(r, ms)

-----------------------------------------------------------------------------
(* Properties.                                                               *)

Quiet == \A r \in Recorders : pc[r] = "idle"

\* When the recorders are done, the last of them has left the percentile of what it saw, as
\* long as no two of these observations are equal and there is more than one; and what it
\* saw is all there is, over overlapping commits and restarts, if it found nobody else
\* reading. If it did, the cache may lack the newest observations until the next one comes.
CacheFresh ==
    LET recent == Latest(last.saw, Limit)
    IN  Quiet => /\ last.alone => last.saw = rows
                 /\ Len(recent) > 1 /\ Cardinality(ToSet(recent)) = Len(recent)
                        => cache = Percentile(last.saw)

-----------------------------------------------------------------------------
(* What the proofs of the property rest on.                                  *)

\* The percentile that stands after the questions so far: of the last recorder's, which is
\* among those waiting, followed by others at most, or answered.
Standing ==
    \/ \E i \in 1..Len(reads) :
        /\ reads[i].by # {} /\ reads[i].saw = last.saw
        /\ \A j \in (i + 1)..Len(reads) : reads[j].by = {}
    \/ /\ \A i \in 1..Len(reads) : reads[i].by = {}
       /\ cache = Percentile(last.saw) \/ cache = Refreshed(last.saw)

\* Who reads has one question in the queue, and who inserted has not committed; the cache is
\* empty, or there was something to see.
ReadsFresh ==
    /\ rows \in Seq(Int) /\ committed \in 0..Len(rows) /\ reads \in Seq(ToSet(reads))
    /\ pc \in [Recorders -> {"idle", "inserted", "committed", "reading"}]
    /\ last.saw \in Seq(Int)
    /\ \A i \in 1..Len(reads) :
        /\ reads[i].saw \in Seq(Int)
        /\ \A r \in reads[i].by : r \in Recorders /\ pc[r] = "reading"
    /\ \A i, j \in 1..Len(reads) : reads[i].by \cap reads[j].by # {} => i = j
    /\ (\A r \in Recorders : pc[r] # "inserted") => committed = Len(rows)
    /\ (\A r \in Recorders : pc[r] \in {"idle", "reading"}) /\ last.alone => last.saw = rows
    /\ last.saw # <<>> => Standing
=============================================================================
