--------------------------- MODULE SessionAffinity ---------------------------
(***************************************************************************)
(* server/session_affinity.py: which node a session was last served by, for    *)
(* a bounded number of sessions and a bounded time. time is the wall clock.    *)
(***************************************************************************)
EXTENDS Integers, FiniteSetsExt, Functions

CONSTANTS Requests,     \* [tag, turns, ip, model]: what session_key_for looks at
          Nodes,
          Ttl, MaxSessions,
          MaxTime       \* bound on the clock

NoTag == "none"
NoKey == <<>>

VARIABLES seen,    \* key -> node and time of its last request
          clock,
          last     \* history: key -> node and time of its last request, kept for good

vars == <<seen, clock, last>>

Init == seen = <<>> /\ clock = 0 /\ last = <<>>

\* An explicit session tag, or client and model once the conversation has an answer.
session_key_for(r) ==
    IF r.tag # NoTag THEN <<r.tag>>
    ELSE IF r.turns > 0 /\ r.ip # NoTag THEN <<r.ip, r.model>> ELSE NoKey

Expired(table, k) == clock - table[k].at > Ttl
Fresh(table) == Restrict(table, {k \in DOMAIN table : ~Expired(table, k)})

\* Expired entries go first, and the oldest of the rest until the table fits.
Surplus(table) == Cardinality(DOMAIN table) - MaxSessions
Oldest(table, gone) ==
    \A k \in gone, x \in DOMAIN table \ gone : table[k].at <= table[x].at
\* Mutant: any entries of the right number.
Evictions_Any(table) ==
    {gone \in SUBSET DOMAIN table : Cardinality(gone) = Max({0, Surplus(table)})}
Evictions(table) ==
    {gone \in SUBSET DOMAIN table : /\ Cardinality(gone) = Max({0, Surplus(table)})
                                    /\ Oldest(table, gone)}

Evicted(table) ==
    IF Surplus(table) <= 0 THEN {table}
    ELSE LET fresh == Fresh(table)
         IN  {Restrict(fresh, DOMAIN fresh \ gone) : gone \in Evictions(fresh)}

\* Insertion into a dict: an entry that is there is replaced.
With(table, k, entry) ==
    [x \in DOMAIN table \cup {k} |-> IF x = k THEN entry ELSE table[x]]

Remember(r, n) ==
    LET k == session_key_for(r)
        entry == [node |-> n, at |-> clock]
    IN  /\ k # NoKey
        /\ seen' \in Evicted(With(seen, k, entry))
        /\ last' = With(last, k, entry)
        /\ UNCHANGED clock

\* preferred_node forgets an entry it finds expired.
Preferred(k) == IF k \in DOMAIN seen /\ ~Expired(seen, k) THEN seen[k].node ELSE NoTag
Ask(k) ==
    /\ k \in DOMAIN seen /\ Expired(seen, k)
    /\ seen' = Restrict(seen, DOMAIN seen \ {k})
    /\ UNCHANGED <<clock, last>>

Tick == clock < MaxTime /\ clock' = clock + 1 /\ UNCHANGED <<seen, last>>

Next ==
    \/ \E r \in Requests, n \in Nodes : Remember(r, n)
    \/ \E k \in {session_key_for(r) : r \in Requests} : Ask(k)
    \/ Tick

-----------------------------------------------------------------------------
(* Properties.                                                               *)

\* The table is bounded, and what it forgets is what was used longest ago: a session
\* that is still fresh prefers the node of its last request unless at least
\* MaxSessions other sessions were used since.
MostRecentKept ==
    /\ Cardinality(DOMAIN seen) <= MaxSessions
    /\ \A k \in DOMAIN last :
        \/ clock - last[k].at > Ttl
        \/ Preferred(k) = last[k].node
        \/ Cardinality({x \in DOMAIN last \ {k} : last[x].at >= last[k].at}) >= MaxSessions

-----------------------------------------------------------------------------
(* What the proofs of the properties rest on.                                *)

\* An entry of the table is the session's last request, and a session that was
\* forgotten is too old or has MaxSessions others that were used since.
Forgettable(k) ==
    \/ clock - last[k].at > Ttl
    \/ Cardinality({x \in DOMAIN last \ {k} : last[x].at >= last[k].at}) >= MaxSessions
TableAgrees ==
    /\ clock \in Nat /\ IsFiniteSet(DOMAIN last)
    /\ \A k \in DOMAIN last : last[k].at \in 0..clock
    /\ DOMAIN seen \subseteq DOMAIN last /\ Cardinality(DOMAIN seen) <= MaxSessions
    /\ \A k \in DOMAIN seen : seen[k] = last[k]
    /\ \A k \in DOMAIN last \ DOMAIN seen : Forgettable(k)
=============================================================================
