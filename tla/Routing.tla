------------------------------ MODULE Routing ------------------------------
(***************************************************************************)
(* server/routes/routing.py: score_with_fallbacks, from the models a request names  *)
(* to the one that serves it. What the scorer answers is abstracted to the heat of    *)
(* each model's best candidate; requests hold for a candidate, pull a model or wait     *)
(* for another's pull, and the fleet changes meanwhile. Time counts hold intervals.      *)
(***************************************************************************)
EXTENDS Integers, Sequences, SequencesExt, FiniteSetsExt

CONSTANTS
    Requests,       \* request -> [wants, choice, images, session]
    Models,
    Kind,           \* model -> its category
    Priority,       \* model -> its priority score
    VramFallback,   \* settings.vram_fallback
    AutoPull,       \* settings.auto_pull
    HoldTries,      \* HOLD_TIMEOUT in intervals
    PullTries,      \* auto_pull_timeout in intervals
    MaxChanges      \* bound on changes of the fleet

VARIABLES
    heat,       \* model -> heat of score_request's winner: "hot", "cold", "none"
    listed,     \* models some node has, online or not
    pc,         \* request -> "new", "holding", "pulling", "waiting" or "done"
    clock,      \* request -> intervals left until its deadline
    pulls,      \* _pulls_in_flight
    answer,     \* request -> the model that serves it, None for a rejection
    sessions,   \* session keys that were remembered
    events,     \* _vram_fallback_events
    changes

vars == <<heat, listed, pc, clock, pulls, answer, sessions, events, changes>>
None == "none"

Names == DOMAIN Requests
Wants(r) == Requests[r].wants

Init ==
    /\ heat \in [Models -> {"hot", "cold", "none"}]
    /\ listed \in SUBSET Models /\ \A m \in Models : heat[m] # "none" => m \in listed
    /\ pc = [r \in Names |-> "new"] /\ clock = [r \in Names |-> 0]
    /\ pulls = {} /\ answer = [r \in Names |-> None]
    /\ sessions = {} /\ events = {} /\ changes = 0

-----------------------------------------------------------------------------

\* An explicit choice of the request beats the setting.
parse_allow_fallback(r) ==
    IF Requests[r].choice = "default" THEN VramFallback ELSE Requests[r].choice = "yes"

\* The best loaded models that the request did not name, of its kind or of any.
LoadedOther(r, kinds) == {m \in Models \ ToSet(Wants(r)) : heat[m] = "hot" /\ Kind[m] \in kinds}
Outranks(m, other) == Priority[m] > 0 /\ Priority[m] > 2 * Priority[other]

\* Of its own kind if there is one, else of any, where images keep to vision models.
Options(r) ==
    LET own == LoadedOther(r, {Kind[Wants(r)[1]]})
    IN  IF own # {} THEN own ELSE LoadedOther(r, {Kind[m] : m \in Models})
\* Mutant: images are not looked at.
VramFallbacks_Blind(r) == {m \in Options(r) : ~Outranks(Wants(r)[1], m)}
VramFallbacks(r) ==
    {m \in Options(r) : /\ ~Outranks(Wants(r)[1], m)
                        /\ Requests[r].images => Kind[m] \in {"vision", Kind[Wants(r)[1]]}}

\* The first of the named models whose winner is that hot.
FirstOf(r, heats) ==
    LET at == {i \in DOMAIN Wants(r) : heat[Wants(r)[i]] \in heats}
    IN  IF at = {} THEN None ELSE Wants(r)[Min(at)]

_remember_session_node(r) == sessions' = sessions \cup {Requests[r].session}

Answer(r, m) ==
    /\ pc' = [pc EXCEPT ![r] = "done"] /\ answer' = [answer EXCEPT ![r] = m]
    /\ clock' = [clock EXCEPT ![r] = 0]

\* The pass over the models, without an await. The best option alone is looked at: where
\* it may not replace the model, the cold one serves.
Route(r) ==
    LET hot == FirstOf(r, {"hot"})
        cold == FirstOf(r, {"cold"})
    IN  /\ pc[r] = "new"
        /\ \/ /\ hot # None /\ Answer(r, hot) /\ _remember_session_node(r)
              /\ UNCHANGED events
           \/ /\ hot = None /\ cold # None /\ parse_allow_fallback(r)
              /\ \E m \in VramFallbacks(r) :
                    /\ Answer(r, m) /\ _remember_session_node(r)
                    /\ events' = events \cup {<<Wants(r)[1], m>>}
           \/ /\ hot = None /\ cold # None
              /\ parse_allow_fallback(r) => Options(r) = {} \/ Options(r) # VramFallbacks(r)
              /\ Answer(r, cold) /\ _remember_session_node(r)
              /\ UNCHANGED events
           \/ /\ hot = None /\ cold = None
              /\ pc' = [pc EXCEPT ![r] = "holding"] /\ clock' = [clock EXCEPT ![r] = HoldTries]
              /\ UNCHANGED <<answer, sessions, events>>
    /\ UNCHANGED <<heat, listed, pulls, changes>>

-----------------------------------------------------------------------------
(* The hold: another look every interval, while any node has any of the models.   *)

Exists(r) == \E m \in ToSet(Wants(r)) : m \in listed

HoldFinds(r) ==
    /\ pc[r] = "holding" /\ clock[r] > 0 /\ FirstOf(r, {"hot", "cold"}) # None
    /\ Answer(r, FirstOf(r, {"hot", "cold"})) /\ _remember_session_node(r)
    /\ UNCHANGED <<heat, listed, pulls, events, changes>>

\* Mutant: the hold has no deadline.
HoldSleeps_Forever(r) ==
    /\ pc[r] = "holding" /\ clock[r] > 0 /\ FirstOf(r, {"hot", "cold"}) = None /\ Exists(r)
    /\ UNCHANGED vars
HoldSleeps(r) ==
    /\ pc[r] = "holding" /\ clock[r] > 0 /\ FirstOf(r, {"hot", "cold"}) = None /\ Exists(r)
    /\ clock' = [clock EXCEPT ![r] = @ - 1]
    /\ UNCHANGED <<heat, listed, pc, pulls, answer, sessions, events, changes>>

Reject(r) == Answer(r, None) /\ UNCHANGED <<heat, listed, pulls, sessions, events, changes>>

\* The hold is over: pull the model, wait for whoever pulls it, or reject.
HoldEnds(r) ==
    LET m == Wants(r)[1]
    IN  /\ pc[r] = "holding"
        /\ clock[r] = 0 \/ (FirstOf(r, {"hot", "cold"}) = None /\ ~Exists(r))
        /\ \/ (~AutoPull \/ m \notin pulls) /\ Reject(r)     \* or no node to pull to
           \/ /\ AutoPull /\ pc' = [pc EXCEPT ![r] = IF m \in pulls THEN "waiting" ELSE "pulling"]
              /\ pulls' = pulls \cup {m} /\ clock' = [clock EXCEPT ![r] = PullTries]
              /\ UNCHANGED <<heat, listed, answer, sessions, events, changes>>

\* _pulls_in_flight is given back whatever became of the pull.
\* Mutant: only where it ended well.
PullFails_Keeping(r) ==
    /\ pc[r] = "pulling" /\ Answer(r, None)
    /\ UNCHANGED <<heat, listed, pulls, sessions, events, changes>>
PullFails(r) ==
    /\ pc[r] = "pulling" /\ Answer(r, None) /\ pulls' = pulls \ {Wants(r)[1]}
    /\ UNCHANGED <<heat, listed, sessions, events, changes>>

\* The model is listed at once, without waiting for the node's heartbeat; the scorer may
\* still refuse the node.
PullEnds(r) ==
    LET m == Wants(r)[1]
    IN  /\ pc[r] = "pulling" /\ pulls' = pulls \ {m} /\ listed' = listed \cup {m}
        /\ \/ /\ heat' = [heat EXCEPT ![m] = IF @ = "none" THEN "cold" ELSE @]
              /\ Answer(r, m) /\ _remember_session_node(r)
           \/ /\ heat[m] = "none" /\ Answer(r, None) /\ UNCHANGED <<heat, sessions>>
    /\ UNCHANGED <<events, changes>>

WaitSleeps(r) ==
    /\ pc[r] = "waiting" /\ Wants(r)[1] \in pulls /\ clock[r] > 0
    /\ clock' = [clock EXCEPT ![r] = @ - 1]
    /\ UNCHANGED <<heat, listed, pc, pulls, answer, sessions, events, changes>>

\* The pull is over, or the wait: one look, and no second pull.
WaitEnds(r) ==
    LET m == Wants(r)[1]
    IN  /\ pc[r] = "waiting" /\ (m \notin pulls \/ clock[r] = 0)
        /\ \/ heat[m] # "none" /\ Answer(r, m) /\ _remember_session_node(r)
           \/ heat[m] = "none" /\ Answer(r, None) /\ UNCHANGED sessions
        /\ UNCHANGED <<heat, listed, pulls, events, changes>>

-----------------------------------------------------------------------------

\* The fleet: models are loaded, evicted and deleted, nodes come and go.
Changes(m) ==
    /\ changes < MaxChanges /\ changes' = changes + 1
    /\ \E h \in {"hot", "cold", "none"}, l \in BOOLEAN :
        /\ h # heat[m] /\ (h # "none" => l)
        /\ heat' = [heat EXCEPT ![m] = h]
        /\ listed' = IF l THEN listed \cup {m} ELSE listed \ {m}
    /\ UNCHANGED <<pc, clock, pulls, answer, sessions, events>>

Step(r) ==
    \/ Route(r) \/ HoldFinds(r) \/ HoldSleeps(r) \/ HoldEnds(r)
    \/ PullFails(r) \/ PullEnds(r) \/ WaitSleeps(r) \/ WaitEnds(r)

Next == (\E r \in Names : Step(r)) \/ \E m \in Models : Changes(m)

\* A coroutine that can go on does: sleeps end and the pull's timeout fires.
Fairness == \A r \in Names : WF_vars(Step(r))
Spec == Init /\ [][Next]_vars /\ Fairness

-----------------------------------------------------------------------------
(* Properties.                                                               *)

\* A model is pulled by one request at a time, and for as long as it is listed as in
\* flight somebody pulls it: a pull that failed does not leave every later request for
\* that model waiting for nobody.
PulledOnce ==
    \A m \in Models :
        Cardinality({r \in Names : pc[r] = "pulling" /\ Wants(r)[1] = m}) = (IF m \in pulls THEN 1 ELSE 0)

\* A request served by a model it did not name had allowed it, was counted as a
\* fallback, and kept its images where it left its own kind of model.
FallbackIsAllowed ==
    \A r \in Names :
        LET m == answer[r]
        IN  m # None /\ m \notin ToSet(Wants(r)) =>
                /\ parse_allow_fallback(r) /\ <<Wants(r)[1], m>> \in events
                /\ ~Outranks(Wants(r)[1], m)
                /\ Requests[r].images => Kind[m] \in {"vision", Kind[Wants(r)[1]]}

\* Every request is answered, by a model or by a rejection, whatever the fleet and
\* the other requests do.
EveryoneAnswered == \A r \in Names : <>(pc[r] = "done")

-----------------------------------------------------------------------------
(* What the proofs of the properties rest on.                                *)

\* Who pulls a model is alone with it, and it is noted for as long as that lasts.
PullsNoted ==
    /\ DOMAIN pc = Names /\ DOMAIN answer = Names
    /\ \A r, s \in Names :
        pc[r] = "pulling" /\ pc[s] = "pulling" /\ Wants(r)[1] = Wants(s)[1] => r = s
    /\ \A m \in Models : m \in pulls <=> \E r \in Names : pc[r] = "pulling" /\ Wants(r)[1] = m
=============================================================================
