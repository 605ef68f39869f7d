-------------------------- MODULE RequestLifecycle --------------------------
(***************************************************************************)
(* What the router's queue layer promises about a request, whatever queue  *)
(* it waits in and whichever worker picks it up: it is dispatched at most   *)
(* once, it never comes back once it left, and the callers of one client    *)
(* address never have more than Limit requests inside at a time -- a        *)
(* request is refused only when its client really is at that cap.           *)
(* QueueManager.tla is shown to implement this specification.               *)
(***************************************************************************)
EXTENDS Naturals, FiniteSets

CONSTANTS Requests,   \* the requests callers may submit
          Anonymous,  \* the client of a request that carries no address
          ClientOf,   \* the client of each request
          Limit       \* per-client cap on requests inside; 0 disables it

VARIABLE stage        \* stage of each request

Stages == {"new", "refused", "waiting", "running", "settled"}

Capped(r) == Limit > 0 /\ ClientOf[r] # Anonymous

\* The requests of client c that are inside.
Inside(c) == {r \in Requests : ClientOf[r] = c /\ stage[r] \in {"waiting", "running"}}

Init == stage = [r \in Requests |-> "new"]

\* One request enters; a capped client must have a slot free.
Submit(r) ==
    /\ stage[r] = "new"
    /\ Capped(r) => Cardinality(Inside(ClientOf[r])) < Limit
    /\ stage' = [stage EXCEPT ![r] = "waiting"]

\* One request is turned away, only because its client is at the cap.
Refuse(r) ==
    /\ stage[r] = "new"
    /\ Capped(r)
    /\ Cardinality(Inside(ClientOf[r])) >= Limit
    /\ stage' = [stage EXCEPT ![r] = "refused"]

\* A worker starts one waiting request.
Dispatch(r) ==
    /\ stage[r] = "waiting"
    /\ stage' = [stage EXCEPT ![r] = "running"]

\* A request whose caller left before it was started is dropped.
Drop(r) ==
    /\ stage[r] = "waiting"
    /\ stage' = [stage EXCEPT ![r] = "settled"]

\* Running requests end, one at a time or several in one reaper pass.
Settle(S) ==
    /\ S # {}
    /\ \A r \in S : stage[r] = "running"
    /\ stage' = [r \in Requests |-> IF r \in S THEN "settled" ELSE stage[r]]

Next == \/ \E r \in Requests : Submit(r) \/ Refuse(r) \/ Dispatch(r) \/ Drop(r)
        \/ \E S \in SUBSET Requests : Settle(S)

Spec == Init /\ [][Next]_stage
=============================================================================
