---------------------------- MODULE PinnedModels ----------------------------
(***************************************************************************)
(* server/pinned_models.py: the pins of each node in a JSON file that is read   *)
(* for every call and replaced as a whole by every change.                   *)
(***************************************************************************)
EXTENDS Naturals, FiniteSets

CONSTANTS Nodes, Models,
          Unreadable,   \* a file that was cut short
          Nothing

VARIABLES file,     \* node -> its pins, or Unreadable
          temp,     \* what a writer put in its temporary file, Nothing without one
          asked,    \* the change being written
          wanted    \* history: what was acknowledged last

vars == <<file, temp, asked, wanted>>

NoPins == [n \in Nodes |-> {}]

Init == file = NoPins /\ temp = Nothing /\ asked = Nothing /\ wanted = NoPins

\* load: a file that cannot be read counts as one without pins.
Loaded == IF file = Unreadable THEN NoPins ELSE file

Changed(pins, n, m, pinned) ==
    [pins EXCEPT ![n] = IF pinned THEN @ \cup {m} ELSE @ \ {m}]

\* set_pin, under the store's lock: read, change, write the temporary file...
SetPin(n, m, pinned) ==
    /\ temp = Nothing
    /\ temp' = Changed(Loaded, n, m, pinned)
    /\ asked' = [node |-> n, model |-> m, pinned |-> pinned]
    /\ UNCHANGED <<file, wanted>>

\* Mutant of Crash: the file is written in place, which a crash cuts short.
Crash_InPlace ==
    /\ temp # Nothing /\ file' = Unreadable
    /\ temp' = Nothing /\ asked' = Nothing
    /\ UNCHANGED wanted

\* ... and put it in the place of the file.
Replace ==
    /\ temp # Nothing
    /\ file' = temp /\ temp' = Nothing /\ asked' = Nothing
    /\ wanted' = Changed(wanted, asked.node, asked.model, asked.pinned)

\* os.replace fails, or the router dies: the file is the old one.
Crash ==
    /\ temp # Nothing
    /\ temp' = Nothing /\ asked' = Nothing
    /\ UNCHANGED <<file, wanted>>

Next ==
    \/ \E n \in Nodes, m \in Models, pinned \in BOOLEAN : SetPin(n, m, pinned)
    \/ Replace \/ Crash

-----------------------------------------------------------------------------
(* Properties.                                                               *)

\* Every pin that was acknowledged is loaded until it is taken back, and no other,
\* over any crash in the middle of a change.
PinsDurable == Loaded = wanted

-----------------------------------------------------------------------------
(* What the proofs of the properties rest on.                                *)

\* The file is what was acknowledged last, and a writer holds that with its change made.
PinsWritten ==
    /\ file \in [Nodes -> SUBSET Models] /\ file = wanted
    /\ temp # Nothing =>
        \E n \in Nodes, m \in Models, pinned \in BOOLEAN :
            /\ asked = [node |-> n, model |-> m, pinned |-> pinned]
            /\ temp = Changed(wanted, n, m, pinned)
=============================================================================
