--------------------------- MODULE TrialProtocol ---------------------------
(***************************************************************************)
(* What the update engine promises about the one link every daemon execs   *)
(* through, per component: the live release changes only while a durable   *)
(* record says which release is on trial and which one it replaced, and it *)
(* changes only to one of those two or to golden                           *)
(* (updater/src/engine.rs, the three rules at its head; journal.rs,        *)
(* BootCounter::arm).                                                      *)
(***************************************************************************)
CONSTANTS Components, Versions, None, Golden, Factory

VARIABLES
    live,   \* the release consumers read through `current`
    trial   \* the durable record: [new, old] of each component

Untried == [new |-> None, old |-> None]

TypeOK ==
    /\ live \in [Components -> Versions \cup {None}]
    /\ trial \in [Components ->
                    [new : Versions \cup {None}, old : Versions \cup {None}]]

Init ==
    /\ live = Factory
    /\ trial = [c \in Components |-> Untried]

OnTrial(c) == trial[c] # Untried

\* A record is made of what is live at that moment; it replaces an older one.
Propose(c, v) ==
    /\ trial' = [trial EXCEPT ![c] = [new |-> v, old |-> live[c]]]
    /\ UNCHANGED live

Switch(c) ==
    /\ OnTrial(c)
    /\ live' = [live EXCEPT ![c] = trial[c].new]
    /\ UNCHANGED trial

Return(c) ==
    /\ OnTrial(c)
    /\ \E v \in {trial[c].old, Golden[c]} : live' = [live EXCEPT ![c] = v]
    /\ UNCHANGED trial

Settle(c) ==
    /\ OnTrial(c)
    /\ trial' = [trial EXCEPT ![c] = Untried]
    /\ UNCHANGED live

Next == \E c \in Components :
    \/ \E v \in Versions : Propose(c, v)
    \/ Switch(c) \/ Return(c) \/ Settle(c)

Spec == Init /\ [][Next]_<<live, trial>>
=============================================================================
