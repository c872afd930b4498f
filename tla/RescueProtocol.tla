--------------------------- MODULE RescueProtocol ---------------------------
(***************************************************************************)
(* What is left of the trial protocol with robot-rescue beside the engine. *)
(* The rescue takes no lock and leaves no trial: it puts the link of its   *)
(* component on golden at any time (scripts/robot-rescue), so an update it *)
(* falls into arms a trial about the release it found, which is no longer  *)
(* the live one.  Nothing else of the protocol breaks, and nothing at all  *)
(* for the other components.                                               *)
(***************************************************************************)
EXTENDS TrialProtocol

CONSTANT Tree  \* the component whose link the rescue swaps

Displace ==
    /\ live' = [live EXCEPT ![Tree] = Golden[Tree]]
    /\ UNCHANGED trial

\* The release on record as replaced was live before a rescue displaced it.
ProposeDisplaced(v) ==
    /\ live[Tree] = Golden[Tree]
    /\ \E old \in Versions \cup {None} :
           trial' = [trial EXCEPT ![Tree] = [new |-> v, old |-> old]]
    /\ UNCHANGED live

RescueNext ==
    \/ Next
    \/ Displace
    \/ \E v \in Versions : ProposeDisplaced(v)

RescueSpec == Init /\ [][RescueNext]_<<live, trial>>
=============================================================================
