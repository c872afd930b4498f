----------------------------- MODULE TrialRecord -----------------------------
(***************************************************************************)
(* What updaterd promises about the record of releases on trial, as the    *)
(* engine uses it (updater/src/journal.rs, BootCounter): a call changes it *)
(* in one step or not at all, and a power cut leaves it as it is or as it  *)
(* was before a change that was not yet made to last.                      *)
(***************************************************************************)
EXTENDS Naturals

CONSTANTS Components, Versions

VARIABLES
    record,  \* the trial of each component, as a reader finds it
    loose    \* the records a power cut may leave

NoTrial == [version |-> 0, boots |-> 0]
Blank   == [c \in Components |-> NoTrial]

Armed(r, c, v) == [r EXCEPT ![c] = [version |-> v, boots |-> 0]]
Cleared(r, c)  == [r EXCEPT ![c] = NoTrial]
Counted(r) ==
    [c \in Components |-> IF r[c] = NoTrial THEN NoTrial ELSE [r[c] EXCEPT !.boots = @ + 1]]

Init == record = Blank /\ loose = {Blank}

Becomes(r) == record' = r /\ loose' = loose \cup {r}

Arm(c, v)  == Becomes(Armed(record, c, v))
Confirm(c) == Becomes(Cleared(record, c))
Boot       == Becomes(Counted(record))

\* What was changed is made to last.
Settle == loose' = {record} /\ UNCHANGED record

Cut == record' \in loose /\ loose' = {record'}

Next ==
    \/ \E c \in Components, v \in Versions : Arm(c, v)
    \/ \E c \in Components : Confirm(c)
    \/ Boot \/ Settle \/ Cut

Spec == Init /\ [][Next]_<<record, loose>>
=============================================================================
