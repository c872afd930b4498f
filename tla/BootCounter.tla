----------------------------- MODULE BootCounter -----------------------------
(***************************************************************************)
(* pending.json, the file of the releases on trial, call by call as        *)
(* updater/src/journal.rs (BootCounter) and fsutil.rs (write_atomic) work  *)
(* on it: each call reads the file, changes a copy and puts a new file in  *)
(* its place under a temporary name that is the same for everyone, or      *)
(* removes it when no trial is left.  Two processes may be at it: the one  *)
(* that holds the update lock, and an updaterd that recovers before it     *)
(* serves, without the lock.  `updaterd install` meets the latter when the *)
(* post-install hook starts the units of the release (hooks/postinstall).  *)
(***************************************************************************)
EXTENDS Naturals

CONSTANTS
    Components, Versions,
    Inodes,       \* files there may be at once
    Overlap,      \* whether a start may fall into the calls of the lock's holder
    MaxArms,      \* bound: trials armed
    MaxStarts,    \* bound: starts of updaterd
    MaxFaults,    \* bound: calls that meet an error or a kill
    MaxPowerCuts  \* bound: power cuts

ASSUME CounterAssumption ==
    /\ Versions \subseteq Nat \ {0} /\ Inodes \subseteq Nat \ {0}
    /\ Overlap \in BOOLEAN
    /\ MaxArms \in Nat /\ MaxStarts \in Nat /\ MaxFaults \in Nat /\ MaxPowerCuts \in Nat

VARIABLES
    files,    \* what each file holds, and whether it has been synced
    names,    \* the file that each of the two names is of, 0 if of none
    disk,     \* the records a power cut may leave
    call,     \* the call that each process is in
    owed,     \* history: per component, what may be on trial by the arms answered
    cleared,  \* history: components whose trial was confirmed, and no arming since
    spent     \* arms, starts, faults and power cuts so far

counterVars == <<files, names, disk, call, owed, cleared, spent>>

Callers == {"locked", "starting"}

\* A version of no component is 0.
NoTrial == [version |-> 0, boots |-> 0]
Trials  == [version : Versions, boots : Nat] \cup {NoTrial}
Records == [Components -> Trials]
Blank   == [c \in Components |-> NoTrial]

\* A file that does not parse reads as no trials: one truncated, or written by two.
Texts   == {"json", "truncated", "garbled"}
NoText  == [text |-> "truncated", record |-> Blank, synced |-> FALSE]
File    == [text : Texts, record : Records, synced : BOOLEAN]

Kinds   == {"arm", "confirm", "boot"}
Idle    == [step |-> "rest", kind |-> "boot", comp |-> 0, version |-> 0,
            record |-> Blank, at |-> 0]
CallSet == [step : {"rest", "remove", "create", "write", "sync", "rename", "settle"},
            kind : Kinds, comp : Components \cup {0}, version : Versions \cup {0},
            record : Records, at : Inodes \cup {0}]

CounterTypeOK ==
    /\ files \in [Inodes -> File]
    /\ names \in [pending : Inodes \cup {0}, temp : Inodes \cup {0}]
    /\ disk \subseteq Records
    /\ call \in [Callers -> CallSet]
    /\ owed \in [Components -> SUBSET Versions]
    /\ cleared \subseteq Components
    /\ spent \in [arms : 0..MaxArms, starts : 0..MaxStarts, faults : 0..MaxFaults,
                  cuts : 0..MaxPowerCuts]

\* What read_all finds: nothing without a file, or in one that does not parse.
Found(i) == IF i # 0 /\ files[i].text = "json" THEN files[i].record ELSE Blank
Read     == Found(names.pending)

CounterInit ==
    /\ files = [i \in Inodes |-> NoText]
    /\ names = [pending |-> 0, temp |-> 0]
    /\ disk = {Blank}
    /\ call = [p \in Callers |-> Idle]
    /\ owed = [c \in Components |-> {}]
    /\ cleared = {}
    /\ spent = [arms |-> 0, starts |-> 0, faults |-> 0, cuts |-> 0]

-----------------------------------------------------------------------------
(* A call: the file is read and a copy changed. *)

\* Variant of Armed: one slot for all components.
ArmedOnly(r, c, v) == [Blank EXCEPT ![c] = [version |-> v, boots |-> 0]]

Armed(r, c, v) == [r EXCEPT ![c] = [version |-> v, boots |-> 0]]
Cleared(r, c)  == [r EXCEPT ![c] = NoTrial]

Counted(r) ==
    [c \in Components |-> IF r[c] = NoTrial THEN NoTrial ELSE [r[c] EXCEPT !.boots = @ + 1]]

\* p reads and will leave r: by removing the file if no trial is left.
Begins(p, kind, c, v, r) ==
    /\ call[p].step = "rest"
    /\ Overlap \/ \A q \in Callers : call[q].step = "rest"
    /\ call' = [call EXCEPT ![p] =
                    [step |-> IF r = Blank THEN "remove" ELSE "create",
                     kind |-> kind, comp |-> c, version |-> v, record |-> r, at |-> 0]]
    /\ UNCHANGED <<files, names, disk>>

\* An operation arms before it swaps, under the lock.
Arms(c, v) ==
    /\ spent.arms < MaxArms /\ spent' = [spent EXCEPT !.arms = @ + 1]
    /\ Begins("locked", "arm", c, v, Armed(Read, c, v))
    /\ owed' = [owed EXCEPT ![c] = IF @ = {} THEN {} ELSE @ \cup {v}]
    /\ cleared' = cleared \ {c}

\* A gate that passed, a revert that is done, or a trial the start settles.
Confirms(p, c) ==
    /\ Begins(p, "confirm", c, 0, Cleared(Read, c))
    /\ owed' = [owed EXCEPT ![c] = {}]
    /\ UNCHANGED <<cleared, spent>>

\* record_boot returns at once if there is nothing to count.
Boots ==
    /\ Read # Blank
    /\ spent.starts < MaxStarts /\ spent' = [spent EXCEPT !.starts = @ + 1]
    /\ Begins("starting", "boot", 0, 0, Counted(Read))
    /\ UNCHANGED <<owed, cleared>>

-----------------------------------------------------------------------------
(* The steps of write_all and write_atomic. *)

GoesTo(p, step) == call' = [call EXCEPT ![p].step = step]

Answers(p) ==
    /\ call' = [call EXCEPT ![p] = Idle]
    /\ owed' = IF call[p].kind = "arm"
               THEN [owed EXCEPT ![call[p].comp] = {call[p].version}] ELSE owed
    /\ cleared' = IF /\ call[p].kind = "confirm"
                     /\ \A q \in Callers : call[q].kind = "arm" => call[q].comp # call[p].comp
                  THEN cleared \cup {call[p].comp} ELSE cleared

\* The removal of a file is not made to last, as a rename is.
Removes(p) ==
    /\ call[p].step = "remove"
    /\ names' = [names EXCEPT !.pending = 0]
    /\ disk' = disk \cup {Blank}
    /\ Answers(p)
    /\ UNCHANGED <<files, spent>>

\* File::create truncates a temporary file that is there.
Creates(p) ==
    /\ call[p].step = "create"
    /\ \E i \in Inodes :
           /\ IF names.temp # 0 THEN i = names.temp
              ELSE i # names.pending /\ \A q \in Callers : call[q].at # i
           /\ files' = [files EXCEPT ![i] = NoText]
           /\ names' = [names EXCEPT !.temp = i]
           /\ call' = [call EXCEPT ![p].step = "write", ![p].at = i]
    /\ UNCHANGED <<disk, owed, cleared, spent>>

\* From the start of the file, over what another may have written there since.
Written(p) ==
    {[text |-> t, record |-> call[p].record, synced |-> FALSE] :
        t \in IF files[call[p].at].text = "truncated" THEN {"json"} ELSE {"json", "garbled"}}

Writes(p) ==
    /\ call[p].step = "write"
    /\ \E f \in Written(p) :
           /\ files' = [files EXCEPT ![call[p].at] = f]
           /\ disk' = IF call[p].at = names.pending THEN disk \cup {Blank, f.record} ELSE disk
    /\ GoesTo(p, "sync")
    /\ UNCHANGED <<names, owed, cleared, spent>>

\* Variant of Syncs: the rename comes without it.
SyncsNothing(p) ==
    /\ call[p].step = "sync"
    /\ GoesTo(p, "rename")
    /\ UNCHANGED <<files, names, disk, owed, cleared, spent>>

Syncs(p) ==
    /\ call[p].step = "sync"
    /\ files' = [files EXCEPT ![call[p].at].synced = TRUE]
    /\ GoesTo(p, "rename")
    /\ UNCHANGED <<names, disk, owed, cleared, spent>>

\* Whatever has the temporary name by now; it fails if another has renamed it away.
Renames(p) ==
    /\ call[p].step = "rename" /\ names.temp # 0
    /\ names' = [pending |-> names.temp, temp |-> 0]
    /\ disk' = disk \cup {Found(names.temp)}
                    \cup (IF files[names.temp].synced THEN {} ELSE {Blank})
    /\ GoesTo(p, "settle")
    /\ UNCHANGED <<files, owed, cleared, spent>>

Settles(p) ==
    /\ call[p].step = "settle"
    /\ disk' = {Read} \cup (IF names.pending = 0 \/ files[names.pending].synced
                            THEN {} ELSE {Blank})
    /\ Answers(p)
    /\ UNCHANGED <<files, names, spent>>

\* An error ends the call, and so does the end of the process: a write may be left half done.
Ends(p) ==
    /\ call[p].step # "rest"
    /\ \/ call[p].step = "rename" /\ names.temp = 0 /\ UNCHANGED spent
       \/ spent.faults < MaxFaults /\ spent' = [spent EXCEPT !.faults = @ + 1]
    /\ \/ UNCHANGED <<files, disk>>
       \/ /\ call[p].step = "write"
          /\ files' = [files EXCEPT ![call[p].at].text = "garbled"]
          /\ disk' = IF call[p].at = names.pending THEN disk \cup {Blank} ELSE disk
    /\ call' = [call EXCEPT ![p] = Idle]
    /\ UNCHANGED <<names, owed, cleared>>

PowerGoes ==
    /\ spent.cuts < MaxPowerCuts /\ spent' = [spent EXCEPT !.cuts = @ + 1]
    /\ \E r \in disk, i \in Inodes :
           /\ files' = [files EXCEPT ![i] = [text |-> "json", record |-> r, synced |-> TRUE]]
           /\ names' = [pending |-> IF r = Blank THEN 0 ELSE i, temp |-> 0]
           /\ disk' = {r}
    /\ call' = [p \in Callers |-> Idle]
    /\ UNCHANGED <<owed, cleared>>

Does(p) ==
    \/ Removes(p) \/ Creates(p) \/ Writes(p) \/ Syncs(p) \/ Renames(p) \/ Settles(p) \/ Ends(p)

CounterNext ==
    \/ \E c \in Components, v \in Versions : Arms(c, v)
    \/ \E p \in Callers, c \in Components : Confirms(p, c)
    \/ Boots
    \/ \E p \in Callers : Does(p)
    \/ PowerGoes

CounterSpec == CounterInit /\ [][CounterNext]_counterVars

-----------------------------------------------------------------------------
(* Properties.                                                             *)

\* A trial that was armed is there after a power cut at any later moment, whatever becomes
\* of the calls after it, until it is confirmed (BootCounter::arm: written before the swap;
\* fsutil.rs: the record must survive a power cut that also made the swap visible).
ArmedIsDurable == \A c \in Components, r \in disk : owed[c] # {} => r[c].version \in owed[c]

\* A trial that was confirmed is not on record until it is armed again
\* (BootCounter::confirm: clear one component's trial after a passed health gate).
ConfirmedStaysClear == \A c \in cleared : Read[c] = NoTrial

\* Where no start falls into the calls of the lock's holder the file is the record the
\* engine takes it for: each call changes it in one step or not at all.
Book == INSTANCE TrialRecord WITH record <- Read, loose <- disk

ImplementsTrialRecord == Book!Spec
=============================================================================
