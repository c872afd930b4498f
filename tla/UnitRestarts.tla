---------------------------- MODULE UnitRestarts ----------------------------
(***************************************************************************)
(* Which release each daemon runs, as against the one that is active       *)
(* (updater/src/engine.rs, reconcile.rs).  An operation restarts what a    *)
(* release ships, in place, except updaterd and btd; those two get a       *)
(* transient timer once the operation has succeeded, and what its callers  *)
(* leave undone is for the next start of updaterd to find.                 *)
(*                                                                         *)
(* Stores, trials and boots are Updater's matter: a trial is here the      *)
(* release to go back to, and a start judges it either way.  The code      *)
(* restarts the services of a release in the order of their names; here in *)
(* any.                                                                    *)
(***************************************************************************)
EXTENDS Naturals

CONSTANTS
    Plain,          \* services restarted in place
    LastVersion,    \* bound: versions are 1..LastVersion
    MaxOperations,  \* bound: operations
    MaxFailures,    \* bound: restarts that fail, or are not scheduled
    MaxShocks       \* bound: services that crash or are stopped, and reboots

Updaterd == "updaterd"
Deferred == {Updaterd, "btd"}   \* NEVER_RESTART and RESTART_AFTER_REPLYING
Services == Plain \cup Deferred
Versions == 1..LastVersion
NoTrial  == 0
Down     == 0

ASSUME PlainAssumption == Plain \cap Deferred = {}
ASSUME VersionsAssumption == LastVersion \in Nat \ {0}
ASSUME UnitBounds == {MaxOperations, MaxFailures, MaxShocks} \subseteq Nat

VARIABLES
    current,   \* the active release
    trial,     \* the release an armed trial goes back to
    runs,      \* the release each service's process was started from
    work,      \* what updaterd is doing, and the services it has yet to see to
    timers,    \* services whose transient restart timer runs
    excused,   \* history: services known to be owed a restart they did not get
    operations, failures, shocks   \* how many so far

counters == <<operations, failures, shocks>>
unitVars == <<current, trial, runs, work, timers, excused, counters>>

Procedures == {"apply", "select", "rollback", "recover"}
Steps == {"serve", "restart", "gate", "revert", "defer", "recover", "reconcile"}
Serving == [step |-> "serve", kind |-> "apply", todo |-> {}]

UnitTypeOK ==
    /\ current \in Versions /\ trial \in Versions \cup {NoTrial}
    /\ runs \in [Services -> Versions \cup {Down}]
    /\ work \in [step: Steps, kind: Procedures, todo: SUBSET Services]
    /\ timers \subseteq Services /\ excused \subseteq Services
    /\ operations \in 0..MaxOperations /\ failures \in 0..MaxFailures
    /\ shocks \in 0..MaxShocks

UnitInit ==
    /\ current = 1 /\ trial = NoTrial
    /\ runs = [u \in Services |-> 1]
    /\ work = Serving /\ timers = {} /\ excused = {}
    /\ operations = 0 /\ failures = 0 /\ shocks = 0

----------------------------------------------------------------------------
(* Restarts.                                                                *)

\* A process starts from where current points at that moment.
Started(u) ==
    /\ runs' = [runs EXCEPT ![u] = current]
    /\ excused' = excused \ {u}

\* systemd refuses the restart, or the service does not come up.
NotStarted(u) ==
    /\ failures < MaxFailures /\ failures' = failures + 1
    /\ \E r \in {runs[u], Down} : runs' = [runs EXCEPT ![u] = r]

At(step) == work.step = step

\* The services of the release are restarted one by one, and the first that fails
\* ends it.
InPlace(step) ==
    /\ At(step)
    /\ \E u \in work.todo :
           /\ Started(u)
           /\ work' = [work EXCEPT !.todo = @ \ {u}]
    /\ UNCHANGED <<current, trial, timers, counters>>

----------------------------------------------------------------------------
(* Operations.                                                              *)

\* The symlink is swapped under an armed trial.
Swap(k) ==
    /\ At("serve") /\ operations < MaxOperations /\ operations' = operations + 1
    /\ k # "recover"
    /\ \E v \in Versions \ {current} : current' = v
    /\ trial' = current
    /\ work' = [step |-> "restart", kind |-> k, todo |-> Plain]
    /\ excused' = {}
    /\ UNCHANGED <<runs, timers, failures, shocks>>

\* rollback_to: what came up on the failed release since the swap, and is not
\* restarted in place, is left on it.
Reverts(k) ==
    /\ current' = trial /\ trial' = NoTrial
    /\ work' = [step |-> "revert", kind |-> k, todo |-> Plain]
    /\ excused' = excused \cup {u \in Deferred : runs[u] # trial}

\* A restart that fails reverts an apply; a transition returns the error with the
\* release live, and owes nothing.
ActionFails ==
    /\ At("restart")
    /\ \E u \in work.todo : NotStarted(u)
    /\ IF work.kind = "apply" THEN Reverts("apply")
       ELSE /\ trial' = NoTrial /\ work' = Serving
            /\ excused' = excused \cup work.todo \cup Deferred
            /\ UNCHANGED current
    /\ UNCHANGED <<timers, operations, shocks>>

ActionDone ==
    /\ At("restart") /\ work.todo = {}
    /\ work' = [work EXCEPT !.step = "gate"]
    /\ UNCHANGED <<current, trial, runs, timers, excused, counters>>

\* restarts_owed, of an operation that succeeded.  rollback and reset_to_golden
\* schedule nothing.
OwedBy(k) == IF k \in {"apply", "select"} THEN Deferred ELSE {}

GatePasses ==
    /\ At("gate")
    /\ trial' = NoTrial
    /\ work' = [work EXCEPT !.step = "defer", !.todo = OwedBy(work.kind)]
    /\ excused' = IF work.kind = "rollback" THEN excused \cup Deferred ELSE excused
    /\ UNCHANGED <<current, runs, timers, counters>>

GateFails ==
    /\ At("gate") /\ Reverts(work.kind)
    /\ UNCHANGED <<runs, timers, counters>>

\* Variant of Shipped: the start looks at the units an update restarts in place.
ShippedInPlace == Plain

\* The shipped set rather than the restart set: the two that an update leaves out are
\* the two this is for.
Shipped == Services

\* A revert ends with its restarts, or with the first that fails: the services after
\* that one stay on the release that was reverted.
AfterRevert == IF work.kind = "recover"
               THEN [Serving EXCEPT !.step = "reconcile", !.todo = Shipped]
               ELSE Serving

RevertFails ==
    /\ At("revert")
    /\ \E u \in work.todo : NotStarted(u)
    /\ excused' = excused \cup work.todo
    /\ work' = AfterRevert
    /\ UNCHANGED <<current, trial, timers, operations, shocks>>

RevertDone ==
    /\ At("revert") /\ work.todo = {}
    /\ work' = AfterRevert
    /\ UNCHANGED <<current, trial, runs, timers, excused, counters>>

Stale(u) == runs[u] \notin {current, Down}

\* An apply of the release that is active owes what does not run it.  A select of it
\* reports the same services, and restarts none.
AlreadyCurrent ==
    /\ At("serve") /\ operations < MaxOperations /\ operations' = operations + 1
    /\ \E u \in Services : Stale(u)
    /\ work' = [Serving EXCEPT !.step = "defer", !.todo = {u \in Services : Stale(u)}]
    /\ excused' = {}
    /\ UNCHANGED <<current, trial, runs, timers, failures, shocks>>

\* schedule_deferred_restarts: systemd-run makes the timer, or its failure is noted.
Defer ==
    /\ At("defer")
    /\ \E u \in work.todo :
           /\ work' = [work EXCEPT !.todo = @ \ {u}]
           /\ \/ /\ timers' = timers \cup {u}
                 /\ UNCHANGED <<excused, failures>>
              \/ /\ failures < MaxFailures /\ failures' = failures + 1
                 /\ excused' = excused \cup {u}
                 /\ UNCHANGED timers
    /\ UNCHANGED <<current, trial, runs, operations, shocks>>

Replied ==
    /\ At("defer") /\ work.todo = {}
    /\ work' = Serving
    /\ UNCHANGED <<current, trial, runs, timers, excused, counters>>

----------------------------------------------------------------------------
(* Processes.                                                               *)

\* A new updaterd takes nothing over from the old one.
Begins(u) == work' = IF u = Updaterd THEN [Serving EXCEPT !.step = "recover"] ELSE work

\* A timer goes off, whatever updaterd is doing by then.
Fires(u) ==
    /\ u \in timers /\ timers' = timers \ {u}
    /\ \/ Started(u) /\ Begins(u) /\ UNCHANGED failures
       \/ /\ failures < MaxFailures /\ failures' = failures + 1
          /\ excused' = excused \cup {u}
          /\ UNCHANGED <<runs, work>>
    /\ UNCHANGED <<current, trial, operations, shocks>>

Shock == shocks < MaxShocks /\ shocks' = shocks + 1

\* A service crashes and systemd starts it again, or starts one that is down.
Respawns(u) ==
    /\ Shock /\ Started(u) /\ Begins(u)
    /\ UNCHANGED <<current, trial, timers, operations, failures>>

\* Someone stops it.
Stopped(u) ==
    /\ u # Updaterd /\ Shock
    /\ runs' = [runs EXCEPT ![u] = Down]
    /\ UNCHANGED <<current, trial, work, timers, excused, operations, failures>>

Reboots ==
    /\ Shock
    /\ runs' = [u \in Services |-> current] /\ excused' = {}
    /\ timers' = {} /\ Begins(Updaterd)
    /\ UNCHANGED <<current, trial, operations, failures>>

----------------------------------------------------------------------------
(* The start of updaterd.                                                   *)

\* A trial is still on, is confirmed, or has used up its boots and is reverted.
RecoverKeeps ==
    /\ At("recover")
    /\ \E t \in {trial, NoTrial} : trial' = t
    /\ work' = [Serving EXCEPT !.step = "reconcile", !.todo = Shipped]
    /\ UNCHANGED <<current, runs, timers, excused, counters>>

RecoverReverts ==
    /\ At("recover") /\ trial # NoTrial
    /\ Reverts("recover")
    /\ UNCHANGED <<runs, timers, counters>>

\* verdict_for: what is down stays down, what is current is let alone, updaterd is
\* only reported, and the rest is restarted.
Reconcile(u) ==
    /\ At("reconcile") /\ u \in work.todo
    /\ work' = [work EXCEPT !.todo = @ \ {u}]
    /\ IF ~Stale(u)
       THEN excused' = excused \ {u} /\ UNCHANGED <<runs, failures>>
       ELSE IF u = Updaterd
       THEN excused' = excused \cup {u} /\ UNCHANGED <<runs, failures>>
       ELSE \/ Started(u) /\ UNCHANGED failures
            \/ NotStarted(u) /\ excused' = excused \cup {u}
    /\ UNCHANGED <<current, trial, timers, operations, shocks>>

Reconciled ==
    /\ At("reconcile") /\ work.todo = {}
    /\ work' = Serving
    /\ UNCHANGED <<current, trial, runs, timers, excused, counters>>

----------------------------------------------------------------------------
UnitNext ==
    \/ \E k \in Procedures : Swap(k)
    \/ \E step \in {"restart", "revert"} : InPlace(step)
    \/ ActionFails \/ ActionDone \/ GatePasses \/ GateFails
    \/ RevertFails \/ RevertDone \/ AlreadyCurrent \/ Defer \/ Replied
    \/ \E u \in Services : Fires(u) \/ Respawns(u) \/ Stopped(u) \/ Reconcile(u)
    \/ Reboots \/ RecoverKeeps \/ RecoverReverts \/ Reconciled

UnitSpec == UnitInit /\ [][UnitNext]_unitVars

----------------------------------------------------------------------------
(* Properties. *)

Settled == At("serve") /\ timers = {}

\* A robot at rest runs the active release in every daemon that runs, however the
\* operations, crashes and timers before fell; except where a restart failed or was not
\* scheduled since, after a rollback by hand (updaterd and btd), where a daemon came up
\* on a release that was then reverted, and in an updaterd that found itself stale at
\* its start (engine.rs:2681-2687, 2741; reconcile.rs:72-86; main.rs:584-589).
StaleIsExcused == Settled => \A u \in Services : Stale(u) => u \in excused
=============================================================================
