------------------------------ MODULE Updater ------------------------------
(***************************************************************************)
(* The update engine of updaterd: the release store, the boot counter, the *)
(* update log's verdicts and the state machine that moves `current` from   *)
(* one release to another (updater/src/engine.rs, store.rs, journal.rs).   *)
(*                                                                         *)
(* The engine installs, selects or reverts one release of one component at *)
(* a time, under one lock.  It may be killed between any two of the        *)
(* durable steps below, and starts again with recover_on_start.            *)
(***************************************************************************)
EXTENDS Naturals, FiniteSets

CONSTANTS
    Components,    \* components of updater.toml, as numbers in BTreeMap key order
    Versions,      \* published releases, as numbers in semver order
    Golden,        \* ComponentConfig::golden, None where it is unset
    Factory,       \* the release the bootstrap install left live, None if none
    KeepPrevious,  \* ComponentConfig::keep_previous
    SocketGate,    \* components whose health check is HealthCheck::Socket
    MaxBoots,      \* MAX_BOOT_ATTEMPTS
    Commands,      \* the operations clients ask for in this instance
    Faults,        \* the I/O steps that may fail in this instance
    MaxCommands,   \* bound: client operations in a behaviour
    MaxCrashes     \* bound: kills of updaterd in a behaviour

None == 0

Kinds  == {"latest", "exact", "rollback", "golden", "select", "recover"}
Points == {"publish", "arm", "swap", "confirm", "prune", "journal", "boots", "crumb"}

ASSUME ComponentsAssumption == Components \subseteq Nat
ASSUME VersionsAssumption   == Versions \subseteq Nat \ {None}
ASSUME GoldenAssumption     == Golden \in [Components -> Versions \cup {None}]
ASSUME FactoryAssumption    == Factory \in [Components -> Versions \cup {None}]
\* Config::validate refuses keep_previous = 0 without a golden release.
ASSUME KeepAssumption ==
    /\ KeepPrevious \in [Components -> Nat]
    /\ \A c \in Components : KeepPrevious[c] = 0 => Golden[c] # None
ASSUME BootsAssumption == MaxBoots \in Nat \ {0}
ASSUME BoundsAssumption ==
    /\ SocketGate \subseteq Components
    /\ Commands \subseteq Kinds /\ Faults \subseteq Points
    /\ MaxCommands \in Nat /\ MaxCrashes \in Nat

VARIABLES
    installed,  \* releases/<version> directories of each component
    current,    \* version the `current` symlink names
    golden,     \* version the `golden` symlink names
    pending,    \* pending.json: the armed trial of each component
    logged,     \* the latest outcome the update log holds for each version
    crumb,      \* robot-rescue's breadcrumb
    daemon,     \* where updaterd is in its life
    todo,       \* trials recover_on_start has still to look at
    op,         \* the operation that holds the update lock
    trialled,   \* history: how each version's latest trial really ended
    asked,      \* client operations so far
    crashes     \* kills so far

disk  == <<installed, current, golden, pending, logged, crumb>>
bound == <<asked, crashes>>
vars  == <<disk, daemon, todo, op, trialled, bound>>

NoTrial == [version |-> None, previous |-> None, boots |-> 0]
Trials  == [version : Versions, previous : Versions \cup {None}, boots : 0 .. MaxBoots]
NoCrumb == [comp |-> None, to |-> None]
Crumbs  == [comp : Components, to : Versions]

\* How far the operation has come.  An apply passes checking .. pruning; a
\* transition between installed releases starts at ready.
Stages == {"checking", "staging", "removed", "ready", "armed", "swapped",
           "gating", "confirming", "pruning", "committed",
           "reverting", "reverted", "undone"}
NoOp == [kind |-> "none", comp |-> None, to |-> None, from |-> None, stage |-> "idle"]
Ops  == [kind : Kinds, comp : Components, to : Versions,
         from : Versions \cup {None}, stage : Stages]

Outcomes == {"none", "success", "rolled_back", "aborted"}

TypeOK ==
    /\ installed \in [Components -> SUBSET Versions]
    /\ current \in [Components -> Versions \cup {None}]
    /\ golden \in [Components -> Versions \cup {None}]
    /\ pending \in [Components -> Trials \cup {NoTrial}]
    /\ logged \in [Components -> [Versions -> Outcomes]]
    /\ crumb \in Crumbs \cup {NoCrumb}
    /\ daemon \in {"down", "starting", "counting", "recovering", "serving"}
    /\ todo \in SUBSET Components
    /\ op \in Ops \cup {NoOp}
    /\ trialled \in [Components -> [Versions -> {"untried", "passed", "failed"}]]
    /\ asked \in Nat /\ crashes \in Nat

\* A board as the bootstrap install leaves it: at most one release, live, and
\* accepted without a gate because nothing was running that could be asked.
Init ==
    /\ installed = [c \in Components |-> {Factory[c]} \ {None}]
    /\ current = Factory
    /\ golden = [c \in Components |-> None]
    /\ pending = [c \in Components |-> NoTrial]
    /\ logged = [c \in Components |-> [v \in Versions |->
                    IF v = Factory[c] THEN "success" ELSE "none"]]
    /\ crumb = NoCrumb
    /\ daemon = "down"
    /\ todo = {}
    /\ op = NoOp
    /\ trialled = [c \in Components |-> [v \in Versions |->
                      IF v = Factory[c] THEN "passed" ELSE "untried"]]
    /\ asked = 0 /\ crashes = 0

-----------------------------------------------------------------------------
(* What the engine computes from the disk. *)

\* Journal::known_bad: versions whose latest entry is a rollback.
KnownBad(c) == {v \in Versions : logged[c][v] = "rolled_back"}

\* Engine::rollback_target's candidates; it takes the newest of them.
RollbackCandidates(c) ==
    {v \in installed[c] \ KnownBad(c) : current[c] # None => v < current[c]}
RollbackTargets(c) ==
    {v \in RollbackCandidates(c) : \A w \in RollbackCandidates(c) : w <= v}

\* Variants of Spare: prune forgets that the live release, or golden, is exempt.
SpareWithLive(c)   == installed[c] \ {Golden[c]}
SpareWithGolden(c) == installed[c] \ {current[c]}

\* Store::prune: all but the live release, golden and the newest
\* keep_previous of the others.
Spare(c)  == installed[c] \ {current[c], Golden[c]}
Doomed(c) == {v \in Spare(c) :
                Cardinality({w \in Spare(c) : w > v}) >= KeepPrevious[c]}

\* recover_on_start's chain: previous if usable, else golden if installed.
RecoveryTarget(c) ==
    IF pending[c].previous \in installed[c] \ KnownBad(c) THEN pending[c].previous
    ELSE IF Golden[c] \in installed[c] THEN Golden[c]
    ELSE None

MayFail(point) == point \in Faults

At(stage) == op # NoOp /\ op.stage = stage
Applying  == op.kind \in {"latest", "exact"}
Goto(stage) == op' = [op EXCEPT !.stage = stage]

Disarmed(c)     == [pending EXCEPT ![c] = NoTrial]
Logging(c, v, o) == [logged EXCEPT ![c][v] = o]
Tried(c, v, o)   == [trialled EXCEPT ![c][v] = o]

-----------------------------------------------------------------------------
(* Client operations.  Each takes the update lock or answers Busy, which   *)
(* changes nothing.                                                        *)

Ask(kind) ==
    /\ daemon = "serving" /\ op = NoOp
    /\ kind \in Commands /\ asked < MaxCommands
    /\ asked' = asked + 1
    /\ UNCHANGED <<disk, daemon, todo, trialled, crashes>>

Operation(kind, c, to, from, stage) ==
    op' = [kind |-> kind, comp |-> c, to |-> to, from |-> from, stage |-> stage]

\* apply: `installed` is read before the manifest is fetched.  "latest" is a
\* target a stale mirror can walk backwards (Latest, bare Staging); "exact" one
\* an operator named (Exact, Ref, StagingExact, --from).
AskApply(c, v) == \E kind \in {"latest", "exact"} :
    /\ Ask(kind)
    /\ Operation(kind, c, v, current[c], "checking")

AskRollback(c) == \E v \in RollbackTargets(c) :
    /\ Ask("rollback")
    /\ Operation("rollback", c, v, current[c], "ready")

\* Variant of AskGolden: a component with no golden release is not refused.
AskGoldenUnset(c) ==
    /\ Ask("golden")
    /\ Golden[c] \in installed[c] \cup {None}
    /\ Operation("golden", c, Golden[c], current[c], "ready")

AskGolden(c) ==
    /\ Ask("golden")
    /\ Golden[c] \in installed[c]
    /\ Operation("golden", c, Golden[c], current[c], "ready")

AskSelect(c, v) ==
    /\ Ask("select")
    /\ v \in installed[c] /\ v # current[c]
    /\ Operation("select", c, v, current[c], "ready")

-----------------------------------------------------------------------------
(* apply_inner and stage_and_swap, up to the release directory. *)

\* The operation ends without a verdict on the release it was about.
EndOp == op' = NoOp /\ UNCHANGED <<daemon, todo>>

\* Every refusal and failure before anything moves: preflight, signature,
\* channel, pin, compatibility, space, download, hash, orphan, dry run, pre hook.
Refuse ==
    /\ At("checking") \/ At("staging")
    /\ EndOp
    /\ UNCHANGED <<disk, trialled, bound>>

\* Variant of AdmitCandidate: the release that is live is installed over itself.
AdmitAgain ==
    /\ At("checking")
    /\ op.kind = "latest" /\ op.from # None => op.to >= op.from
    /\ op' = [op EXCEPT !.stage = "staging", !.from = current[op.comp]]
    /\ UNCHANGED <<disk, daemon, todo, trialled, bound>>

\* Not already current, and not a downgrade by a moving target.  The release
\* to fall back to is read again here.
AdmitCandidate ==
    /\ At("checking")
    /\ op.to # op.from
    /\ op.kind = "latest" /\ op.from # None => op.to > op.from
    /\ op' = [op EXCEPT !.stage = "staging", !.from = current[op.comp]]
    /\ UNCHANGED <<disk, daemon, todo, trialled, bound>>

\* A directory of the same version is removed before the rename.
RemoveOldDir ==
    /\ At("staging")
    /\ installed' = [installed EXCEPT ![op.comp] = @ \ {op.to}]
    /\ Goto("removed")
    /\ UNCHANGED <<current, golden, pending, logged, crumb, daemon, todo, trialled, bound>>

Publish ==
    /\ At("removed")
    /\ installed' = [installed EXCEPT ![op.comp] = @ \cup {op.to}]
    /\ Goto("ready")
    /\ UNCHANGED <<current, golden, pending, logged, crumb, daemon, todo, trialled, bound>>

PublishFails ==
    /\ At("removed") /\ MayFail("publish")
    /\ EndOp
    /\ UNCHANGED <<disk, trialled, bound>>

-----------------------------------------------------------------------------
(* Arm, swap, activate, gate: the tail an apply and a transition share.    *)

\* Variant of Armed: a trial that is already there is kept.
ArmedOnce(c) ==
    IF pending[c] # NoTrial THEN pending
    ELSE [pending EXCEPT ![c] = [version |-> op.to, previous |-> op.from, boots |-> 0]]

Armed(c) == [pending EXCEPT ![c] = [version |-> op.to, previous |-> op.from, boots |-> 0]]

\* Variant of Arm: the trial is not written before the swap.
ArmForgotten ==
    /\ At("ready")
    /\ Goto("armed")
    /\ UNCHANGED <<disk, daemon, todo, trialled, bound>>

Arm ==
    /\ At("ready")
    /\ pending' = Armed(op.comp)
    /\ Goto("armed")
    /\ UNCHANGED <<installed, current, golden, logged, crumb, daemon, todo, trialled, bound>>

\* write_atomic can fail before its rename or, in the directory fsync, after.
ArmFails ==
    /\ At("ready") /\ MayFail("arm")
    /\ pending' \in {pending, Armed(op.comp)}
    /\ EndOp
    /\ UNCHANGED <<installed, current, golden, logged, crumb, trialled, bound>>

Linked(c, v) == [current EXCEPT ![c] = v]

Swap ==
    /\ At("armed")
    /\ op.to \in installed[op.comp]
    /\ current' = Linked(op.comp, op.to)
    /\ trialled' = Tried(op.comp, op.to, "untried")
    /\ Goto("swapped")
    /\ UNCHANGED <<installed, golden, pending, logged, crumb, daemon, todo, bound>>

\* A transition that gives up clears its trial and ignores an error of that.
DisarmBestEffort ==
    \/ pending' = Disarmed(op.comp)
    \/ MayFail("confirm") /\ UNCHANGED pending

\* What an error from swap_to leaves: a transition disarms the trial it armed,
\* stage_and_swap returns with `?` and leaves it.
AbandonSwap ==
    /\ IF Applying THEN UNCHANGED pending ELSE DisarmBestEffort
    /\ EndOp
    /\ UNCHANGED <<installed, current, golden, logged, crumb, trialled, bound>>

SwapFails ==
    /\ At("armed") /\ (MayFail("swap") \/ op.to \notin installed[op.comp])
    /\ AbandonSwap

\* link_to renames and then syncs the directory: the error may come after the
\* swap took effect.
SyncFails == At("swapped") /\ MayFail("swap") /\ AbandonSwap

\* An apply runs the post hook, the apply action and updaterd's self-test; a
\* transition runs the apply action.
Activate ==
    /\ At("swapped")
    /\ Goto("gating")
    /\ UNCHANGED <<disk, daemon, todo, trialled, bound>>

\* Variant of ActivateFails: an apply returns the error too.
ActivateFailsUngated ==
    /\ At("swapped")
    /\ pending' = Disarmed(op.comp)
    /\ EndOp
    /\ UNCHANGED <<installed, current, golden, logged, crumb, trialled, bound>>

\* An apply reverts.  A transition clears the trial and returns the error,
\* with the new release live.
ActivateFails ==
    /\ At("swapped")
    /\ IF Applying
         THEN /\ Goto("reverting")
              /\ trialled' = Tried(op.comp, op.to, "failed")
              /\ UNCHANGED <<pending, daemon, todo>>
         ELSE /\ DisarmBestEffort
              /\ EndOp
              /\ UNCHANGED trialled
    /\ UNCHANGED <<installed, current, golden, logged, crumb, bound>>

GatePasses ==
    /\ At("gating")
    /\ trialled' = Tried(op.comp, op.to, "passed")
    /\ Goto("confirming")
    /\ UNCHANGED <<disk, daemon, todo, bound>>

\* Unhealthy, incompatible or unreachable until the deadline.
GateFails ==
    /\ At("gating")
    /\ trialled' = Tried(op.comp, op.to, "failed")
    /\ Goto("reverting")
    /\ UNCHANGED <<disk, daemon, todo, bound>>

Confirm ==
    /\ At("confirming")
    /\ pending' = Disarmed(op.comp)
    /\ Goto(IF Applying THEN "pruning" ELSE "committed")
    /\ UNCHANGED <<installed, current, golden, logged, crumb, daemon, todo, trialled, bound>>

ConfirmFails ==
    /\ At("confirming") /\ MayFail("confirm")
    /\ pending' \in {pending, Disarmed(op.comp)}
    /\ EndOp
    /\ UNCHANGED <<installed, current, golden, logged, crumb, trialled, bound>>

\* Best effort: doomed releases go newest first until one cannot be removed.
Prune ==
    /\ At("pruning")
    /\ \E gone \in SUBSET Doomed(op.comp) :
         /\ \A v \in gone, w \in Doomed(op.comp) : w > v => w \in gone
         /\ gone # Doomed(op.comp) => MayFail("prune")
         /\ installed' = [installed EXCEPT ![op.comp] = @ \ gone]
    /\ Goto("committed")
    /\ UNCHANGED <<current, golden, pending, logged, crumb, daemon, todo, trialled, bound>>

\* Journal::append is best effort too.
Append(v, o) ==
    \/ logged' = Logging(op.comp, v, o)
    \/ MayFail("journal") /\ UNCHANGED logged

RecordApplied ==
    /\ At("committed")
    /\ Append(op.to, "success")
    /\ EndOp
    /\ UNCHANGED <<installed, current, golden, pending, crumb, trialled, bound>>

-----------------------------------------------------------------------------
(* rollback_to, for an operation and for recover_on_start. *)

\* Recovery stops at its first error and updaterd serves anyway.
RevertError ==
    /\ op' = NoOp
    /\ IF op.kind = "recover" THEN daemon' = "serving" /\ todo' = {}
                              ELSE UNCHANGED <<daemon, todo>>

\* Nothing to go back to: the trial is cleared and the operation is Stuck.
\* An operation logs the version as aborted, recovery logs no version.
Stuck ==
    /\ At("reverting") /\ op.from = None
    /\ pending' = Disarmed(op.comp)
    /\ IF op.kind = "recover" THEN UNCHANGED logged ELSE Append(op.to, "aborted")
    /\ EndOp
    /\ UNCHANGED <<installed, current, golden, crumb, trialled, bound>>

Revert ==
    /\ At("reverting") /\ op.from \in installed[op.comp]
    /\ current' = Linked(op.comp, op.from)
    /\ Goto("reverted")
    /\ UNCHANGED <<installed, golden, pending, logged, crumb, daemon, todo, trialled, bound>>

RevertFails ==
    /\ At("reverting")
    /\ \/ op.from = None /\ MayFail("confirm") /\ pending' \in {pending, Disarmed(op.comp)}
       \/ /\ op.from # None /\ (MayFail("swap") \/ op.from \notin installed[op.comp])
          /\ UNCHANGED pending
    /\ RevertError
    /\ UNCHANGED <<installed, current, golden, logged, crumb, trialled, bound>>

RevertConfirm ==
    /\ At("reverted")
    /\ pending' = Disarmed(op.comp)
    /\ Goto("undone")
    /\ UNCHANGED <<installed, current, golden, logged, crumb, daemon, todo, trialled, bound>>

\* The directory sync of the swap, or the confirm before or after its rename.
RevertConfirmFails ==
    /\ At("reverted")
    /\ \/ MayFail("swap") /\ UNCHANGED pending
       \/ MayFail("confirm") /\ pending' \in {pending, Disarmed(op.comp)}
    /\ RevertError
    /\ UNCHANGED <<installed, current, golden, logged, crumb, trialled, bound>>

\* An operation logs the version that failed as rolled back; recovery logs the
\* version it reverted to.
RecordRolledBack ==
    /\ At("undone")
    /\ Append(IF op.kind = "recover" THEN op.from ELSE op.to, "rolled_back")
    /\ EndOp
    /\ UNCHANGED <<installed, current, golden, pending, crumb, trialled, bound>>

-----------------------------------------------------------------------------
(* recover_on_start, before serving.                                       *)

Start ==
    /\ daemon = "down"
    /\ daemon' = "starting"
    /\ UNCHANGED <<disk, todo, op, trialled, bound>>

\* refresh_golden_links: golden is published when it is configured and installed.
GoldenLinks == [c \in Components |->
                  IF Golden[c] \in installed[c] THEN Golden[c] ELSE golden[c]]

\* Variant of RecordRescue: the trial the rescue superseded stays armed.
RecordRescueArmed ==
    /\ daemon = "starting"
    /\ logged' = IF crumb = NoCrumb THEN logged
                 ELSE Logging(crumb.comp, crumb.to, "rolled_back")
    /\ crumb' = NoCrumb
    /\ golden' = GoldenLinks
    /\ daemon' = "counting"
    /\ UNCHANGED <<installed, current, pending, todo, op, trialled, bound>>

\* record_rescue, each part best effort, then refresh_golden_links.  Repeating
\* record_rescue after a kill in its middle changes nothing more, so it is one step.
RecordRescue ==
    /\ daemon = "starting"
    /\ IF crumb = NoCrumb
         THEN UNCHANGED <<pending, logged, crumb>>
         ELSE /\ \/ logged' = Logging(crumb.comp, crumb.to, "rolled_back")
                 \/ MayFail("journal") /\ UNCHANGED logged
              /\ \/ pending' = Disarmed(crumb.comp)
                 \/ MayFail("confirm") /\ UNCHANGED pending
              /\ \/ crumb' = NoCrumb
                 \/ MayFail("crumb") /\ UNCHANGED crumb
    /\ golden' = GoldenLinks
    /\ daemon' = "counting"
    /\ UNCHANGED <<installed, current, todo, op, trialled, bound>>

\* The verdict on an exhausted trial, if its release went live at all.
Judged(c, o) ==
    IF current[c] = pending[c].version THEN Tried(c, current[c], o) ELSE trialled

Capped(n) == IF n < MaxBoots THEN n ELSE MaxBoots

\* BootCounter::record_boot.  `boots` saturates at MaxBoots here: it is only
\* ever compared with it.
Counted == [c \in Components |->
              IF pending[c] = NoTrial THEN NoTrial
              ELSE [pending[c] EXCEPT !.boots = Capped(@ + 1)]]

RecordBoot ==
    /\ daemon = "counting"
    /\ pending' = Counted
    /\ todo' = {c \in Components : pending[c] # NoTrial}
    /\ daemon' = "recovering"
    /\ UNCHANGED <<installed, current, golden, logged, crumb, op, trialled, bound>>

RecordBootFails ==
    /\ daemon = "counting" /\ MayFail("boots")
    /\ pending' \in {pending, Counted}
    /\ daemon' = "serving"
    /\ UNCHANGED <<installed, current, golden, logged, crumb, todo, op, trialled, bound>>

\* The trials come in key order.
NextTrial(c) ==
    /\ daemon = "recovering" /\ op = NoOp
    /\ c \in todo /\ \A d \in todo : c <= d

\* Variant of Exhausted: one boot too many.
ExhaustedLate(c) == pending[c].boots > MaxBoots

Exhausted(c) == pending[c].boots >= MaxBoots

StillOnTrial(c) ==
    /\ NextTrial(c) /\ ~Exhausted(c)
    /\ todo' = todo \ {c}
    /\ UNCHANGED <<disk, daemon, op, trialled, bound>>

\* The robot is healthy, or degraded for a reason a rollback cannot fix.
CommitExhausted(c) ==
    /\ NextTrial(c) /\ Exhausted(c) /\ c \in SocketGate
    /\ pending' = Disarmed(c)
    /\ trialled' = Judged(c, "passed")
    /\ todo' = todo \ {c}
    /\ UNCHANGED <<installed, current, golden, logged, crumb, daemon, op, bound>>

CommitExhaustedFails(c) ==
    /\ NextTrial(c) /\ Exhausted(c) /\ c \in SocketGate /\ MayFail("confirm")
    /\ pending' \in {pending, Disarmed(c)}
    /\ trialled' = Judged(c, "passed")
    /\ daemon' = "serving" /\ todo' = {}
    /\ UNCHANGED <<installed, current, golden, logged, crumb, op, bound>>

\* Unhealthy, silent, unreadable, or a component with no socket to ask.
RevertExhausted(c) ==
    /\ NextTrial(c) /\ Exhausted(c)
    /\ trialled' = Judged(c, "failed")
    /\ Operation("recover", c, pending[c].version, RecoveryTarget(c), "reverting")
    /\ todo' = todo \ {c}
    /\ UNCHANGED <<disk, daemon, bound>>

\* Variant of Serve: it waits until no trial is left at all.
ServeSettled ==
    /\ daemon = "recovering" /\ op = NoOp /\ todo = {}
    /\ \A c \in Components : pending[c] = NoTrial
    /\ daemon' = "serving"
    /\ UNCHANGED <<disk, todo, op, trialled, bound>>

Serve ==
    /\ daemon = "recovering" /\ op = NoOp /\ todo = {}
    /\ daemon' = "serving"
    /\ UNCHANGED <<disk, todo, op, trialled, bound>>

\* kill -9, a panic, a restart by systemd or a power cut: the lock goes with the
\* process, the disk stays.
Kill ==
    /\ daemon # "down" /\ crashes < MaxCrashes
    /\ daemon' = "down"
    /\ todo' = {} /\ op' = NoOp
    /\ crashes' = crashes + 1
    /\ UNCHANGED <<disk, trialled, asked>>

-----------------------------------------------------------------------------
Client ==
    \E c \in Components :
        \/ \E v \in Versions : AskApply(c, v) \/ AskSelect(c, v)
        \/ AskRollback(c)
        \/ AskGolden(c)

Install == Refuse \/ AdmitCandidate \/ RemoveOldDir \/ Publish \/ PublishFails

Trial ==
    \/ Arm \/ ArmFails \/ Swap \/ SwapFails \/ SyncFails \/ Activate \/ ActivateFails
    \/ GatePasses \/ GateFails \/ Confirm \/ ConfirmFails \/ Prune \/ RecordApplied

RollbackTo ==
    Stuck \/ Revert \/ RevertFails \/ RevertConfirm \/ RevertConfirmFails \/ RecordRolledBack

Recovery ==
    \/ Start \/ RecordRescue \/ RecordBoot \/ RecordBootFails \/ Serve
    \/ \E c \in Components :
         \/ StillOnTrial(c) \/ CommitExhausted(c)
         \/ CommitExhaustedFails(c) \/ RevertExhausted(c)

\* What the running process does next, whatever clients and crashes do.
Engine == Install \/ Trial \/ RollbackTo \/ Recovery

Next == Client \/ Engine \/ Kill

Spec == Init /\ [][Next]_vars

\* systemd restarts updaterd (Restart=on-failure) and every wait inside an
\* operation has a timeout, so the process itself never stops half way.
FairSpec == Spec /\ WF_vars(Engine)
-----------------------------------------------------------------------------
(* Properties.                                                             *)

\* `current` never names a release directory that is gone, whatever a reinstall
\* or a prune removes and wherever updaterd is killed (stage_and_swap, prune).
CurrentInstalled ==
    \A c \in Components : current[c] # None => current[c] \in installed[c]

\* An armed trial is about what is live: it names the live release, or the one it
\* replaced, or recovery has already escalated to golden.  A trial about anything
\* else would make a later boot revert an update that is not there.
TrialNamesLive ==
    \A c \in Components : pending[c] # NoTrial =>
        current[c] \in {pending[c].version, pending[c].previous, Golden[c]}

\* What the disk holds at each stage of the operation under the lock, which is why
\* a kill at that stage can be recovered from: until the swap the release to fall
\* back to is the live one, a reinstall never takes the live directory away, and
\* from the arming to the verdict the trial on disk is the operation's own.
OnRecord ==
    /\ pending[op.comp].version = op.to
    /\ pending[op.comp].previous = op.from
Recoverable ==
    /\ pending[op.comp] # NoTrial
    /\ op.from \in {pending[op.comp].previous, Golden[op.comp], None}
OperationInv == op # NoOp =>
    /\ daemon \in {"recovering", "serving"}
    /\ op.kind = "recover" => op.stage \in {"reverting", "reverted", "undone"}
    /\ op.stage \in {"checking", "staging", "removed", "ready", "armed"} =>
          op.from = current[op.comp]
    /\ op.stage = "staging" => op.to # op.from
    /\ op.stage \in {"armed", "swapped", "gating", "confirming"} => OnRecord
    /\ op.stage = "reverting" => IF op.kind = "recover" THEN Recoverable ELSE OnRecord

\* Once updaterd serves, no component is left with its boot budget spent: every
\* exhausted trial was committed or reverted on the way up, each one by itself.
NoExhaustedTrialServed ==
    daemon = "serving" => \A c \in Components : pending[c].boots < MaxBoots

\* A release that leaves its trial live leaves it with a verdict.
VerdictBeforeDisarm(c) ==
    /\ pending[c] # NoTrial /\ pending'[c] = NoTrial
    /\ current'[c] = pending[c].version
    => trialled'[c][pending[c].version] # "untried"

\* The trial of a release that is still live is cleared only with a verdict on it
\* (the head of engine.rs: any failure at or after the swap rolls back).
TrialEndsWithVerdict == [][\A c \in Components : VerdictBeforeDisarm(c)]_vars

\* The same of the trials that apply arms and of recovery.  Left out are the
\* transitions between installed releases, which return an apply action's error,
\* and a recovery to golden, which needs no verdict.
ApplyTrialEndsWithVerdict == [][
    op.kind \notin {"rollback", "golden", "select"} =>
        \A c \in Components :
            \/ op.kind = "recover" /\ op.from = Golden[c]
            \/ VerdictBeforeDisarm(c)]_vars

\* The golden release directory goes away only while golden itself is being
\* reinstalled: no prune, revert, crash or recovery loses it (prune, section 8.2).
GoldenKept == [][
    \A c \in Components :
        Golden[c] \in installed[c] /\ Golden[c] \notin installed'[c]
        => op.comp = c /\ op.to = Golden[c] /\ At("staging")]_vars

\* The update log does not hold against a board the release it runs well on
\* (Engine::record on what an entry's `to` means).
LiveNotBlacklisted ==
    daemon = "serving" /\ op = NoOp => \A c \in Components :
        /\ current[c] # None /\ pending[c] = NoTrial
        /\ trialled[c][current[c]] = "passed"
        => current[c] \notin KnownBad(c)

\* Once the kills stop, updaterd comes to serve, whatever trials they left behind.
StartupServes == (daemon = "down") ~> (daemon = "serving")

\* The engine implements the trial protocol, with the link as `live` and
\* pending.json as the record.
Protocol == INSTANCE TrialProtocol WITH
    live  <- current,
    trial <- [c \in Components |->
                [new |-> pending[c].version, old |-> pending[c].previous]]

ImplementsProtocol == Protocol!Spec
=============================================================================
