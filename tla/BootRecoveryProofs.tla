------------------------ MODULE BootRecoveryProofs ------------------------
(***************************************************************************)
(* What holds of the boot check and the rescue beside the engine, for      *)
(* every set of components and releases and any number of operations,      *)
(* kills, power cycles and rescues.  The scripts take no lock, so what the *)
(* engine's own proofs say of an operation and the disk is weakened here   *)
(* to what survives a swap by the rescue in its middle.                    *)
(***************************************************************************)
EXTENDS BootRecovery, UpdaterProofs

----------------------------------------------------------------------------
(* Types, and what the steps of the net are to the engine.                 *)

LEMMA RescueFacts == Tree \in Components /\ None \notin Versions
BY RescueAssumption, Constants DEF ConstantFacts

LEMMA UpdaterStepIsNext == UpdaterStep => Next
BY DEF UpdaterStep, Next

LEMMA RebootType == ASSUME TypeOK, Reboot PROVE TypeOK'
BY DEF TypeOK, Reboot, disk, bound

LEMMA ScriptTypes ==
    /\ \A v \in Versions, b \in BOOLEAN : [stage |-> "guarded", to |-> v, reboot |-> b] \in Scripts
    /\ \A s \in Scripts, stage \in {"recorded", "swapped"} :
           /\ [s EXCEPT !.stage = stage] \in Scripts
           /\ [s EXCEPT !.stage = stage].stage = stage
           /\ [s EXCEPT !.stage = stage].to = s.to
    /\ NoScript.stage = "idle"
BY DEF Scripts, NoScript

\* A script past its guard is one that runs.
LEMMA ScriptRuns ==
    ASSUME NetTypeOK, script.stage # "idle"
    PROVE  script \in Scripts /\ script # NoScript
BY ScriptTypes DEF NetTypeOK

LEMMA RescueType ==
    ASSUME NetTypeOK, NEW force, NEW reboot \in BOOLEAN, Rescue(force, reboot)
    PROVE  /\ script' \in Scripts /\ script'.stage = "guarded" /\ script'.to = golden[Tree]
           /\ golden[Tree] \in Versions /\ current[Tree] # golden[Tree] /\ script = NoScript
<1>1. golden[Tree] \in Versions /\ current[Tree] # golden[Tree]
    BY RescueFacts DEF Rescue, Declines, NetTypeOK, TypeOK
<1> QED BY <1>1, ScriptTypes DEF Rescue

LEMMA NetTypeStep == NetTypeOK /\ [NetNext]_netVars => NetTypeOK'
<1> SUFFICES ASSUME NetTypeOK, [NetNext]_netVars PROVE NetTypeOK'
    OBVIOUS
<1>1. CASE UpdaterStep
    <2>1. TypeOK'
        BY <1>1, UpdaterStepIsNext, NextType DEF NetTypeOK
    <2>2. rescues' \in Nat
        BY <1>1 DEF UpdaterStep, NetTypeOK
    <2>3. held' \in BOOLEAN
        BY <1>1 DEF UpdaterStep
    <2> QED BY <1>1, <2>1, <2>2, <2>3 DEF UpdaterStep, NetTypeOK
<1>2. CASE PowerCycle
    <2>1. cuts' \in Nat
        BY <1>2 DEF PowerCycle, NetTypeOK
    <2> QED BY <1>2, <2>1, RebootType DEF PowerCycle, Reboot, NetTypeOK
<1>3. CASE BootCheck
    <2>1. script' \in Scripts \cup {NoScript}
        BY <1>3, RescueType DEF BootCheck, NetTypeOK
    <2>2. TypeOK'
        BY <1>3 DEF BootCheck, NetTypeOK, TypeOK, vars, disk, bound
    <2> QED BY <1>3, <2>1, <2>2 DEF BootCheck, NetTypeOK
<1>4. CASE RescueByHand
    <2>1. script' \in Scripts /\ byHand' \in Nat
        BY <1>4, RescueType DEF RescueByHand, NetTypeOK
    <2>2. TypeOK'
        BY <1>4 DEF RescueByHand, NetTypeOK, TypeOK, vars, disk, bound
    <2> QED BY <1>4, <2>1, <2>2 DEF RescueByHand, NetTypeOK
<1>5. CASE WriteBreadcrumb
    <2>1. script \in Scripts /\ script' \in Scripts
        BY <1>5, ScriptRuns, ScriptTypes DEF WriteBreadcrumb
    <2>2. crumb' \in Crumbs
        BY <1>5, <2>1, RescueFacts DEF WriteBreadcrumb, Crumbs, Scripts
    <2>3. TypeOK'
        BY <1>5, <2>2 DEF WriteBreadcrumb, NetTypeOK, TypeOK, bound
    <2> QED BY <1>5, <2>1, <2>3 DEF WriteBreadcrumb, NetTypeOK
<1>6. CASE SwapToGolden
    <2>1. script \in Scripts /\ script' \in Scripts
        BY <1>6, ScriptRuns, ScriptTypes DEF SwapToGolden
    <2>2. current' \in [Components -> Versions \cup {None}]
        BY <1>6, <2>1 DEF SwapToGolden, NetTypeOK, TypeOK, Scripts
    <2>3. TypeOK'
        BY <1>6, <2>2 DEF SwapToGolden, NetTypeOK, TypeOK, bound
    <2>4. held' \in BOOLEAN /\ rescues' \in Nat
        BY <1>6 DEF SwapToGolden, NetTypeOK
    <2> QED BY <1>6, <2>1, <2>3, <2>4 DEF SwapToGolden, NetTypeOK
<1>7. CASE RescueReboots
    BY <1>7, RebootType DEF RescueReboots, Reboot, NetTypeOK
<1>8. CASE RescueExits
    BY <1>8 DEF RescueExits, NetTypeOK, TypeOK, vars, disk, bound
<1>9. CASE UNCHANGED netVars
    BY <1>9 DEF netVars, rescueVars, NetTypeOK, TypeOK, vars, disk, bound
<1> QED BY <1>1, <1>2, <1>3, <1>4, <1>5, <1>6, <1>7, <1>8, <1>9 DEF NetNext, Script

LEMMA NetTypeInit == NetInit => NetTypeOK
<1> SUFFICES ASSUME NetInit PROVE NetTypeOK
    OBVIOUS
<1>1. TypeOK /\ rescues \in Nat /\ cuts \in Nat /\ byHand \in Nat
    BY InitType DEF NetInit
<1>2. due \in BOOLEAN /\ tried \in BOOLEAN /\ held \in BOOLEAN
    BY DEF NetInit
<1> QED BY <1>1, <1>2 DEF NetInit, NetTypeOK

\* Every variable of the engine and of the net has its type.
THEOREM NetType == NetSpec => []NetTypeOK
BY NetTypeInit, NetTypeStep, PTL DEF NetSpec

----------------------------------------------------------------------------
(* The operation under the lock, with a rescue beside it: Grounded.        *)

\* golden is the configured release once it is published, and the rescue's target.
GoldenFixed ==
    /\ \A c \in Components : golden[c] \in {None, Golden[c]}
    /\ script # NoScript => script.to = golden[Tree] /\ golden[Tree] # None
    /\ crumb # NoCrumb => crumb.comp = Tree

LEMMA Ends == op' = NoOp => Grounded'
BY DEF Grounded

LEMMA ClientGrounded == ASSUME TypeOK, Grounded, Client PROVE Grounded'
<1> SUFFICES ASSUME NEW c \in Components, NEW kind \in Commands, NEW v,
                    NEW s \in {"checking", "ready"}, kind # "recover", Ask(kind),
                    Operation(kind, c, v, current[c], s)
             PROVE  Grounded'
    BY DEF Client, AskApply, AskSelect, AskRollback, AskGolden, Ask
<1> QED BY DEF Ask, Operation, Grounded, disk

LEMMA InstallGrounded == ASSUME TypeOK, Grounded, Install PROVE Grounded'
<1> USE DEF disk, bound
<1>1. CASE Refuse \/ PublishFails
    BY <1>1, Ends DEF Refuse, PublishFails, EndOp
<1>2. CASE AdmitCandidate
    <2>1. op # NoOp /\ op.stage = "checking" /\ op \in Ops
        BY <1>2, AtType DEF AdmitCandidate
    <2>2. /\ op'.stage = "staging" /\ op'.from = current[op.comp]
          /\ op'.comp = op.comp /\ op'.kind = op.kind
        BY <1>2, <2>1 DEF AdmitCandidate, Ops
    <2> QED BY <1>2, <2>1, <2>2 DEF AdmitCandidate, Grounded
<1>3. CASE RemoveOldDir
    <2>1. /\ op # NoOp /\ op.stage = "staging" /\ op'.stage = "removed"
          /\ op'.kind = op.kind /\ op'.comp = op.comp /\ op'.from = op.from
        BY <1>3, GotoKeeps DEF RemoveOldDir
    <2> QED BY <1>3, <2>1 DEF RemoveOldDir, Grounded
<1>4. CASE Publish
    <2>1. /\ op # NoOp /\ op.stage = "removed" /\ op'.stage = "ready"
          /\ op'.kind = op.kind /\ op'.comp = op.comp /\ op'.from = op.from
        BY <1>4, GotoKeeps DEF Publish
    <2> QED BY <1>4, <2>1 DEF Publish, Grounded
<1> QED BY <1>1, <1>2, <1>3, <1>4 DEF Install

LEMMA TrialGrounded == ASSUME TypeOK, Grounded, Trial PROVE Grounded'
<1> USE DEF disk, bound
<1>1. CASE Arm
    <2>1. /\ op # NoOp /\ op.stage = "ready" /\ op'.stage = "armed"
          /\ op'.kind = op.kind /\ op'.comp = op.comp
          /\ op'.to = op.to /\ op'.from = op.from
        BY <1>1, GotoKeeps DEF Arm
    <2>2. pending'[op.comp].version = op.to /\ pending'[op.comp].previous = op.from
        BY <1>1, AtType DEF Arm, Armed, TypeOK
    <2> QED BY <1>1, <2>1, <2>2 DEF Arm, Grounded, OnRecord
<1>2. CASE ArmFails \/ SwapFails \/ SyncFails \/ ConfirmFails \/ RecordApplied
    BY <1>2, Ends DEF ArmFails, SwapFails, SyncFails, AbandonSwap, ConfirmFails,
                      RecordApplied, EndOp
\* The stages in which the trial on disk is the operation's own.
<1>3. ASSUME NEW s \in {"armed", "swapped", "gating"},
             NEW t \in {"swapped", "gating", "confirming", "reverting"},
             At(s), Goto(t), UNCHANGED <<pending, daemon>>
      PROVE  Grounded'
    <2>1. /\ op # NoOp /\ op.stage = s /\ op'.stage = t
          /\ op'.kind = op.kind /\ op'.comp = op.comp
          /\ op'.to = op.to /\ op'.from = op.from
        BY <1>3, GotoKeeps
    <2> QED BY <1>3, <2>1 DEF Grounded, OnRecord
<1>4. CASE Swap \/ Activate \/ GatePasses \/ GateFails
    BY <1>3, <1>4 DEF Swap, Activate, GatePasses, GateFails
<1>5. CASE ActivateFails
    BY <1>3, <1>5, Ends DEF ActivateFails, EndOp
<1>6. ASSUME NEW s \in {"confirming", "pruning"}, NEW t \in {"pruning", "committed"},
             At(s), Goto(t), UNCHANGED daemon
      PROVE  Grounded'
    <2>1. op # NoOp /\ op.stage = s /\ op'.stage = t /\ op'.kind = op.kind
        BY <1>6, GotoKeeps
    <2> QED BY <1>6, <2>1 DEF Grounded
<1>7. CASE Confirm
    BY <1>6, <1>7 DEF Confirm
<1>8. CASE Prune
    BY <1>6, <1>8 DEF Prune
<1> QED BY <1>1, <1>2, <1>4, <1>5, <1>7, <1>8 DEF Trial

LEMMA RollbackGrounded == ASSUME TypeOK, Grounded, RollbackTo PROVE Grounded'
<1>1. CASE Stuck \/ RevertFails \/ RevertConfirmFails \/ RecordRolledBack
    BY <1>1, Ends DEF Stuck, RevertFails, RevertConfirmFails, RecordRolledBack,
                      EndOp, RevertError
<1>2. ASSUME NEW s \in {"reverting", "reverted"}, NEW t \in {"reverted", "undone"},
             At(s), Goto(t), UNCHANGED daemon
      PROVE  Grounded'
    <2>1. op # NoOp /\ op.stage = s /\ op'.stage = t /\ op'.kind = op.kind
        BY <1>2, GotoKeeps
    <2> QED BY <1>2, <2>1 DEF Grounded
<1>3. CASE Revert \/ RevertConfirm
    BY <1>2, <1>3 DEF Revert, RevertConfirm
<1> QED BY <1>1, <1>3 DEF RollbackTo

LEMMA RecoveryGrounded == ASSUME TypeOK, Grounded, Recovery PROVE Grounded'
<1>1. CASE Start \/ RecordRescue \/ RecordBoot \/ RecordBootFails \/ Serve
    <2>1. op = NoOp /\ op' = op
        BY <1>1 DEF Start, RecordRescue, RecordBoot, RecordBootFails, Serve, Grounded
    <2> QED BY <2>1, Ends
<1>2. ASSUME NEW c \in Components,
             StillOnTrial(c) \/ CommitExhausted(c) \/ CommitExhaustedFails(c)
      PROVE  Grounded'
    <2>1. op = NoOp /\ op' = op
        BY <1>2 DEF StillOnTrial, CommitExhausted, CommitExhaustedFails, NextTrial
    <2> QED BY <2>1, Ends
<1>3. ASSUME NEW c \in Components, RevertExhausted(c) PROVE Grounded'
    <2>1. /\ op'.kind = "recover" /\ op'.stage = "reverting" /\ op'.comp = c
          /\ op'.from = RecoveryTarget(c) /\ UNCHANGED <<disk, daemon>>
          /\ daemon = "recovering"
        BY <1>3 DEF RevertExhausted, Operation, NextTrial
    <2>2. pending[c] # NoTrial
        BY <1>3, ExhaustedTrial DEF RevertExhausted
    <2> QED BY <2>1, <2>2, RecoveryTargetType DEF Grounded, Recoverable, disk
<1> QED BY <1>1, <1>2, <1>3 DEF Recovery

LEMMA EngineGrounded == ASSUME TypeOK, Grounded, UpdaterStep PROVE Grounded'
<1>1. CASE Kill
    BY <1>1, Ends DEF Kill
<1> QED BY <1>1, ClientGrounded, InstallGrounded, TrialGrounded, RollbackGrounded,
           RecoveryGrounded DEF UpdaterStep, Engine

\* The steps of the scripts and of the power, to the engine: nothing, but that the
\* breadcrumb is written, golden is swapped in and every process stops.
LEMMA NetGrounded ==
    ASSUME NetTypeOK, GoldenFixed, Grounded, [NetNext]_netVars
    PROVE  Grounded'
<1>1. CASE UpdaterStep
    BY <1>1, EngineGrounded DEF NetTypeOK
<1>2. CASE PowerCycle \/ RescueReboots
    BY <1>2, Ends DEF PowerCycle, RescueReboots, Reboot
<1>3. CASE BootCheck \/ RescueByHand \/ RescueExits
    BY <1>3 DEF BootCheck, RescueByHand, RescueExits, vars, disk, Grounded, OnRecord, Recoverable
<1>4. CASE WriteBreadcrumb
    BY <1>4 DEF WriteBreadcrumb, Grounded, OnRecord, Recoverable
<1>5. CASE SwapToGolden
    <2>1. script # NoScript
        BY <1>5, ScriptTypes DEF SwapToGolden
    <2>2. script.to = Golden[Tree] /\ Tree \in Components
        BY <2>1, RescueFacts DEF GoldenFixed
    <2>3. \A c \in Components : current'[c] \in {current[c], Golden[c]}
        BY <1>5, <2>2 DEF SwapToGolden, NetTypeOK, TypeOK
    <2>4. op # NoOp => op.comp \in Components
        BY OpType DEF NetTypeOK
    <2> QED BY <1>5, <2>3, <2>4 DEF SwapToGolden, Grounded, OnRecord, Recoverable
<1>6. CASE UNCHANGED netVars
    BY <1>6 DEF netVars, vars, disk, Grounded, OnRecord, Recoverable
<1> QED BY <1>1, <1>2, <1>3, <1>4, <1>5, <1>6 DEF NetNext, Script

\* The engine publishes golden where it is configured, and takes breadcrumbs away.
LEMMA EngineLinks ==
    ASSUME UpdaterStep
    PROVE  golden' \in {golden, GoldenLinks} /\ crumb' \in {crumb, NoCrumb}
<1> USE DEF disk, bound
<1>1. CASE Client \/ Kill
    BY <1>1 DEF Client, AskApply, AskSelect, AskRollback, AskGolden, Ask, Kill
<1>2. CASE Install
    BY <1>2 DEF Install, Refuse, AdmitCandidate, RemoveOldDir, Publish, PublishFails
<1>3. CASE Trial
    BY <1>3 DEF Trial, Arm, ArmFails, Swap, SwapFails, SyncFails, AbandonSwap, Activate,
       ActivateFails, GatePasses, GateFails, Confirm, ConfirmFails, Prune, RecordApplied
<1>4. CASE RollbackTo
    BY <1>4 DEF RollbackTo, Stuck, Revert, RevertFails, RevertConfirm, RevertConfirmFails,
       RecordRolledBack
<1>5. CASE Recovery
    BY <1>5 DEF Recovery, Start, RecordRescue, RecordBoot, RecordBootFails, Serve,
       StillOnTrial, CommitExhausted, CommitExhaustedFails, RevertExhausted
<1> QED BY <1>1, <1>2, <1>3, <1>4, <1>5 DEF UpdaterStep, Engine

LEMMA LinksAreFixed ==
    ASSUME GoldenFixed, golden' \in {golden, GoldenLinks}
    PROVE  \A c \in Components : /\ golden'[c] \in {None, Golden[c]}
                                 /\ golden[c] # None => golden'[c] = golden[c]
BY DEF GoldenFixed, GoldenLinks

LEMMA NetGolden ==
    ASSUME NetTypeOK, GoldenFixed, [NetNext]_netVars
    PROVE  GoldenFixed'
<1>1. CASE UpdaterStep
    <2>1. UNCHANGED script /\ golden' \in {golden, GoldenLinks} /\ crumb' \in {crumb, NoCrumb}
        BY <1>1, EngineLinks DEF UpdaterStep
    <2>2. \A c \in Components : /\ golden'[c] \in {None, Golden[c]}
                                /\ golden[c] # None => golden'[c] = golden[c]
        BY <2>1, LinksAreFixed
    <2> QED BY <2>1, <2>2, RescueFacts DEF GoldenFixed
<1>2. CASE PowerCycle \/ RescueReboots
    BY <1>2 DEF PowerCycle, RescueReboots, Reboot, disk, GoldenFixed
<1>3. CASE BootCheck \/ RescueByHand
    <2>1. \/ UNCHANGED script
          \/ script'.to = golden[Tree] /\ golden[Tree] # None
        BY <1>3, RescueType, RescueFacts DEF BootCheck, RescueByHand
    <2> QED BY <1>3, <2>1 DEF BootCheck, RescueByHand, vars, disk, GoldenFixed
<1>4. CASE WriteBreadcrumb
    <2>1. script \in Scripts /\ script # NoScript /\ script'.to = script.to
        BY <1>4, ScriptRuns, ScriptTypes DEF WriteBreadcrumb
    <2> QED BY <1>4, <2>1 DEF WriteBreadcrumb, GoldenFixed
<1>5. CASE SwapToGolden
    <2>1. script \in Scripts /\ script # NoScript /\ script'.to = script.to
        BY <1>5, ScriptRuns, ScriptTypes DEF SwapToGolden
    <2> QED BY <1>5, <2>1 DEF SwapToGolden, GoldenFixed
<1>6. CASE RescueExits
    BY <1>6 DEF RescueExits, vars, disk, GoldenFixed
<1>7. CASE UNCHANGED netVars
    BY <1>7 DEF netVars, rescueVars, vars, disk, GoldenFixed
<1> QED BY <1>1, <1>2, <1>3, <1>4, <1>5, <1>6, <1>7 DEF NetNext, Script

NetInv == NetTypeOK /\ GoldenFixed /\ Grounded

LEMMA NetInvInit == NetInit => NetInv
<1> SUFFICES ASSUME NetInit PROVE NetInv
    OBVIOUS
<1>1. Init /\ script = NoScript
    BY DEF NetInit
<1>2. GoldenFixed
    BY <1>1 DEF Init, GoldenFixed
<1>3. Grounded
    BY <1>1 DEF Init, Grounded
<1> QED BY <1>2, <1>3, NetTypeInit DEF NetInv

LEMMA NetInvStep == NetInv /\ [NetNext]_netVars => NetInv'
BY NetTypeStep, NetGolden, NetGrounded DEF NetInv

\* An armed trial is about what is live, whatever the rescue swaps in meanwhile
\* (TrialNamesLive): the engine's steps keep it by Grounded, and the rescue's by going to
\* golden.
THEOREM TrialsAreLiveInNet == NetSpec => []TrialNamesLive
<1>1. NetInit => TrialNamesLive
    BY InitTrials DEF NetInit
<1>2. NetInv /\ TrialNamesLive /\ [NetNext]_netVars => TrialNamesLive'
    <2> SUFFICES ASSUME NetInv, TrialNamesLive, [NetNext]_netVars PROVE TrialNamesLive'
        OBVIOUS
    <2>1. CASE UpdaterStep
        BY <2>1, UpdaterStepIsNext, NextTrials DEF NetInv, NetTypeOK
    <2>2. CASE SwapToGolden
        <3>1. script # NoScript
            BY <2>2, ScriptTypes DEF SwapToGolden
        <3>2. script.to = Golden[Tree]
            BY <3>1, RescueFacts DEF NetInv, GoldenFixed
        <3> QED BY <2>2, <3>2, RescueFacts
                DEF SwapToGolden, NetInv, NetTypeOK, TypeOK, TrialNamesLive
    <2>3. CASE UNCHANGED <<current, pending>>
        BY <2>3 DEF TrialNamesLive
    <2>4. PowerCycle \/ RescueReboots \/ BootCheck \/ RescueByHand \/ RescueExits
              \/ WriteBreadcrumb \/ UNCHANGED netVars => UNCHANGED <<current, pending>>
        BY DEF PowerCycle, RescueReboots, Reboot, BootCheck, RescueByHand, RescueExits,
               WriteBreadcrumb, netVars, vars, disk
    <2> QED BY <2>1, <2>2, <2>3, <2>4 DEF NetNext, Script
<1> QED BY <1>1, <1>2, NetInvInit, NetInvStep, PTL DEF NetSpec

----------------------------------------------------------------------------
(* The rescue while updaterd stays down.                                   *)

\* Once the rescue has swapped with updaterd down, golden is live until updaterd is up.
OnceInv ==
    \/ rescues = 0
    \/ rescues = 1 /\ daemon = "down" /\ current[Tree] = golden[Tree]
           /\ script.stage \notin {"guarded", "recorded"}

\* An updaterd that is down does nothing but start.
LEMMA DownStarts == ASSUME Grounded, daemon = "down", UpdaterStep PROVE Start
<1>1. op = NoOp
    BY DEF Grounded
<1>2. ~Install /\ ~Trial /\ ~RollbackTo
    BY <1>1 DEF Install, Refuse, AdmitCandidate, RemoveOldDir, Publish, PublishFails,
       Trial, Arm, ArmFails, Swap, SwapFails, SyncFails, Activate, ActivateFails, GatePasses,
       GateFails, Confirm, ConfirmFails, Prune, RecordApplied, RollbackTo, Stuck, Revert,
       RevertFails, RevertConfirm, RevertConfirmFails, RecordRolledBack, At
<1>3. ~Client /\ ~Kill
    BY DEF Client, AskApply, AskSelect, AskRollback, AskGolden, Ask, Kill
<1>4. Recovery
    BY <1>2, <1>3 DEF UpdaterStep, Engine
<1> QED BY <1>4 DEF Recovery, RecordRescue, RecordBoot, RecordBootFails, Serve, StillOnTrial,
           CommitExhausted, CommitExhaustedFails, RevertExhausted, NextTrial

\* Golden is in and the rescue never swaps a second time while updaterd stays down
\* (RescuedOnce): forced or not, it declines a board that is on golden, and the link of
\* golden never moves to another release.
THEOREM NoRescueLoop == NetSpec => []RescuedOnce
<1>1. NetInit => OnceInv
    BY DEF NetInit, OnceInv
<1>2. NetInv /\ OnceInv /\ [NetNext]_netVars => OnceInv'
    <2> SUFFICES ASSUME NetInv, OnceInv, [NetNext]_netVars PROVE OnceInv'
        OBVIOUS
    <2> USE DEF NetInv
    <2>1. CASE UpdaterStep
        <3>1. CASE daemon = "down"
            BY <2>1, <3>1, DownStarts DEF UpdaterStep, Start, Starting, OnceInv
        <3>2. CASE daemon # "down"
            BY <2>1, <3>2 DEF UpdaterStep, Starting, OnceInv
        <3> QED BY <3>1, <3>2
    <2>2. CASE PowerCycle \/ RescueReboots
        BY <2>2, ScriptTypes DEF PowerCycle, RescueReboots, Reboot, disk, OnceInv
    <2>3. CASE BootCheck \/ RescueByHand
        <3>1. UNCHANGED script \/ current[Tree] # golden[Tree]
            BY <2>3, RescueType DEF BootCheck, RescueByHand
        <3> QED BY <2>3, <3>1 DEF BootCheck, RescueByHand, vars, disk, OnceInv
    <2>4. CASE WriteBreadcrumb
        BY <2>4 DEF WriteBreadcrumb, OnceInv
    <2>5. CASE SwapToGolden
        <3>1. script \in Scripts /\ script # NoScript /\ script'.stage = "swapped"
            BY <2>5, ScriptRuns, ScriptTypes DEF SwapToGolden
        <3>2. rescues = 0
            BY <2>5 DEF SwapToGolden, OnceInv
        <3>3. current'[Tree] = golden'[Tree]
            BY <2>5, <3>1, RescueFacts DEF SwapToGolden, GoldenFixed, NetTypeOK, TypeOK
        <3> QED BY <2>5, <3>1, <3>2, <3>3 DEF SwapToGolden, OnceInv
    <2>6. CASE RescueExits
        BY <2>6, ScriptTypes DEF RescueExits, vars, disk, OnceInv
    <2>7. CASE UNCHANGED netVars
        BY <2>7 DEF netVars, rescueVars, vars, disk, OnceInv
    <2> QED BY <2>1, <2>2, <2>3, <2>4, <2>5, <2>6, <2>7 DEF NetNext, Script
<1>3. OnceInv => RescuedOnce
    BY DEF OnceInv, RescuedOnce
<1> QED BY <1>1, <1>2, <1>3, NetInvInit, NetInvStep, PTL DEF NetSpec

----------------------------------------------------------------------------
(* The rescue while no client asks for anything.                           *)

\* A board that was rescued is on golden, no operation is about to move it, and its trial
\* is cleared, or the breadcrumb by which the next start will clear it is there.
HeldInv == held =>
    /\ current[Tree] = golden[Tree] /\ golden[Tree] # None
    /\ script.stage \notin {"guarded", "recorded"}
    /\ op # NoOp => op.kind = "recover" /\ op.comp # Tree
    /\ pending[Tree] = NoTrial \/ (daemon \in {"down", "starting"} /\ crumb # NoCrumb)

\* What a step of the engine leaves of a board that was rescued.
StaysRescued ==
    /\ current'[Tree] = current[Tree]
    /\ op' # NoOp => op'.kind = "recover" /\ op'.comp # Tree
    /\ pending'[Tree] = NoTrial \/ (daemon' \in {"down", "starting"} /\ crumb' # NoCrumb)

LEMMA HeldRevert ==
    ASSUME NetInv, HeldInv, held, RollbackTo
    PROVE  StaysRescued
<1> USE DEF NetInv, NetTypeOK, disk, bound
<1>1. op # NoOp
    BY DEF RollbackTo, Stuck, Revert, RevertFails, RevertConfirm, RevertConfirmFails,
           RecordRolledBack, At
<1>2. op.kind = "recover" /\ op.comp # Tree /\ op.comp \in Components
      /\ daemon \in {"recovering", "serving"} /\ pending[Tree] = NoTrial
    BY <1>1, OpType DEF HeldInv, Grounded
<1>3. current'[Tree] = current[Tree]
    <2>1. CASE Revert
        <3>1. Linked(op.comp, op.from)[Tree] = current[Tree]
            BY <1>2, RescueFacts DEF Linked, TypeOK
        <3> QED BY <2>1, <3>1 DEF Revert
    <2>2. CASE ~Revert
        BY <2>2 DEF RollbackTo, Stuck, RevertFails, RevertConfirm, RevertConfirmFails,
                    RecordRolledBack
    <2> QED BY <2>1, <2>2
<1>4. pending'[Tree] = NoTrial
    <2>1. Disarmed(op.comp)[Tree] = pending[Tree]
        BY <1>2, RescueFacts DEF Disarmed, TypeOK
    <2> QED BY <1>2, <2>1 DEF RollbackTo, Stuck, Revert, RevertFails, RevertConfirm,
                RevertConfirmFails, RecordRolledBack
<1>5. op' # NoOp => op'.kind = "recover" /\ op'.comp # Tree
    <2>1. CASE Revert \/ RevertConfirm
        <3>1. op'.kind = op.kind /\ op'.comp = op.comp
            BY <2>1, GotoKeeps DEF Revert, RevertConfirm
        <3> QED BY <1>2, <3>1
    <2>2. CASE Stuck \/ RevertFails \/ RevertConfirmFails \/ RecordRolledBack
        BY <2>2 DEF Stuck, RevertFails, RevertConfirmFails, RecordRolledBack, EndOp, RevertError
    <2> QED BY <2>1, <2>2 DEF RollbackTo
<1> QED BY <1>3, <1>4, <1>5 DEF StaysRescued

LEMMA HeldRecovery ==
    ASSUME NetInv, HeldInv, held, Recovery, "confirm" \notin Faults
    PROVE  StaysRescued
<1> USE DEF NetInv, NetTypeOK, disk, bound
<1>1. CASE Start
    BY <1>1 DEF Start, HeldInv, StaysRescued
<1>2. CASE RecordRescue
    <2>1. op = NoOp /\ UNCHANGED <<current, op>>
        BY <1>2 DEF RecordRescue, Grounded
    <2>2. pending'[Tree] = NoTrial
        <3>1. CASE crumb = NoCrumb
            BY <1>2, <3>1 DEF RecordRescue, HeldInv
        <3>2. CASE crumb # NoCrumb
            <4>1. pending' = Disarmed(Tree)
                BY <1>2, <3>2 DEF RecordRescue, MayFail, GoldenFixed
            <4> QED BY <4>1, RescueFacts DEF Disarmed, TypeOK
        <3> QED BY <3>1, <3>2
    <2> QED BY <2>1, <2>2 DEF StaysRescued
<1>3. CASE RecordBoot \/ RecordBootFails
    <2>1. pending[Tree] = NoTrial /\ op = NoOp /\ UNCHANGED <<current, op>>
        BY <1>3 DEF RecordBoot, RecordBootFails, HeldInv, Grounded
    <2>2. pending'[Tree] = NoTrial
        BY <1>3, <2>1, RescueFacts DEF RecordBoot, RecordBootFails, Counted
    <2> QED BY <2>1, <2>2 DEF StaysRescued
<1>4. CASE Serve
    BY <1>4 DEF Serve, HeldInv, StaysRescued
<1>5. ASSUME NEW c \in Components,
             StillOnTrial(c) \/ CommitExhausted(c) \/ CommitExhaustedFails(c)
      PROVE  StaysRescued
    <2>1. pending[Tree] = NoTrial /\ op = NoOp /\ UNCHANGED <<current, op>>
        BY <1>5 DEF StillOnTrial, CommitExhausted, CommitExhaustedFails, NextTrial, HeldInv
    <2>2. Disarmed(c)[Tree] = NoTrial
        BY <2>1, RescueFacts DEF Disarmed, TypeOK
    <2>3. pending'[Tree] = NoTrial
        BY <1>5, <2>1, <2>2 DEF StillOnTrial, CommitExhausted, CommitExhaustedFails
    <2> QED BY <2>1, <2>3 DEF StaysRescued
<1>6. ASSUME NEW c \in Components, RevertExhausted(c) PROVE StaysRescued
    <2>1. pending[Tree] = NoTrial /\ UNCHANGED <<current, pending>>
        BY <1>6 DEF RevertExhausted, NextTrial, HeldInv
    <2>2. c # Tree
        BY <1>6, <2>1, ExhaustedTrial DEF RevertExhausted
    <2>3. op'.kind = "recover" /\ op'.comp = c
        BY <1>6 DEF RevertExhausted, Operation
    <2> QED BY <2>1, <2>2, <2>3 DEF StaysRescued
<1> QED BY <1>1, <1>2, <1>3, <1>4, <1>5, <1>6 DEF Recovery

\* An operation that a client asked for is over when updaterd is down, and the others go
\* through no trial.
LEMMA HeldStep ==
    ASSUME NetInv, HeldInv, held, UpdaterStep, "confirm" \notin Faults
    PROVE  Client \/ StaysRescued
<1> USE DEF NetInv
<1>1. ~Install /\ ~Trial
    <2>1. op # NoOp => op.stage \in {"reverting", "reverted", "undone"}
        BY DEF HeldInv, Grounded
    <2> QED BY <2>1 DEF Install, Refuse, AdmitCandidate, RemoveOldDir, Publish, PublishFails,
                Trial, Arm, ArmFails, Swap, SwapFails, SyncFails, Activate, ActivateFails,
                GatePasses, GateFails, Confirm, ConfirmFails, Prune, RecordApplied, At
<1>2. CASE Kill
    BY <1>2 DEF Kill, disk, HeldInv, StaysRescued
<1> QED BY <1>1, <1>2, HeldRevert, HeldRecovery DEF UpdaterStep, Engine

LEMMA HeldInvStep ==
    ASSUME "confirm" \notin Faults, NetInv, HeldInv, [NetNext]_netVars
    PROVE  HeldInv' /\ (held => current'[Tree] = current[Tree])
<1> USE DEF NetInv
<1>1. CASE UpdaterStep
    <2>1. UNCHANGED script
        BY <1>1 DEF UpdaterStep
    <2>2. CASE held /\ Client
        <3>1. asked \in Nat /\ asked' = asked + 1 /\ UNCHANGED current
            BY <2>2 DEF Client, AskApply, AskSelect, AskRollback, AskGolden, Ask, disk,
                        NetTypeOK, TypeOK
        <3>2. asked' # asked
            BY <3>1
        <3>3. ~held'
            <4>1. held' = (held /\ asked' = asked)
                BY <1>1 DEF UpdaterStep
            <4> QED BY <3>2, <4>1
        <3> QED BY <3>1, <3>3 DEF HeldInv
    <2>3. CASE held /\ StaysRescued
        <3>1. golden'[Tree] = golden[Tree]
            BY <1>1, <2>3, EngineLinks, LinksAreFixed, RescueFacts DEF HeldInv
        <3> QED BY <2>1, <2>3, <3>1 DEF HeldInv, StaysRescued
    <2>4. CASE ~held
        BY <1>1, <2>4 DEF UpdaterStep, HeldInv
    <2> QED BY <1>1, <2>2, <2>3, <2>4, HeldStep
<1>2. CASE PowerCycle \/ RescueReboots
    BY <1>2, ScriptTypes DEF PowerCycle, RescueReboots, Reboot, disk, HeldInv
<1>3. CASE BootCheck \/ RescueByHand
    <2>1. UNCHANGED script \/ current[Tree] # golden[Tree]
        BY <1>3, RescueType DEF BootCheck, RescueByHand
    <2>2. UNCHANGED <<vars, held>>
        BY <1>3 DEF BootCheck, RescueByHand
    <2>3. CASE held
        BY <2>1, <2>2, <2>3 DEF vars, disk, HeldInv
    <2>4. CASE ~held
        BY <2>2, <2>4 DEF vars, disk, HeldInv
    <2> QED BY <2>3, <2>4
<1>4. CASE WriteBreadcrumb
    BY <1>4 DEF WriteBreadcrumb, HeldInv
<1>5. CASE SwapToGolden
    <2>1. script \in Scripts /\ script # NoScript /\ script'.stage = "swapped"
        BY <1>5, ScriptRuns, ScriptTypes DEF SwapToGolden
    <2>2. current'[Tree] = golden'[Tree] /\ golden'[Tree] # None
        BY <1>5, <2>1, RescueFacts DEF SwapToGolden, GoldenFixed, NetTypeOK, TypeOK
    <2>3. held' => daemon = "down" /\ crumb # NoCrumb /\ op = NoOp
        BY <1>5 DEF SwapToGolden, Grounded
    <2>4. ~held
        BY <1>5 DEF SwapToGolden, HeldInv
    <2> QED BY <1>5, <2>1, <2>2, <2>3, <2>4 DEF SwapToGolden, HeldInv
<1>6. CASE RescueExits
    BY <1>6, ScriptTypes DEF RescueExits, vars, disk, HeldInv
<1>7. CASE UNCHANGED netVars
    BY <1>7 DEF netVars, rescueVars, vars, disk, HeldInv
<1> QED BY <1>1, <1>2, <1>3, <1>4, <1>5, <1>6, <1>7 DEF NetNext, Script

\* A rescue sticks: no kill, boot, recovery or second rescue moves the board off golden
\* before a client asks for something (RescueSticks), whatever else fails, if clearing a
\* trial on disk does not.  Where that may fail the trial the rescue superseded stays
\* armed, and the boot that exhausts it reverts the board to what it ran before.
THEOREM RescueHolds == ASSUME "confirm" \notin Faults PROVE NetSpec => RescueSticks
<1>1. NetInit => HeldInv
    BY DEF NetInit, HeldInv
<1>2. NetInv /\ HeldInv /\ [NetNext]_netVars => HeldInv'
    BY HeldInvStep
<1>3. NetInv /\ HeldInv /\ [NetNext]_netVars => [held => current'[Tree] = current[Tree]]_netVars
    BY HeldInvStep
<1> QED BY <1>1, <1>2, <1>3, NetInvInit, NetInvStep, PTL DEF NetSpec, RescueSticks

----------------------------------------------------------------------------
(* The breadcrumb.                                                          *)

LEMMA CrumbStep ==
    ASSUME NetInv, BreadcrumbMeansTried, [NetNext]_netVars, ~BreadcrumbMeansTried'
    PROVE  PowerCycle /\ script.stage = "recorded"
<1> USE ScriptTypes DEF BreadcrumbMeansTried
<1>1. CASE UpdaterStep
    BY <1>1, EngineLinks DEF UpdaterStep
<1>2. CASE PowerCycle
    BY <1>2 DEF PowerCycle, Reboot, disk
<1>3. CASE BootCheck \/ RescueByHand
    <2>1. UNCHANGED script \/ script = NoScript
        BY <1>3 DEF BootCheck, RescueByHand, Rescue
    <2> QED BY <1>3, <2>1 DEF BootCheck, RescueByHand, vars, disk
<1>4. CASE WriteBreadcrumb
    <2>1. script \in Scripts /\ script'.stage = "recorded"
        BY <1>4, ScriptRuns DEF WriteBreadcrumb, NetInv
    <2> QED BY <2>1
<1>5. CASE SwapToGolden
    BY <1>5 DEF SwapToGolden
<1>6. CASE RescueReboots \/ RescueExits
    BY <1>6 DEF RescueReboots, RescueExits, Reboot, vars, disk
<1>7. CASE UNCHANGED netVars
    BY <1>7 DEF netVars, rescueVars, vars, disk
<1> QED BY <1>1, <1>2, <1>3, <1>4, <1>5, <1>6, <1>7 DEF NetNext, Script

\* A breadcrumb comes to name a rescue that never happened in one way only: power goes
\* between the record and the swap (OnlyACutMakesItLie).  No error, kill, recovery,
\* operation, forced or second rescue makes it lie, on a board with any releases.
THEOREM BreadcrumbLiesAfterACut == NetSpec => OnlyACutMakesItLie
<1>1. NetInv /\ [NetNext]_netVars
      => [BreadcrumbMeansTried /\ ~BreadcrumbMeansTried'
          => PowerCycle /\ script.stage = "recorded"]_netVars
    BY CrumbStep
<1> QED BY <1>1, NetInvInit, NetInvStep, PTL DEF NetSpec, OnlyACutMakesItLie

----------------------------------------------------------------------------
(* Golden, which the rescue needs on the disk. *)

\* No boot, rescue, power cut or prune beside them removes the release that the rescue
\* goes to: golden's directory goes away only in a reinstall of golden (GoldenKept).
THEOREM GoldenSurvivesInNet == NetSpec => GoldenKept
<1> DEFINE Kept == \A c \in Components :
               Golden[c] \in installed[c] /\ Golden[c] \notin installed'[c]
               => op.comp = c /\ op.to = Golden[c] /\ At("staging")
<1>1. ASSUME NetTypeOK, [NetNext]_netVars PROVE Kept
    <2>1. CASE UpdaterStep
        BY <1>1, <2>1, UpdaterStepIsNext, StepKeepsGolden DEF NetTypeOK
    <2>2. CASE ~UpdaterStep
        <3>1. UNCHANGED installed
            BY <1>1, <2>2 DEF NetNext, PowerCycle, RescueReboots, Reboot, BootCheck,
               RescueByHand, RescueExits, WriteBreadcrumb, SwapToGolden, Script, netVars,
               vars, disk
        <3> QED BY <3>1
    <2> QED BY <2>1, <2>2
<1>2. NetTypeOK /\ [NetNext]_netVars => [Kept]_vars
    BY <1>1
<1> QED BY <1>2, NetType, PTL DEF NetSpec, GoldenKept

----------------------------------------------------------------------------
(* The protocol with rescues in it.  Off the tree the rescue swaps, an     *)
(* operation still falls back to what is live; on it, to golden if not.     *)

OffTree == op # NoOp /\ op.comp # Tree /\ op.stage \in {"staging", "removed", "ready"}
               => op.from = current[op.comp]

LEMMA OffTreeStep ==
    ASSUME NetInv, OffTree, [NetNext]_netVars
    PROVE  OffTree'
<1> USE DEF NetInv, NetTypeOK, disk, bound
<1>1. ASSUME op' = NoOp \/ op'.stage \notin {"staging", "removed", "ready"} PROVE OffTree'
    BY <1>1 DEF OffTree
<1>2. CASE Client
    BY <1>2 DEF Client, AskApply, AskSelect, AskRollback, AskGolden, Ask, Operation, OffTree
<1>3. CASE Install
    <2>1. CASE Refuse \/ PublishFails
        BY <1>1, <2>1 DEF Refuse, PublishFails, EndOp
    <2>2. CASE AdmitCandidate
        <3>1. op \in Ops /\ UNCHANGED current
            BY <2>2, AtType DEF AdmitCandidate
        <3> QED BY <2>2, <3>1 DEF AdmitCandidate, Ops, OffTree
    <2>3. CASE RemoveOldDir \/ Publish
        <3>1. /\ op # NoOp /\ op.stage \in {"staging", "removed"}
              /\ op'.comp = op.comp /\ op'.from = op.from
            BY <2>3, GotoKeeps DEF RemoveOldDir, Publish
        <3> QED BY <2>3, <3>1 DEF RemoveOldDir, Publish, OffTree
    <2> QED BY <1>3, <2>1, <2>2, <2>3 DEF Install
<1>4. CASE Trial
    <2>1. CASE ArmFails \/ SwapFails \/ SyncFails \/ ConfirmFails \/ RecordApplied
        BY <1>1, <2>1 DEF ArmFails, SwapFails, SyncFails, AbandonSwap, ConfirmFails,
           RecordApplied, EndOp
    <2>2. ASSUME NEW s, At(s),
                 NEW t \in {"armed", "swapped", "gating", "confirming", "reverting",
                            "pruning", "committed"}, Goto(t)
          PROVE  OffTree'
        BY <1>1, <2>2, GotoKeeps
    <2>3. CASE Arm \/ Swap \/ Activate \/ GatePasses \/ GateFails \/ Confirm \/ Prune
        BY <2>2, <2>3 DEF Arm, Swap, Activate, GatePasses, GateFails, Confirm, Prune
    <2>4. CASE ActivateFails
        BY <1>1, <2>2, <2>4 DEF ActivateFails, EndOp
    <2> QED BY <1>4, <2>1, <2>3, <2>4 DEF Trial
<1>5. CASE RollbackTo
    <2>1. CASE Stuck \/ RevertFails \/ RevertConfirmFails \/ RecordRolledBack
        BY <1>1, <2>1 DEF Stuck, RevertFails, RevertConfirmFails, RecordRolledBack, EndOp,
           RevertError
    <2>2. CASE Revert \/ RevertConfirm
        BY <1>1, <2>2, GotoKeeps DEF Revert, RevertConfirm
    <2> QED BY <1>5, <2>1, <2>2 DEF RollbackTo
<1>6. CASE Recovery
    <2>1. op' = op \/ \E c \in Components : RevertExhausted(c)
        BY <1>6 DEF Recovery, Start, RecordRescue, RecordBoot, RecordBootFails, Serve,
           StillOnTrial, CommitExhausted, CommitExhaustedFails
    <2>2. UNCHANGED current
        BY <1>6 DEF Recovery, Start, RecordRescue, RecordBoot, RecordBootFails, Serve,
           StillOnTrial, CommitExhausted, CommitExhaustedFails, RevertExhausted
    <2>3. ASSUME NEW c \in Components, RevertExhausted(c) PROVE OffTree'
        BY <1>1, <2>3 DEF RevertExhausted, Operation
    <2> QED BY <2>1, <2>2, <2>3 DEF OffTree
<1>7. CASE Kill \/ PowerCycle \/ RescueReboots
    BY <1>1, <1>7 DEF Kill, PowerCycle, RescueReboots, Reboot
<1>8. CASE BootCheck \/ RescueByHand \/ RescueExits \/ WriteBreadcrumb
    BY <1>8 DEF BootCheck, RescueByHand, RescueExits, WriteBreadcrumb, vars, OffTree
<1>9. CASE SwapToGolden
    <2>1. \A c \in Components : c # Tree => current'[c] = current[c]
        BY <1>9 DEF SwapToGolden, TypeOK
    <2>2. op # NoOp => op.comp \in Components
        BY OpType
    <2> QED BY <1>9, <2>1, <2>2 DEF SwapToGolden, OffTree
<1>10. CASE UNCHANGED netVars
    BY <1>10 DEF netVars, vars, OffTree
<1> QED BY <1>2, <1>3, <1>4, <1>5, <1>6, <1>7, <1>8, <1>9, <1>10
        DEF NetNext, UpdaterStep, Engine, Script

\* The protocol of the engine alone is part of the one with rescues.
LEMMA ProtocolIsRescued ==
    [Protocol!Next]_<<current, trialOf>> => [RescuedProtocol!RescueNext]_<<current, trialOf>>
BY DEF trialOf, Protocol!Next, Protocol!Propose, Protocol!Switch, Protocol!Return,
   Protocol!Settle, Protocol!OnTrial, Protocol!Untried, RescuedProtocol!RescueNext,
   RescuedProtocol!Next, RescuedProtocol!Propose, RescuedProtocol!Switch,
   RescuedProtocol!Return, RescuedProtocol!Settle, RescuedProtocol!OnTrial,
   RescuedProtocol!Untried

LEMMA ArmIsRescued ==
    ASSUME NetInv, OffTree, Arms
    PROVE  RescuedProtocol!RescueNext
<1> DEFINE c == op.comp
<1>1. /\ c \in Components /\ op.to \in Versions /\ op.from \in Versions \cup {None}
      /\ trialOf' = [trialOf EXCEPT ![c] = [new |-> op.to, old |-> op.from]]
    BY ArmedTrialOf DEF NetInv, NetTypeOK
<1>2. current[c] \in {op.from, Golden[c]} /\ (c # Tree => op.from = current[c])
    BY DEF Arms, At, NetInv, Grounded, OffTree
<1>3. CASE op.from = current[c]
    <2>1. RescuedProtocol!Propose(c, op.to)
        BY <1>1, <1>3 DEF Arms, RescuedProtocol!Propose, trialOf
    <2> QED BY <1>1, <2>1 DEF RescuedProtocol!RescueNext, RescuedProtocol!Next,
                              RescuedProtocol!Propose
<1>4. CASE op.from # current[c]
    <2>1. c = Tree /\ current[Tree] = Golden[Tree]
        BY <1>2, <1>4
    <2>2. RescuedProtocol!ProposeDisplaced(op.to)
        BY <1>1, <2>1 DEF Arms, RescuedProtocol!ProposeDisplaced, trialOf
    <2> QED BY <1>1, <2>2 DEF RescuedProtocol!RescueNext, RescuedProtocol!ProposeDisplaced
<1> QED BY <1>3, <1>4

LEMMA NetIsRescued ==
    ASSUME NetInv, OffTree, [NetNext]_netVars
    PROVE  [RescuedProtocol!RescueNext]_<<current, trialOf>>
<1>1. CASE UpdaterStep
    BY <1>1, UpdaterStepIsNext, GroundedProtocol, ArmIsRescued, ProtocolIsRescued
       DEF NetInv, NetTypeOK
<1>2. CASE SwapToGolden
    <2>1. script # NoScript
        BY <1>2, ScriptTypes DEF SwapToGolden
    <2>2. current' = [current EXCEPT ![Tree] = Golden[Tree]] /\ trialOf' = trialOf
        BY <1>2, <2>1, RescueFacts DEF SwapToGolden, NetInv, GoldenFixed, trialOf
    <2>3. RescuedProtocol!Displace
        BY <2>2 DEF RescuedProtocol!Displace, trialOf
    <2> QED BY <2>3 DEF RescuedProtocol!RescueNext
<1>3. CASE UNCHANGED <<current, pending>>
    BY <1>3 DEF trialOf
<1>4. PowerCycle \/ RescueReboots \/ BootCheck \/ RescueByHand \/ RescueExits
          \/ WriteBreadcrumb \/ UNCHANGED netVars => UNCHANGED <<current, pending>>
    BY DEF PowerCycle, RescueReboots, Reboot, BootCheck, RescueByHand, RescueExits,
           WriteBreadcrumb, netVars, vars, disk
<1> QED BY <1>1, <1>2, <1>3, <1>4 DEF NetNext, Script

\* The engine and the scripts, none of which waits for another, implement the protocol
\* with rescues in it (ImplementsRescueProtocol): a rescue swapping the link without the
\* lock costs the tree's next trial its true predecessor, and nothing more.
THEOREM NetImplementsRescueProtocol == NetSpec => ImplementsRescueProtocol
<1>1. NetInit => RescuedProtocol!Init /\ OffTree
    BY DEF NetInit, Init, RescuedProtocol!Init, RescuedProtocol!Untried, NoTrial, OffTree
<1>2. NetInv /\ OffTree /\ [NetNext]_netVars
          => OffTree' /\ [RescuedProtocol!RescueNext]_<<current, trialOf>>
    BY OffTreeStep, NetIsRescued
<1> QED BY <1>1, <1>2, NetInvInit, NetInvStep, PTL
        DEF NetSpec, ImplementsRescueProtocol, RescuedProtocol!RescueSpec, trialOf
=============================================================================
