--------------------------- MODULE UpdaterProofs ---------------------------
(***************************************************************************)
(* What holds of the update engine for every set of components and         *)
(* releases, every golden, factory and retention setting, every subset of  *)
(* the I/O faults and any number of kills.                                 *)
(***************************************************************************)
EXTENDS Updater, TLAPS

ConstantFacts ==
    /\ Golden \in [Components -> Versions \cup {None}]
    /\ Factory \in [Components -> Versions \cup {None}]
    /\ None \notin Versions
    /\ MaxBoots \in Nat \ {0}

LEMMA Constants == ConstantFacts
  BY GoldenAssumption, FactoryAssumption, VersionsAssumption, BootsAssumption
     DEF ConstantFacts

-----------------------------------------------------------------------------
(* Types of the values the actions write. *)

LEMMA OpType ==
  ASSUME TypeOK, op # NoOp
  PROVE  /\ op \in Ops
         /\ op.comp \in Components /\ op.to \in Versions
         /\ op.from \in Versions \cup {None}
  BY DEF TypeOK, Ops

LEMMA AtType ==
  ASSUME TypeOK, NEW s, At(s)
  PROVE  /\ op # NoOp /\ op.stage = s /\ op \in Ops
         /\ op.comp \in Components /\ op.to \in Versions
         /\ op.from \in Versions \cup {None}
  BY OpType DEF At

LEMMA GotoType ==
  ASSUME op \in Ops, NEW s \in Stages, Goto(s)
  PROVE  op' \in Ops
  BY DEF Goto, Ops

LEMMA DisarmedType ==
  ASSUME TypeOK, NEW c \in Components
  PROVE  Disarmed(c) \in [Components -> Trials \cup {NoTrial}]
  BY DEF TypeOK, Disarmed

LEMMA ArmedType ==
  ASSUME TypeOK, op \in Ops
  PROVE  Armed(op.comp) \in [Components -> Trials \cup {NoTrial}]
<1>1. [version |-> op.to, previous |-> op.from, boots |-> 0] \in Trials
  BY Constants DEF ConstantFacts, Ops, Trials
<1> QED  BY <1>1 DEF TypeOK, Armed

LEMMA LinkedType ==
  ASSUME TypeOK, NEW c \in Components, NEW v \in Versions
  PROVE  Linked(c, v) \in [Components -> Versions \cup {None}]
  BY DEF TypeOK, Linked

LEMMA LoggingType ==
  ASSUME TypeOK, NEW c \in Components, NEW v, NEW o \in Outcomes
  PROVE  Logging(c, v, o) \in [Components -> [Versions -> Outcomes]]
  BY DEF TypeOK, Logging

LEMMA TriedType ==
  ASSUME TypeOK, NEW c \in Components, NEW v \in Versions,
         NEW o \in {"untried", "passed", "failed"}
  PROVE  Tried(c, v, o) \in
           [Components -> [Versions -> {"untried", "passed", "failed"}]]
  BY DEF TypeOK, Tried

LEMMA CountedType ==
  ASSUME TypeOK
  PROVE  Counted \in [Components -> Trials \cup {NoTrial}]
<1>1. ASSUME NEW c \in Components, pending[c] # NoTrial
      PROVE  [pending[c] EXCEPT !.boots = Capped(@ + 1)] \in Trials
  <2>1. pending[c] \in Trials
    BY <1>1 DEF TypeOK
  <2>2. Capped(pending[c].boots + 1) \in 0 .. MaxBoots
    BY <2>1, Constants DEF ConstantFacts, Trials, Capped
  <2> QED  BY <2>1, <2>2 DEF Trials
<1> QED  BY <1>1 DEF Counted

LEMMA AppendType ==
  ASSUME TypeOK, op \in Ops, NEW v, NEW o \in Outcomes, Append(v, o)
  PROVE  logged' \in [Components -> [Versions -> Outcomes]]
<1>1. op.comp \in Components
  BY DEF Ops
<1>2. Logging(op.comp, v, o) \in [Components -> [Versions -> Outcomes]]
  BY <1>1, LoggingType
<1>3. logged \in [Components -> [Versions -> Outcomes]]
  BY DEF TypeOK
<1> QED  BY <1>2, <1>3 DEF Append

LEMMA ExhaustedTrial ==
  ASSUME TypeOK, NEW c \in Components, Exhausted(c)
  PROVE  pending[c] \in Trials /\ pending[c] # NoTrial
  BY Constants DEF ConstantFacts, Exhausted, TypeOK, NoTrial, Trials

LEMMA RecoveryTargetType ==
  ASSUME TypeOK, NEW c \in Components
  PROVE  /\ RecoveryTarget(c) \in Versions \cup {None}
         /\ RecoveryTarget(c) \in {pending[c].previous, Golden[c], None}
  BY DEF TypeOK, RecoveryTarget

-----------------------------------------------------------------------------
(* Every behaviour keeps the types. *)

LEMMA InitType == Init => TypeOK
<1> SUFFICES ASSUME Init PROVE TypeOK
  OBVIOUS
<1>1. installed \in [Components -> SUBSET Versions]
  BY Constants DEF Init, ConstantFacts
<1>2. current \in [Components -> Versions \cup {None}]
  BY Constants DEF Init, ConstantFacts
<1>3. logged \in [Components -> [Versions -> Outcomes]]
  BY DEF Init, Outcomes
<1>4. trialled \in [Components -> [Versions -> {"untried", "passed", "failed"}]]
  BY DEF Init
<1> QED  BY <1>1, <1>2, <1>3, <1>4 DEF Init, TypeOK

LEMMA ClientType == TypeOK /\ Client => TypeOK'
<1> SUFFICES ASSUME TypeOK, NEW c \in Components,
                    \/ \E v \in Versions : AskApply(c, v) \/ AskSelect(c, v)
                    \/ AskRollback(c)
                    \/ AskGolden(c)
             PROVE  TypeOK'
  BY DEF Client
<1>1. current[c] \in Versions \cup {None} /\ installed[c] \subseteq Versions
  BY DEF TypeOK
<1>2. ASSUME NEW kind \in Commands, NEW v \in Versions, NEW s \in Stages,
             Ask(kind), Operation(kind, c, v, current[c], s)
      PROVE  TypeOK'
  <2>1. op' \in Ops
    BY <1>1, <1>2, BoundsAssumption DEF Operation, Ops
  <2> QED  BY <1>2, <2>1 DEF TypeOK, Ask, disk
<1>3. CASE \E v \in Versions : AskApply(c, v)
  BY <1>2, <1>3 DEF AskApply, Ask, Stages
<1>4. CASE \E v \in Versions : AskSelect(c, v)
  BY <1>2, <1>4 DEF AskSelect, Ask, Stages
<1>5. CASE AskRollback(c)
  <2>1. RollbackTargets(c) \subseteq Versions
    BY <1>1 DEF RollbackTargets, RollbackCandidates
  <2> QED  BY <1>2, <1>5, <2>1 DEF AskRollback, Ask, Stages
<1>6. CASE AskGolden(c)
  <2>1. Golden[c] \in Versions
    BY <1>1, <1>6 DEF AskGolden
  <2> QED  BY <1>2, <1>6, <2>1 DEF AskGolden, Ask, Stages
<1> QED  BY <1>3, <1>4, <1>5, <1>6

LEMMA InstallType == TypeOK /\ Install => TypeOK'
<1> SUFFICES ASSUME TypeOK, Install PROVE TypeOK'
  OBVIOUS
<1> USE DEF disk, bound
<1>1. CASE Refuse
  BY <1>1 DEF Refuse, EndOp, TypeOK
<1>2. CASE AdmitCandidate
  <2>1. op \in Ops /\ current[op.comp] \in Versions \cup {None}
    BY <1>2, AtType DEF AdmitCandidate, TypeOK
  <2>2. op' \in Ops
    BY <1>2, <2>1 DEF AdmitCandidate, Ops, Stages
  <2> QED  BY <1>2, <2>2 DEF AdmitCandidate, TypeOK
<1>3. CASE RemoveOldDir
  <2>1. op' \in Ops
    BY <1>3, AtType, GotoType DEF RemoveOldDir, Stages
  <2>2. installed' \in [Components -> SUBSET Versions]
    BY <1>3 DEF RemoveOldDir, TypeOK
  <2> QED  BY <1>3, <2>1, <2>2 DEF RemoveOldDir, TypeOK
<1>4. CASE Publish
  <2>1. op' \in Ops /\ op.to \in Versions
    BY <1>4, AtType, GotoType DEF Publish, Stages
  <2>2. installed' \in [Components -> SUBSET Versions]
    BY <1>4, <2>1 DEF Publish, TypeOK
  <2> QED  BY <1>4, <2>1, <2>2 DEF Publish, TypeOK
<1>5. CASE PublishFails
  BY <1>5 DEF PublishFails, EndOp, TypeOK
<1> QED  BY <1>1, <1>2, <1>3, <1>4, <1>5 DEF Install

LEMMA TrialType == TypeOK /\ Trial => TypeOK'
<1> SUFFICES ASSUME TypeOK, Trial PROVE TypeOK'
  OBVIOUS
<1> USE DEF disk, bound
<1>1. CASE Arm
  <2>1. op \in Ops /\ op' \in Ops
    BY <1>1, AtType, GotoType DEF Arm, Stages
  <2> QED  BY <1>1, <2>1, ArmedType DEF Arm, TypeOK
<1>2. CASE ArmFails
  <2>1. op \in Ops
    BY <1>2, AtType DEF ArmFails
  <2> QED  BY <1>2, <2>1, ArmedType DEF ArmFails, EndOp, TypeOK
<1>3. CASE Swap
  <2>1. op' \in Ops /\ op.comp \in Components /\ op.to \in Versions
    BY <1>3, AtType, GotoType DEF Swap, Stages
  <2>2. Linked(op.comp, op.to) \in [Components -> Versions \cup {None}]
    BY <2>1, LinkedType
  <2>3. Tried(op.comp, op.to, "untried") \in
          [Components -> [Versions -> {"untried", "passed", "failed"}]]
    BY <2>1, TriedType
  <2> QED  BY <1>3, <2>1, <2>2, <2>3 DEF Swap, TypeOK
<1>4. CASE SwapFails \/ SyncFails
  <2>1. op.comp \in Components
    BY <1>4, AtType DEF SwapFails, SyncFails
  <2>2. Disarmed(op.comp) \in [Components -> Trials \cup {NoTrial}]
    BY <2>1, DisarmedType
  <2> QED  BY <1>4, <2>2 DEF SwapFails, SyncFails, AbandonSwap,
          DisarmBestEffort, EndOp, TypeOK
<1>5. CASE Activate
  <2>1. op' \in Ops
    BY <1>5, AtType, GotoType DEF Activate, Stages
  <2> QED  BY <1>5, <2>1 DEF Activate, TypeOK
<1>6. CASE ActivateFails
  <2>1. op \in Ops /\ op.comp \in Components /\ op.to \in Versions
    BY <1>6, AtType DEF ActivateFails
  <2>2. Goto("reverting") => op' \in Ops
    BY <2>1, GotoType DEF Stages
  <2>3. Disarmed(op.comp) \in [Components -> Trials \cup {NoTrial}]
    BY <2>1, DisarmedType
  <2>4. Tried(op.comp, op.to, "failed") \in
          [Components -> [Versions -> {"untried", "passed", "failed"}]]
    BY <2>1, TriedType
  <2> QED  BY <1>6, <2>2, <2>3, <2>4 DEF ActivateFails, DisarmBestEffort,
          EndOp, TypeOK
<1>7. CASE GatePasses
  <2>1. op' \in Ops /\ op.comp \in Components /\ op.to \in Versions
    BY <1>7, AtType, GotoType DEF GatePasses, Stages
  <2>2. Tried(op.comp, op.to, "passed") \in
          [Components -> [Versions -> {"untried", "passed", "failed"}]]
    BY <2>1, TriedType
  <2> QED  BY <1>7, <2>1, <2>2 DEF GatePasses, TypeOK
<1>8. CASE GateFails
  <2>1. op' \in Ops /\ op.comp \in Components /\ op.to \in Versions
    BY <1>8, AtType, GotoType DEF GateFails, Stages
  <2>2. Tried(op.comp, op.to, "failed") \in
          [Components -> [Versions -> {"untried", "passed", "failed"}]]
    BY <2>1, TriedType
  <2> QED  BY <1>8, <2>1, <2>2 DEF GateFails, TypeOK
<1>9. CASE Confirm
  <2>1. op' \in Ops /\ op.comp \in Components
    BY <1>9, AtType, GotoType DEF Confirm, Stages
  <2> QED  BY <1>9, <2>1, DisarmedType DEF Confirm, TypeOK
<1>10. CASE ConfirmFails
  <2>1. op.comp \in Components
    BY <1>10, AtType DEF ConfirmFails
  <2> QED  BY <1>10, <2>1, DisarmedType DEF ConfirmFails, EndOp, TypeOK
<1>11. CASE Prune
  <2>1. op' \in Ops
    BY <1>11, AtType, GotoType DEF Prune, Stages
  <2>2. PICK gone : installed' = [installed EXCEPT ![op.comp] = @ \ gone]
    BY <1>11 DEF Prune
  <2>3. installed' \in [Components -> SUBSET Versions]
    BY <2>2 DEF TypeOK
  <2> QED  BY <1>11, <2>1, <2>3 DEF Prune, TypeOK
<1>12. CASE RecordApplied
  <2>1. op \in Ops /\ op.to \in Versions
    BY <1>12, AtType DEF RecordApplied
  <2>2. logged' \in [Components -> [Versions -> Outcomes]]
    BY <1>12, <2>1, AppendType DEF RecordApplied, Outcomes
  <2> QED  BY <1>12, <2>2 DEF RecordApplied, EndOp, TypeOK
<1> QED  BY <1>1, <1>2, <1>3, <1>4, <1>5, <1>6, <1>7, <1>8, <1>9, <1>10,
            <1>11, <1>12 DEF Trial

LEMMA RollbackType == TypeOK /\ RollbackTo => TypeOK'
<1> SUFFICES ASSUME TypeOK, RollbackTo PROVE TypeOK'
  OBVIOUS
<1> USE DEF disk, bound
<1>1. CASE Stuck
  <2>1. op \in Ops /\ op.comp \in Components /\ op.to \in Versions
    BY <1>1, AtType DEF Stuck
  <2>2. Append(op.to, "aborted") => logged' \in [Components -> [Versions -> Outcomes]]
    BY <2>1, AppendType DEF Outcomes
  <2>3. Disarmed(op.comp) \in [Components -> Trials \cup {NoTrial}]
    BY <2>1, DisarmedType
  <2> QED  BY <1>1, <2>2, <2>3 DEF Stuck, EndOp, TypeOK
<1>2. CASE Revert
  <2>1. op' \in Ops /\ op.comp \in Components
    BY <1>2, AtType, GotoType DEF Revert, Stages
  <2>2. op.from \in Versions
    BY <1>2, <2>1 DEF Revert, TypeOK
  <2>3. Linked(op.comp, op.from) \in [Components -> Versions \cup {None}]
    BY <2>1, <2>2, LinkedType
  <2> QED  BY <1>2, <2>1, <2>3 DEF Revert, TypeOK
<1>3. CASE RevertFails
  <2>1. op.comp \in Components
    BY <1>3, AtType DEF RevertFails
  <2>2. Disarmed(op.comp) \in [Components -> Trials \cup {NoTrial}]
    BY <2>1, DisarmedType
  <2> QED  BY <1>3, <2>2 DEF RevertFails, RevertError, TypeOK
<1>4. CASE RevertConfirm
  <2>1. op' \in Ops /\ op.comp \in Components
    BY <1>4, AtType, GotoType DEF RevertConfirm, Stages
  <2> QED  BY <1>4, <2>1, DisarmedType DEF RevertConfirm, TypeOK
<1>5. CASE RevertConfirmFails
  <2>1. op.comp \in Components
    BY <1>5, AtType DEF RevertConfirmFails
  <2>2. Disarmed(op.comp) \in [Components -> Trials \cup {NoTrial}]
    BY <2>1, DisarmedType
  <2> QED  BY <1>5, <2>2 DEF RevertConfirmFails, RevertError, TypeOK
<1>6. CASE RecordRolledBack
  <2>1. op \in Ops
    BY <1>6, AtType DEF RecordRolledBack
  <2>2. logged' \in [Components -> [Versions -> Outcomes]]
    BY <1>6, <2>1, AppendType DEF RecordRolledBack, Outcomes
  <2> QED  BY <1>6, <2>2 DEF RecordRolledBack, EndOp, TypeOK
<1> QED  BY <1>1, <1>2, <1>3, <1>4, <1>5, <1>6 DEF RollbackTo

LEMMA RecoveryType == TypeOK /\ Recovery => TypeOK'
<1> SUFFICES ASSUME TypeOK, Recovery PROVE TypeOK'
  OBVIOUS
<1> USE DEF disk, bound
<1>1. CASE Start
  BY <1>1 DEF Start, TypeOK
<1>2. CASE RecordRescue
  <2>1. GoldenLinks \in [Components -> Versions \cup {None}]
    BY Constants DEF ConstantFacts, GoldenLinks, TypeOK
  <2>2. CASE crumb = NoCrumb
    BY <1>2, <2>1, <2>2 DEF RecordRescue, TypeOK
  <2>3. CASE crumb # NoCrumb
    <3>1. crumb.comp \in Components /\ crumb.to \in Versions
      BY <2>3 DEF TypeOK, Crumbs
    <3>2. Logging(crumb.comp, crumb.to, "rolled_back") \in
            [Components -> [Versions -> Outcomes]]
      BY <3>1, LoggingType DEF Outcomes
    <3>3. Disarmed(crumb.comp) \in [Components -> Trials \cup {NoTrial}]
      BY <3>1, DisarmedType
    <3> QED  BY <1>2, <2>1, <2>3, <3>2, <3>3 DEF RecordRescue, TypeOK
  <2> QED  BY <2>2, <2>3
<1>3. CASE RecordBoot
  BY <1>3, CountedType DEF RecordBoot, TypeOK
<1>4. CASE RecordBootFails
  BY <1>4, CountedType DEF RecordBootFails, TypeOK
<1>5. CASE Serve
  BY <1>5 DEF Serve, TypeOK
<1>6. ASSUME NEW c \in Components, StillOnTrial(c) PROVE TypeOK'
  BY <1>6 DEF StillOnTrial, TypeOK
<1>7. ASSUME NEW c \in Components, CommitExhausted(c) \/ CommitExhaustedFails(c)
      PROVE  TypeOK'
  <2>1. Disarmed(c) \in [Components -> Trials \cup {NoTrial}]
    BY <1>7, DisarmedType
  <2>2. Judged(c, "passed") \in
          [Components -> [Versions -> {"untried", "passed", "failed"}]]
    BY <1>7, ExhaustedTrial, TriedType
       DEF CommitExhausted, CommitExhaustedFails, Judged, Trials, TypeOK
  <2> QED  BY <1>7, <2>1, <2>2 DEF CommitExhausted, CommitExhaustedFails, TypeOK
<1>8. ASSUME NEW c \in Components, RevertExhausted(c) PROVE TypeOK'
  <2>1. pending[c] \in Trials
    BY <1>8, ExhaustedTrial DEF RevertExhausted
  <2>2. op' \in Ops
    BY <1>8, <2>1, RecoveryTargetType
       DEF RevertExhausted, Operation, Ops, Kinds, Stages, Trials
  <2>3. Judged(c, "failed") \in
          [Components -> [Versions -> {"untried", "passed", "failed"}]]
    BY <1>8, <2>1, TriedType DEF Judged, Trials, TypeOK
  <2> QED  BY <1>8, <2>2, <2>3 DEF RevertExhausted, TypeOK
<1> QED  BY <1>1, <1>2, <1>3, <1>4, <1>5, <1>6, <1>7, <1>8 DEF Recovery

LEMMA KillType == TypeOK /\ Kill => TypeOK'
  BY DEF Kill, TypeOK, disk

LEMMA NextType == TypeOK /\ [Next]_vars => TypeOK'
<1> SUFFICES ASSUME TypeOK, [Next]_vars PROVE TypeOK'
  OBVIOUS
<1>1. CASE Next
  BY <1>1, ClientType, InstallType, TrialType, RollbackType, RecoveryType, KillType
     DEF Next, Engine
<1>2. CASE UNCHANGED vars
  BY <1>2 DEF vars, disk, bound, TypeOK
<1> QED  BY <1>1, <1>2

\* Every reachable state of the engine is well typed, for every instance.
THEOREM TypeCorrect == Spec => []TypeOK
  BY InitType, NextType, PTL DEF Spec

-----------------------------------------------------------------------------
(* The operation under the lock and the disk agree.  OperationInv is what   *)
(* makes the safety properties inductive: it says, stage by stage, that the *)
(* release to fall back to is the live one until the swap and that the      *)
(* trial on disk is this operation's own until its verdict.                 *)

LEMMA InitOperation == Init => OperationInv
  BY DEF Init, OperationInv

LEMMA OperationEnds == op' = NoOp => OperationInv'
  BY DEF OperationInv

LEMMA ClientOperation == TypeOK /\ OperationInv /\ Client => OperationInv'
<1> SUFFICES ASSUME NEW c \in Components,
                    NEW kind \in Commands, NEW v, NEW s \in {"checking", "ready"},
                    kind # "recover", Ask(kind), Operation(kind, c, v, current[c], s)
             PROVE  OperationInv'
  BY DEF Client, AskApply, AskSelect, AskRollback, AskGolden, Ask
<1> QED  BY DEF Ask, Operation, OperationInv, disk

LEMMA InstallOperation == TypeOK /\ OperationInv /\ Install => OperationInv'
<1> SUFFICES ASSUME TypeOK, OperationInv, Install PROVE OperationInv'
  OBVIOUS
<1> USE DEF disk, bound
<1>1. CASE Refuse \/ PublishFails
  BY <1>1, OperationEnds DEF Refuse, PublishFails, EndOp
<1>2. CASE AdmitCandidate
  <2>1. op # NoOp /\ op.stage = "checking" /\ op \in Ops
    BY <1>2, AtType DEF AdmitCandidate
  <2>2. /\ op'.stage = "staging" /\ op'.from = current[op.comp]
        /\ op'.to = op.to /\ op'.comp = op.comp /\ op'.kind = op.kind
    BY <1>2, <2>1 DEF AdmitCandidate, Ops
  <2> QED  BY <1>2, <2>1, <2>2 DEF AdmitCandidate, OperationInv
<1>3. CASE RemoveOldDir
  <2>1. op # NoOp /\ op.stage = "staging" /\ op \in Ops
    BY <1>3, AtType DEF RemoveOldDir
  <2>2. /\ op'.stage = "removed" /\ op'.from = op.from
        /\ op'.to = op.to /\ op'.comp = op.comp /\ op'.kind = op.kind
    BY <1>3, <2>1 DEF RemoveOldDir, Goto, Ops
  <2> QED  BY <1>3, <2>1, <2>2 DEF RemoveOldDir, OperationInv
<1>4. CASE Publish
  <2>1. op # NoOp /\ op.stage = "removed" /\ op \in Ops
    BY <1>4, AtType DEF Publish
  <2>2. /\ op'.stage = "ready" /\ op'.from = op.from
        /\ op'.to = op.to /\ op'.comp = op.comp /\ op'.kind = op.kind
    BY <1>4, <2>1 DEF Publish, Goto, Ops
  <2> QED  BY <1>4, <2>1, <2>2 DEF Publish, OperationInv
<1> QED  BY <1>1, <1>2, <1>3, <1>4 DEF Install

\* What a step from one stage to the next leaves of the operation.
LEMMA GotoKeeps ==
  ASSUME TypeOK, NEW s, At(s), NEW t, Goto(t)
  PROVE  /\ op # NoOp /\ op.stage = s /\ op'.stage = t
         /\ op'.kind = op.kind /\ op'.comp = op.comp
         /\ op'.to = op.to /\ op'.from = op.from
<1>1. op \in Ops
  BY AtType
<1> QED  BY <1>1 DEF At, Goto, Ops

LEMMA TrialOperation == TypeOK /\ OperationInv /\ Trial => OperationInv'
<1> SUFFICES ASSUME TypeOK, OperationInv, Trial PROVE OperationInv'
  OBVIOUS
<1> USE DEF disk, bound
<1>1. CASE Arm
  <2>1. /\ op # NoOp /\ op.stage = "ready" /\ op'.stage = "armed"
        /\ op'.kind = op.kind /\ op'.comp = op.comp
        /\ op'.to = op.to /\ op'.from = op.from
    BY <1>1, GotoKeeps DEF Arm
  <2>2. pending'[op.comp].version = op.to /\ pending'[op.comp].previous = op.from
    BY <1>1, AtType DEF Arm, Armed, TypeOK
  <2> QED  BY <1>1, <2>1, <2>2 DEF Arm, OperationInv, OnRecord
<1>2. CASE ArmFails \/ SwapFails \/ SyncFails \/ ConfirmFails \/ RecordApplied
  BY <1>2, OperationEnds DEF ArmFails, SwapFails, SyncFails, AbandonSwap,
     ConfirmFails, RecordApplied, EndOp
<1>3. CASE Swap
  <2>1. /\ op # NoOp /\ op.stage = "armed" /\ op'.stage = "swapped"
        /\ op'.kind = op.kind /\ op'.comp = op.comp
        /\ op'.to = op.to /\ op'.from = op.from
    BY <1>3, GotoKeeps DEF Swap
  <2> QED  BY <1>3, <2>1 DEF Swap, OperationInv, OnRecord
<1>4. CASE Activate
  <2>1. /\ op # NoOp /\ op.stage = "swapped" /\ op'.stage = "gating"
        /\ op'.kind = op.kind /\ op'.comp = op.comp
        /\ op'.to = op.to /\ op'.from = op.from
    BY <1>4, GotoKeeps DEF Activate
  <2> QED  BY <1>4, <2>1 DEF Activate, OperationInv, OnRecord
<1>5. CASE ActivateFails
  <2>1. CASE Applying
    <3>1. /\ op # NoOp /\ op.stage = "swapped" /\ op'.stage = "reverting"
          /\ op'.kind = op.kind /\ op'.comp = op.comp
          /\ op'.to = op.to /\ op'.from = op.from
      BY <1>5, <2>1, GotoKeeps DEF ActivateFails
    <3> QED  BY <1>5, <2>1, <3>1 DEF ActivateFails, OperationInv, OnRecord, Applying
  <2>2. CASE ~Applying
    BY <1>5, <2>2, OperationEnds DEF ActivateFails, EndOp
  <2> QED  BY <2>1, <2>2
<1>6. CASE GatePasses
  <2>1. /\ op # NoOp /\ op.stage = "gating" /\ op'.stage = "confirming"
        /\ op'.kind = op.kind /\ op'.comp = op.comp
        /\ op'.to = op.to /\ op'.from = op.from
    BY <1>6, GotoKeeps DEF GatePasses
  <2> QED  BY <1>6, <2>1 DEF GatePasses, OperationInv, OnRecord
<1>7. CASE GateFails
  <2>1. /\ op # NoOp /\ op.stage = "gating" /\ op'.stage = "reverting"
        /\ op'.kind = op.kind /\ op'.comp = op.comp
        /\ op'.to = op.to /\ op'.from = op.from
    BY <1>7, GotoKeeps DEF GateFails
  <2> QED  BY <1>7, <2>1 DEF GateFails, OperationInv, OnRecord
<1>8. CASE Confirm
  <2>1. /\ op # NoOp /\ op.stage = "confirming" /\ op'.stage \in {"pruning", "committed"}
        /\ op'.kind = op.kind /\ op'.comp = op.comp
        /\ op'.to = op.to /\ op'.from = op.from
    BY <1>8, GotoKeeps DEF Confirm
  <2> QED  BY <1>8, <2>1 DEF Confirm, OperationInv
<1>9. CASE Prune
  <2>1. /\ op # NoOp /\ op.stage = "pruning" /\ op'.stage = "committed"
        /\ op'.kind = op.kind /\ op'.comp = op.comp
        /\ op'.to = op.to /\ op'.from = op.from
    BY <1>9, GotoKeeps DEF Prune
  <2> QED  BY <1>9, <2>1 DEF Prune, OperationInv
<1> QED  BY <1>1, <1>2, <1>3, <1>4, <1>5, <1>6, <1>7, <1>8, <1>9 DEF Trial

LEMMA RollbackOperation == TypeOK /\ OperationInv /\ RollbackTo => OperationInv'
<1> SUFFICES ASSUME TypeOK, OperationInv, RollbackTo PROVE OperationInv'
  OBVIOUS
<1>1. CASE Stuck \/ RevertFails \/ RevertConfirmFails \/ RecordRolledBack
  BY <1>1, OperationEnds DEF Stuck, RevertFails, RevertConfirmFails,
     RecordRolledBack, EndOp, RevertError
<1>2. CASE Revert
  <2>1. /\ op # NoOp /\ op.stage = "reverting" /\ op'.stage = "reverted"
        /\ op'.kind = op.kind
    BY <1>2, GotoKeeps DEF Revert
  <2> QED  BY <1>2, <2>1 DEF Revert, OperationInv
<1>3. CASE RevertConfirm
  <2>1. /\ op # NoOp /\ op.stage = "reverted" /\ op'.stage = "undone"
        /\ op'.kind = op.kind
    BY <1>3, GotoKeeps DEF RevertConfirm
  <2> QED  BY <1>3, <2>1 DEF RevertConfirm, OperationInv
<1> QED  BY <1>1, <1>2, <1>3 DEF RollbackTo

LEMMA RecoveryOperation == TypeOK /\ OperationInv /\ Recovery => OperationInv'
<1> SUFFICES ASSUME TypeOK, OperationInv, Recovery PROVE OperationInv'
  OBVIOUS
<1> USE DEF disk, bound
<1>1. CASE Start \/ RecordRescue \/ RecordBoot \/ RecordBootFails \/ Serve
  <2>1. op = NoOp /\ op' = op
    BY <1>1 DEF Start, RecordRescue, RecordBoot, RecordBootFails, Serve, OperationInv
  <2> QED  BY <2>1, OperationEnds
<1>2. ASSUME NEW c \in Components,
             StillOnTrial(c) \/ CommitExhausted(c) \/ CommitExhaustedFails(c)
      PROVE  OperationInv'
  <2>1. op = NoOp /\ op' = op
    BY <1>2 DEF StillOnTrial, CommitExhausted, CommitExhaustedFails, NextTrial
  <2> QED  BY <2>1, OperationEnds
<1>3. ASSUME NEW c \in Components, RevertExhausted(c) PROVE OperationInv'
  <2>1. /\ op'.kind = "recover" /\ op'.comp = c /\ op'.stage = "reverting"
        /\ op'.from = RecoveryTarget(c) /\ pending' = pending
        /\ daemon' = "recovering"
    BY <1>3 DEF RevertExhausted, Operation, NextTrial
  <2>2. pending[c] # NoTrial
    BY <1>3, ExhaustedTrial DEF RevertExhausted
  <2> QED  BY <2>1, <2>2, RecoveryTargetType DEF OperationInv, Recoverable
<1> QED  BY <1>1, <1>2, <1>3 DEF Recovery

LEMMA NextOperation == TypeOK /\ OperationInv /\ [Next]_vars => OperationInv'
<1> SUFFICES ASSUME TypeOK, OperationInv, [Next]_vars PROVE OperationInv'
  OBVIOUS
<1>1. CASE Kill
  BY <1>1, OperationEnds DEF Kill
<1>2. CASE UNCHANGED vars
  BY <1>2 DEF vars, disk, OperationInv, OnRecord, Recoverable
<1> QED  BY <1>1, <1>2, ClientOperation, InstallOperation, TrialOperation,
            RollbackOperation, RecoveryOperation DEF Next, Engine

\* The operation under the lock and the disk agree in every reachable state.
THEOREM OperationAgrees == Spec => []OperationInv
  BY InitType, NextType, InitOperation, NextOperation, PTL DEF Spec

-----------------------------------------------------------------------------
(* The live release and its directory. *)

LEMMA InitInstalled == Init => CurrentInstalled
  BY Constants DEF Init, CurrentInstalled, ConstantFacts

LEMMA NextInstalled ==
  TypeOK /\ OperationInv /\ CurrentInstalled /\ [Next]_vars => CurrentInstalled'
<1> SUFFICES ASSUME TypeOK, OperationInv, CurrentInstalled, [Next]_vars
             PROVE  CurrentInstalled'
  OBVIOUS
<1> USE DEF disk, bound
<1>1. CASE UNCHANGED <<installed, current>>
  BY <1>1 DEF CurrentInstalled
<1>2. CASE RemoveOldDir
  <2>1. op.comp \in Components /\ op.to # current[op.comp]
    BY <1>2, AtType DEF RemoveOldDir, At, OperationInv
  <2> QED  BY <1>2, <2>1 DEF RemoveOldDir, CurrentInstalled, TypeOK
<1>3. CASE Publish
  BY <1>3 DEF Publish, CurrentInstalled, TypeOK
<1>4. CASE Swap
  BY <1>4, AtType DEF Swap, Linked, CurrentInstalled, TypeOK
<1>5. CASE Revert
  BY <1>5, AtType DEF Revert, Linked, CurrentInstalled, TypeOK
<1>6. CASE Prune
  <2>1. op.comp \in Components
    BY <1>6, AtType DEF Prune
  <2>2. PICK gone \in SUBSET Doomed(op.comp) :
               installed' = [installed EXCEPT ![op.comp] = @ \ gone]
    BY <1>6 DEF Prune
  <2>3. current[op.comp] \notin Doomed(op.comp)
    BY DEF Doomed, Spare
  <2> QED  BY <1>6, <2>1, <2>2, <2>3 DEF Prune, CurrentInstalled, TypeOK
<1>7. ASSUME Next PROVE \/ UNCHANGED <<installed, current>>
                        \/ RemoveOldDir \/ Publish \/ Swap \/ Revert \/ Prune
  <2>1. CASE Client
    BY <2>1 DEF Client, AskApply, AskSelect, AskRollback, AskGolden, Ask
  <2>2. CASE Install
    BY <2>2 DEF Install, Refuse, AdmitCandidate, PublishFails
  <2>3. CASE Trial
    BY <2>3 DEF Trial, Arm, ArmFails, SwapFails, SyncFails, AbandonSwap, Activate,
       ActivateFails, GatePasses, GateFails, Confirm, ConfirmFails, RecordApplied
  <2>4. CASE RollbackTo
    BY <2>4 DEF RollbackTo, Stuck, RevertFails, RevertConfirm, RevertConfirmFails,
       RecordRolledBack
  <2>5. CASE Recovery
    BY <2>5 DEF Recovery, Start, RecordRescue, RecordBoot, RecordBootFails, Serve,
       StillOnTrial, CommitExhausted, CommitExhaustedFails, RevertExhausted
  <2>6. CASE Kill
    BY <2>6 DEF Kill
  <2> QED  BY <1>7, <2>1, <2>2, <2>3, <2>4, <2>5, <2>6 DEF Next, Engine
<1> QED  BY <1>1, <1>2, <1>3, <1>4, <1>5, <1>6, <1>7 DEF vars

\* `current` always names a release directory that is there: no reinstall, prune,
\* revert, failure or kill leaves it dangling.
THEOREM LiveReleaseInstalled == Spec => []CurrentInstalled
<1>1. Init => TypeOK /\ OperationInv /\ CurrentInstalled
  BY InitType, InitOperation, InitInstalled
<1>2. TypeOK /\ OperationInv /\ CurrentInstalled /\ [Next]_vars
      => (TypeOK /\ OperationInv /\ CurrentInstalled)'
  BY NextType, NextOperation, NextInstalled
<1> QED  BY <1>1, <1>2, PTL DEF Spec

-----------------------------------------------------------------------------
(* The trial on disk and what is live. *)

\* What of OperationInv these proofs need.  It leaves room for a live release that is
\* golden where it was the one to fall back to: robot-rescue may have swapped it in.
Grounded == op # NoOp =>
  /\ daemon \in {"recovering", "serving"}
  /\ op.kind = "recover" => op.stage \in {"reverting", "reverted", "undone"}
  /\ op.stage \in {"staging", "removed", "ready"} =>
       current[op.comp] \in {op.from, Golden[op.comp]}
  /\ op.stage \in {"armed", "swapped", "gating", "confirming"} => OnRecord
  /\ op.stage = "reverting" => IF op.kind = "recover" THEN Recoverable ELSE OnRecord

LEMMA OperationGrounded == OperationInv => Grounded
  BY DEF OperationInv, Grounded

LEMMA InitTrials == Init => TrialNamesLive
  BY DEF Init, TrialNamesLive

LEMMA DisarmKeepsTrials ==
  ASSUME TypeOK, TrialNamesLive, NEW c, UNCHANGED current,
         pending' = Disarmed(c) \/ UNCHANGED pending
  PROVE  TrialNamesLive'
  BY DEF TypeOK, TrialNamesLive, Disarmed

LEMMA CountingKeepsTrials ==
  ASSUME TypeOK, TrialNamesLive, UNCHANGED current, pending' = Counted
  PROVE  TrialNamesLive'
<1>1. ASSUME NEW c \in Components
      PROVE  pending'[c] # NoTrial =>
               /\ pending[c] # NoTrial
               /\ pending'[c].version = pending[c].version
               /\ pending'[c].previous = pending[c].previous
  BY <1>1 DEF Counted, TypeOK, Trials, NoTrial
<1> QED  BY <1>1 DEF TrialNamesLive

LEMMA ArmingKeepsTrials ==
  ASSUME TypeOK, Grounded, TrialNamesLive, At("ready"), UNCHANGED current,
         pending' = Armed(op.comp) \/ UNCHANGED pending
  PROVE  TrialNamesLive'
<1>1. op.comp \in Components /\ current[op.comp] \in {op.from, Golden[op.comp]}
  BY AtType DEF At, Grounded
<1>2. CASE pending' = Armed(op.comp)
  BY <1>1, <1>2 DEF Armed, TypeOK, TrialNamesLive
<1> QED  BY <1>2 DEF TrialNamesLive

LEMMA NextTrials ==
  TypeOK /\ Grounded /\ TrialNamesLive /\ [Next]_vars => TrialNamesLive'
<1> SUFFICES ASSUME TypeOK, Grounded, TrialNamesLive, [Next]_vars
             PROVE  TrialNamesLive'
  OBVIOUS
<1> USE DEF disk, bound
<1>1. CASE UNCHANGED <<current, pending>>
  BY <1>1 DEF TrialNamesLive
<1>2. CASE Client \/ Install \/ Kill
  BY <1>1, <1>2 DEF Client, AskApply, AskSelect, AskRollback, AskGolden, Ask, Kill,
     Install, Refuse, AdmitCandidate, RemoveOldDir, Publish, PublishFails
<1>3. CASE Trial
  <2>1. CASE Arm \/ ArmFails
    BY <2>1, ArmingKeepsTrials DEF Arm, ArmFails
  <2>2. CASE Swap
    <3>1. op.comp \in Components /\ OnRecord
      BY <2>2, AtType DEF Swap, At, Grounded
    <3> QED  BY <2>2, <3>1 DEF Swap, Linked, OnRecord, TypeOK, TrialNamesLive
  <2>3. CASE SwapFails \/ SyncFails \/ ActivateFails \/ Confirm \/ ConfirmFails
    BY <2>3, DisarmKeepsTrials DEF SwapFails, SyncFails, AbandonSwap, ActivateFails,
       DisarmBestEffort, Confirm, ConfirmFails
  <2>4. CASE Activate \/ GatePasses \/ GateFails \/ Prune \/ RecordApplied
    BY <1>1, <2>4 DEF Activate, GatePasses, GateFails, Prune, RecordApplied
  <2> QED  BY <1>3, <2>1, <2>2, <2>3, <2>4 DEF Trial
<1>4. CASE RollbackTo
  <2>1. CASE Revert
    <3>1. op.comp \in Components /\ op.from \in Versions
      BY <2>1, AtType DEF Revert, TypeOK
    <3>2. pending[op.comp] # NoTrial =>
            op.from \in {pending[op.comp].previous, Golden[op.comp]}
      BY <2>1, <3>1, Constants DEF Revert, At, Grounded, OnRecord, Recoverable,
         ConstantFacts
    <3> QED  BY <2>1, <3>1, <3>2 DEF Revert, Linked, TypeOK, TrialNamesLive
  <2>2. CASE Stuck \/ RevertFails \/ RevertConfirm \/ RevertConfirmFails
    BY <2>2, DisarmKeepsTrials DEF Stuck, RevertFails, RevertConfirm, RevertConfirmFails
  <2>3. CASE RecordRolledBack
    BY <1>1, <2>3 DEF RecordRolledBack
  <2> QED  BY <1>4, <2>1, <2>2, <2>3 DEF RollbackTo
<1>5. CASE Recovery
  <2>1. CASE Start \/ Serve
    BY <1>1, <2>1 DEF Start, Serve
  <2>2. CASE RecordRescue
    BY <2>2, DisarmKeepsTrials DEF RecordRescue
  <2>3. CASE RecordBoot \/ RecordBootFails
    BY <1>1, <2>3, CountingKeepsTrials DEF RecordBoot, RecordBootFails
  <2>4. ASSUME NEW c \in Components, CommitExhausted(c) \/ CommitExhaustedFails(c)
        PROVE  TrialNamesLive'
    BY <2>4, DisarmKeepsTrials DEF CommitExhausted, CommitExhaustedFails
  <2>5. ASSUME NEW c \in Components, StillOnTrial(c) \/ RevertExhausted(c)
        PROVE  TrialNamesLive'
    BY <1>1, <2>5 DEF StillOnTrial, RevertExhausted
  <2> QED  BY <1>5, <2>1, <2>2, <2>3, <2>4, <2>5 DEF Recovery
<1>6. CASE UNCHANGED vars
  BY <1>1, <1>6 DEF vars
<1> QED  BY <1>2, <1>3, <1>4, <1>5, <1>6 DEF Next, Engine

\* An armed trial is always about what is live, so a boot that reverts it reverts
\* the update that is there.
THEOREM TrialsAreLive == Spec => []TrialNamesLive
<1>1. Init => TypeOK /\ OperationInv /\ TrialNamesLive
  BY InitType, InitOperation, InitTrials
<1>2. TypeOK /\ OperationInv /\ TrialNamesLive /\ [Next]_vars
      => (TypeOK /\ OperationInv /\ TrialNamesLive)'
  BY NextType, NextOperation, OperationGrounded, NextTrials
<1> QED  BY <1>1, <1>2, PTL DEF Spec

-----------------------------------------------------------------------------
(* Golden. *)

LEMMA StepKeepsGolden ==
  ASSUME TypeOK, [Next]_vars, NEW c \in Components,
         Golden[c] \in installed[c], Golden[c] \notin installed'[c]
  PROVE  op.comp = c /\ op.to = Golden[c] /\ At("staging")
<1> USE DEF disk, bound
<1>1. installed'[c] # installed[c]
  OBVIOUS
<1>2. CASE RemoveOldDir
  BY <1>2 DEF RemoveOldDir, TypeOK
<1>3. CASE Publish
  BY <1>3 DEF Publish, TypeOK
<1>4. CASE Prune
  <2>1. PICK gone \in SUBSET Doomed(op.comp) :
               installed' = [installed EXCEPT ![op.comp] = @ \ gone]
    BY <1>4 DEF Prune
  <2>2. Golden[op.comp] \notin Doomed(op.comp)
    BY DEF Doomed, Spare
  <2> QED  BY <2>1, <2>2 DEF TypeOK
<1>5. CASE Next /\ ~RemoveOldDir /\ ~Publish /\ ~Prune
  <2>1. UNCHANGED installed
    <3>1. CASE Client \/ Kill
      BY <3>1 DEF Client, AskApply, AskSelect, AskRollback, AskGolden, Ask, Kill
    <3>2. CASE Install
      BY <1>5, <3>2 DEF Install, Refuse, AdmitCandidate, PublishFails
    <3>3. CASE Trial
      BY <1>5, <3>3 DEF Trial, Arm, ArmFails, Swap, SwapFails, SyncFails, AbandonSwap,
         Activate, ActivateFails, GatePasses, GateFails, Confirm, ConfirmFails, RecordApplied
    <3>4. CASE RollbackTo
      BY <3>4 DEF RollbackTo, Stuck, Revert, RevertFails, RevertConfirm,
         RevertConfirmFails, RecordRolledBack
    <3>5. CASE Recovery
      BY <3>5 DEF Recovery, Start, RecordRescue, RecordBoot, RecordBootFails, Serve,
         StillOnTrial, CommitExhausted, CommitExhaustedFails, RevertExhausted
    <3> QED  BY <1>5, <3>1, <3>2, <3>3, <3>4, <3>5 DEF Next, Engine
  <2> QED  BY <1>1, <2>1
<1>6. CASE UNCHANGED vars
  BY <1>1, <1>6 DEF vars
<1> QED  BY <1>2, <1>3, <1>4, <1>5, <1>6

\* Golden is lost only to a reinstall of golden.
THEOREM GoldenSurvives == Spec => GoldenKept
<1>1. TypeOK /\ [Next]_vars =>
        [\A c \in Components :
            Golden[c] \in installed[c] /\ Golden[c] \notin installed'[c]
            => op.comp = c /\ op.to = Golden[c] /\ At("staging")]_vars
  BY StepKeepsGolden
<1> QED  BY <1>1, TypeCorrect, PTL DEF Spec, GoldenKept

-----------------------------------------------------------------------------
(* The engine implements the trial protocol.  The only steps that matter    *)
(* are the arming (Propose), the swap (Switch), the revert (Return) and     *)
(* whatever disarms (Settle); all the others leave `live` and `trial`.      *)

trialOf == [c \in Components |->
              [new |-> pending[c].version, old |-> pending[c].previous]]

LEMMA InitProtocol == Init => Protocol!Init
  BY DEF Init, Protocol!Init, Protocol!Untried, NoTrial

LEMMA TrialIsOnTrial ==
  ASSUME TypeOK, NEW c \in Components
  PROVE  pending[c] # NoTrial <=> Protocol!OnTrial(c)
  BY Constants DEF ConstantFacts, TypeOK, Trials, NoTrial, Protocol!OnTrial, Protocol!Untried

LEMMA DisarmIsSettle ==
  ASSUME TypeOK, NEW c \in Components, UNCHANGED current,
         pending' = Disarmed(c) \/ UNCHANGED pending
  PROVE  [Protocol!Next]_<<current, trialOf>>
<1>1. CASE UNCHANGED pending
  BY <1>1 DEF trialOf
<1>2. CASE pending' = Disarmed(c)
  <2>1. trialOf' = [trialOf EXCEPT ![c] = Protocol!Untried]
    BY <1>2 DEF trialOf, Disarmed, NoTrial, Protocol!Untried, TypeOK
  <2>2. CASE Protocol!OnTrial(c)
    BY <2>1, <2>2 DEF Protocol!Next, Protocol!Settle, trialOf
  <2>3. CASE ~Protocol!OnTrial(c)
    BY <2>1, <2>3 DEF Protocol!OnTrial, trialOf
  <2> QED  BY <2>2, <2>3
<1> QED  BY <1>1, <1>2

\* The one step that says which release was live.
Arms == At("ready") /\ pending' = Armed(op.comp) /\ UNCHANGED current

LEMMA ArmedTrialOf ==
  ASSUME TypeOK, Arms
  PROVE  /\ op.comp \in Components /\ op.to \in Versions /\ op.from \in Versions \cup {None}
         /\ trialOf' = [trialOf EXCEPT ![op.comp] = [new |-> op.to, old |-> op.from]]
<1>1. op.comp \in Components /\ op.to \in Versions /\ op.from \in Versions \cup {None}
  BY AtType DEF Arms
<1> QED  BY <1>1 DEF Arms, trialOf, Armed, TypeOK

LEMMA ArmIsPropose ==
  ASSUME TypeOK, OperationInv, Arms
  PROVE  Protocol!Next
<1>1. op.from = current[op.comp]
  BY DEF Arms, At, OperationInv
<1>2. Protocol!Propose(op.comp, op.to)
  BY <1>1, ArmedTrialOf DEF Arms, Protocol!Propose, trialOf
<1>3. op.comp \in Components /\ op.to \in Versions
  BY ArmedTrialOf
<1> QED  BY <1>2, <1>3 DEF Protocol!Next, Protocol!Propose

LEMMA SwapIsSwitch ==
  ASSUME TypeOK, Grounded, Swap
  PROVE  Protocol!Next
<1>1. op.comp \in Components /\ op.to \in Versions /\ OnRecord
  BY AtType DEF Swap, At, Grounded
<1>2. pending[op.comp] # NoTrial /\ trialOf[op.comp].new = op.to
  BY <1>1, Constants DEF ConstantFacts, OnRecord, NoTrial, trialOf
<1>3. Protocol!Switch(op.comp)
  BY <1>1, <1>2, TrialIsOnTrial DEF Protocol!Switch, Swap, Linked, trialOf
<1> QED  BY <1>1, <1>3 DEF Protocol!Next, Protocol!Switch

LEMMA RevertIsReturn ==
  ASSUME TypeOK, Grounded, Revert
  PROVE  Protocol!Next
<1>1. op.comp \in Components /\ op.to \in Versions /\ op.from \in Versions
  BY AtType DEF Revert, TypeOK
<1>2. /\ pending[op.comp] # NoTrial
      /\ op.from \in {pending[op.comp].previous, Golden[op.comp]}
  BY <1>1, Constants DEF ConstantFacts, Revert, At, Grounded, OnRecord, Recoverable,
     NoTrial
<1>3. Protocol!Return(op.comp)
  BY <1>1, <1>2, TrialIsOnTrial DEF Protocol!Return, Revert, Linked, trialOf
<1> QED  BY <1>1, <1>3 DEF Protocol!Next, Protocol!Return

\* What the operation under the lock is grounded in is enough for every other step.
LEMMA GroundedProtocol ==
  TypeOK /\ Grounded /\ [Next]_vars => Arms \/ [Protocol!Next]_<<current, trialOf>>
<1> SUFFICES ASSUME TypeOK, Grounded, [Next]_vars
             PROVE  Arms \/ [Protocol!Next]_<<current, trialOf>>
  OBVIOUS
<1> USE DEF disk, bound
<1>1. CASE UNCHANGED <<current, pending>>
  BY <1>1 DEF trialOf
<1>2. CASE Client \/ Install \/ Kill
  BY <1>1, <1>2 DEF Client, AskApply, AskSelect, AskRollback, AskGolden, Ask, Kill,
     Install, Refuse, AdmitCandidate, RemoveOldDir, Publish, PublishFails
<1>3. CASE Trial
  <2>1. CASE Arm \/ ArmFails
    BY <1>1, <2>1 DEF Arm, ArmFails, Arms
  <2>2. CASE Swap
    BY <2>2, SwapIsSwitch
  <2>3. CASE SwapFails \/ SyncFails \/ ActivateFails \/ Confirm \/ ConfirmFails
    <3>1. op.comp \in Components
      BY <2>3, AtType DEF SwapFails, SyncFails, ActivateFails, Confirm, ConfirmFails
    <3> QED  BY <2>3, <3>1, DisarmIsSettle DEF SwapFails, SyncFails, AbandonSwap,
                ActivateFails, DisarmBestEffort, Confirm, ConfirmFails
  <2>4. CASE Activate \/ GatePasses \/ GateFails \/ Prune \/ RecordApplied
    BY <1>1, <2>4 DEF Activate, GatePasses, GateFails, Prune, RecordApplied
  <2> QED  BY <1>3, <2>1, <2>2, <2>3, <2>4 DEF Trial
<1>4. CASE RollbackTo
  <2>1. CASE Revert
    BY <2>1, RevertIsReturn
  <2>2. CASE Stuck \/ RevertFails \/ RevertConfirm \/ RevertConfirmFails
    <3>1. op.comp \in Components
      BY <2>2, AtType DEF Stuck, RevertFails, RevertConfirm, RevertConfirmFails
    <3> QED  BY <2>2, <3>1, DisarmIsSettle DEF Stuck, RevertFails, RevertConfirm,
                RevertConfirmFails
  <2>3. CASE RecordRolledBack
    BY <1>1, <2>3 DEF RecordRolledBack
  <2> QED  BY <1>4, <2>1, <2>2, <2>3 DEF RollbackTo
<1>5. CASE Recovery
  <2>1. CASE Start \/ Serve
    BY <1>1, <2>1 DEF Start, Serve
  <2>2. CASE RecordRescue
    <3>1. CASE crumb = NoCrumb
      BY <1>1, <2>2, <3>1 DEF RecordRescue
    <3>2. CASE crumb # NoCrumb
      <4>1. crumb.comp \in Components
        BY <3>2 DEF TypeOK, Crumbs
      <4> QED  BY <2>2, <3>2, <4>1, DisarmIsSettle DEF RecordRescue
    <3> QED  BY <3>1, <3>2
  <2>3. CASE RecordBoot \/ RecordBootFails
    <3>1. pending' = Counted => trialOf' = trialOf
      <4>1. ASSUME NEW c \in Components
            PROVE  /\ Counted[c].version = pending[c].version
                   /\ Counted[c].previous = pending[c].previous
        BY <4>1 DEF Counted, TypeOK, Trials, NoTrial
      <4> QED  BY <4>1 DEF trialOf
    <3> QED  BY <1>1, <2>3, <3>1 DEF RecordBoot, RecordBootFails
  <2>4. ASSUME NEW c \in Components, CommitExhausted(c) \/ CommitExhaustedFails(c)
        PROVE  [Protocol!Next]_<<current, trialOf>>
    BY <2>4, DisarmIsSettle DEF CommitExhausted, CommitExhaustedFails
  <2>5. ASSUME NEW c \in Components, StillOnTrial(c) \/ RevertExhausted(c)
        PROVE  UNCHANGED <<current, pending>>
    BY <2>5 DEF StillOnTrial, RevertExhausted
  <2> QED  BY <1>1, <1>5, <2>1, <2>2, <2>3, <2>4, <2>5 DEF Recovery
<1>6. CASE UNCHANGED vars
  BY <1>1, <1>6 DEF vars
<1> QED  BY <1>2, <1>3, <1>4, <1>5, <1>6 DEF Next, Engine

LEMMA NextProtocol ==
  TypeOK /\ OperationInv /\ [Next]_vars => [Protocol!Next]_<<current, trialOf>>
BY GroundedProtocol, OperationGrounded, ArmIsPropose

\* Whatever fails and whenever updaterd is killed, the link and pending.json follow
\* the trial protocol: the live release changes only under a durable record that
\* names it or the release it replaced, or to golden.
THEOREM EngineImplementsProtocol == Spec => ImplementsProtocol
<1>1. Init => Protocol!Init
  BY InitProtocol
<1>2. TypeOK /\ OperationInv /\ [Next]_vars => [Protocol!Next]_<<current, trialOf>>
  BY NextProtocol
<1> QED  BY <1>1, <1>2, TypeCorrect, OperationAgrees, PTL
            DEF Spec, ImplementsProtocol, Protocol!Spec, trialOf
-----------------------------------------------------------------------------
(* The boot budget, once updaterd serves. *)

\* The way up has dealt with every exhausted trial, or is about to: it is on the list,
\* or being reverted.  Only recovery runs on the way up, and what it falls back to is
\* installed, so that the revert cannot fail for a missing directory.
BeingReverted(c) ==
  op # NoOp /\ op.comp = c /\ op.stage \in {"reverting", "reverted"}
BudgetInv ==
  /\ NoExhaustedTrialServed
  /\ daemon = "recovering" =>
       \A c \in Components : Exhausted(c) => c \in todo \/ BeingReverted(c)
  /\ op # NoOp => (op.kind = "recover" <=> daemon = "recovering")
  /\ op # NoOp /\ op.kind = "recover" => op.from \in installed[op.comp] \cup {None}

LEMMA InitBudget == Init => BudgetInv
  BY DEF Init, BudgetInv, NoExhaustedTrialServed

\* Neither clearing a trial nor arming one spends any boots.
LEMMA WrittenBoots ==
  ASSUME TypeOK, NEW c \in Components, NEW d \in Components
  PROVE  /\ Disarmed(c)[d].boots = IF d = c THEN 0 ELSE pending[d].boots
         /\ Armed(c)[d].boots = IF d = c THEN 0 ELSE pending[d].boots
<1>1. pending \in [Components -> Trials \cup {NoTrial}]
  BY DEF TypeOK
<1>2. Disarmed(c)[d] = IF d = c THEN NoTrial ELSE pending[d]
  BY <1>1 DEF Disarmed
<1>3. Armed(c)[d] = IF d = c THEN [version |-> op.to, previous |-> op.from, boots |-> 0]
                    ELSE pending[d]
  BY <1>1 DEF Armed
<1> QED  BY <1>2, <1>3 DEF NoTrial

LEMMA SparedTrials ==
  ASSUME TypeOK, NEW c \in Components, NEW d \in Components,
         pending' = pending \/ pending' = Disarmed(c),
         pending'[d].boots >= MaxBoots
  PROVE  pending[d].boots >= MaxBoots /\ (pending' = Disarmed(c) => d # c)
<1>1. MaxBoots \in Nat /\ MaxBoots > 0
  BY Constants DEF ConstantFacts
<1>2. CASE pending' = Disarmed(c)
  BY <1>1, <1>2, WrittenBoots
<1> QED  BY <1>2

\* While updaterd serves, an operation of a client leaves every trial its boots.
LEMMA ServingKeepsBudget ==
  ASSUME TypeOK, BudgetInv, daemon = "serving", daemon' = "serving",
         \/ pending' = pending
         \/ op # NoOp /\ pending' \in {Disarmed(op.comp), Armed(op.comp)},
         op' # NoOp => op'.kind # "recover"
  PROVE  BudgetInv'
<1>1. NoExhaustedTrialServed'
  <2> SUFFICES ASSUME NEW d \in Components PROVE pending'[d].boots < MaxBoots
    BY DEF NoExhaustedTrialServed
  <2>1. pending[d].boots < MaxBoots
    BY DEF BudgetInv, NoExhaustedTrialServed
  <2>2. CASE pending' = pending
    BY <2>1, <2>2
  <2>3. CASE op # NoOp /\ pending' \in {Disarmed(op.comp), Armed(op.comp)}
    <3>1. op.comp \in Components /\ MaxBoots > 0
      BY <2>3, OpType, Constants DEF ConstantFacts
    <3>2. pending'[d].boots = IF d = op.comp THEN 0 ELSE pending[d].boots
      BY <2>3, <3>1, WrittenBoots
    <3> QED  BY <2>1, <3>1, <3>2
  <2> QED  BY <2>2, <2>3
<1> QED  BY <1>1 DEF BudgetInv

LEMMA ClientBudget == TypeOK /\ BudgetInv /\ Client => BudgetInv'
<1> SUFFICES ASSUME TypeOK, BudgetInv,
                    NEW c \in Components,
                    NEW kind \in Commands, NEW v, NEW s \in {"checking", "ready"},
                    kind # "recover", Ask(kind), Operation(kind, c, v, current[c], s)
             PROVE  BudgetInv'
  BY DEF Client, AskApply, AskSelect, AskRollback, AskGolden, Ask
<1> QED  BY ServingKeepsBudget DEF Ask, Operation, disk

LEMMA InstallBudget == TypeOK /\ OperationInv /\ BudgetInv /\ Install => BudgetInv'
<1> SUFFICES ASSUME TypeOK, OperationInv, BudgetInv, Install PROVE BudgetInv'
  OBVIOUS
<1> USE DEF disk, bound
<1>1. op # NoOp /\ op \in Ops /\ op.kind # "recover"
  BY AtType DEF Install, Refuse, AdmitCandidate, RemoveOldDir, Publish, PublishFails,
     OperationInv
<1>2. daemon = "serving" /\ daemon' = daemon /\ pending' = pending
  BY <1>1 DEF Install, Refuse, AdmitCandidate, RemoveOldDir, Publish, PublishFails,
     EndOp, OperationInv, BudgetInv
<1>3. op' # NoOp => op'.kind = op.kind
  BY <1>1 DEF Install, Refuse, AdmitCandidate, RemoveOldDir, Publish, PublishFails,
     EndOp, Goto, Ops
<1> QED  BY <1>1, <1>2, <1>3, ServingKeepsBudget

LEMMA TrialBudget == TypeOK /\ OperationInv /\ BudgetInv /\ Trial => BudgetInv'
<1> SUFFICES ASSUME TypeOK, OperationInv, BudgetInv, Trial PROVE BudgetInv'
  OBVIOUS
<1> USE DEF disk, bound
<1>1. op # NoOp /\ op \in Ops /\ op.kind # "recover"
  BY AtType DEF Trial, Arm, ArmFails, Swap, SwapFails, SyncFails, Activate, ActivateFails,
     GatePasses, GateFails, Confirm, ConfirmFails, Prune, RecordApplied, OperationInv
<1>2. daemon = "serving"
  BY <1>1 DEF OperationInv, BudgetInv
<1>3. daemon' = daemon
  BY DEF Trial, Arm, ArmFails, Swap, SwapFails, SyncFails, AbandonSwap, Activate,
     ActivateFails, GatePasses, GateFails, Confirm, ConfirmFails, Prune, RecordApplied,
     EndOp
<1>4. pending' = pending \/ pending' \in {Disarmed(op.comp), Armed(op.comp)}
  BY DEF Trial, Arm, ArmFails, Swap, SwapFails, SyncFails, AbandonSwap, DisarmBestEffort,
     Activate, ActivateFails, GatePasses, GateFails, Confirm, ConfirmFails, Prune,
     RecordApplied
<1>5. op' # NoOp => op'.kind = op.kind
  BY <1>1 DEF Trial, Arm, ArmFails, Swap, SwapFails, SyncFails, AbandonSwap, Activate,
     ActivateFails, GatePasses, GateFails, Confirm, ConfirmFails, Prune, RecordApplied,
     EndOp, Goto, Ops
<1> QED  BY <1>1, <1>2, <1>3, <1>4, <1>5, ServingKeepsBudget

LEMMA RollbackBudget ==
  ASSUME TypeOK, OperationInv, BudgetInv, RollbackTo,
         "swap" \notin Faults, "confirm" \notin Faults
  PROVE  BudgetInv'
<1>1. PICK s \in {"reverting", "reverted", "undone"} : At(s)
  BY DEF RollbackTo, Stuck, Revert, RevertFails, RevertConfirm, RevertConfirmFails,
     RecordRolledBack
<1>2. op # NoOp /\ op \in Ops /\ op.comp \in Components /\ op.stage = s
      /\ op.from \in Versions \cup {None}
  BY <1>1, AtType
<1>3. pending' = pending \/ pending' = Disarmed(op.comp)
  BY DEF RollbackTo, Stuck, Revert, RevertFails, RevertConfirm, RevertConfirmFails,
     RecordRolledBack
<1>4. CASE op.kind # "recover"
  <2>1. daemon = "serving"
    BY <1>2, <1>4 DEF OperationInv, BudgetInv
  <2>2. daemon' = daemon
    BY <1>4 DEF RollbackTo, Stuck, Revert, RevertFails, RevertConfirm,
       RevertConfirmFails, RecordRolledBack, EndOp, RevertError
  <2>3. op' # NoOp => op'.kind = op.kind
    BY <1>2 DEF RollbackTo, Stuck, Revert, RevertFails, RevertConfirm,
       RevertConfirmFails, RecordRolledBack, EndOp, RevertError, Goto, Ops
  <2> QED  BY <1>2, <1>3, <1>4, <2>1, <2>2, <2>3, ServingKeepsBudget
<1>5. CASE op.kind = "recover"
  <2>1. daemon = "recovering" /\ op.from \in installed[op.comp] \cup {None}
    BY <1>2, <1>5 DEF BudgetInv
  <2>2. ~RevertFails /\ ~RevertConfirmFails
    BY <2>1 DEF RevertFails, RevertConfirmFails, MayFail
  <2>3. UNCHANGED <<daemon, todo, installed>>
    BY <2>2 DEF RollbackTo, Stuck, Revert, RevertConfirm, RecordRolledBack, EndOp
  <2>4. op' # NoOp => op'.kind = op.kind /\ op'.comp = op.comp /\ op'.from = op.from
    BY <1>2, <2>2 DEF RollbackTo, Stuck, Revert, RevertConfirm, RecordRolledBack, EndOp,
       Goto, Ops
  <2>5. BeingReverted(op.comp) =>
          pending' = Disarmed(op.comp) \/ (op' # NoOp /\ op'.comp = op.comp
                                           /\ op'.stage \in {"reverting", "reverted"})
    <3>1. CASE Stuck \/ RevertConfirm
      BY <3>1 DEF Stuck, RevertConfirm
    <3>2. CASE Revert
      <4>1. op'.stage = "reverted" /\ op'.comp = op.comp
        BY <3>2, GotoKeeps DEF Revert
      <4> QED  BY <4>1 DEF NoOp
    <3>3. CASE RecordRolledBack
      BY <3>3 DEF RecordRolledBack, BeingReverted, At
    <3> QED  BY <2>2, <3>1, <3>2, <3>3 DEF RollbackTo
  <2>6. ASSUME NEW d \in Components, Exhausted(d)'
        PROVE  d \in todo' \/ BeingReverted(d)'
    <3>1. Exhausted(d) /\ (pending' = Disarmed(op.comp) => d # op.comp)
      BY <1>2, <1>3, <2>6, SparedTrials DEF Exhausted
    <3>2. d \in todo \/ BeingReverted(d)
      BY <2>1, <3>1 DEF BudgetInv
    <3>3. BeingReverted(d) => d = op.comp /\ BeingReverted(op.comp)
      BY DEF BeingReverted
    <3> QED  BY <2>3, <2>5, <3>1, <3>2, <3>3 DEF BeingReverted
  <2> QED  BY <1>5, <2>1, <2>3, <2>4, <2>6 DEF BudgetInv, NoExhaustedTrialServed
<1> QED  BY <1>4, <1>5

LEMMA RecoveryBudget ==
  ASSUME TypeOK, OperationInv, BudgetInv, Recovery,
         "boots" \notin Faults, "confirm" \notin Faults
  PROVE  BudgetInv'
<1> USE DEF disk, bound
<1>1. CASE Start \/ RecordRescue
  <2>1. op = NoOp /\ op' = op /\ daemon' \in {"starting", "counting"}
    BY <1>1 DEF Start, RecordRescue, OperationInv
  <2> QED  BY <2>1 DEF BudgetInv, NoExhaustedTrialServed
<1>2. CASE RecordBoot \/ RecordBootFails
  <2>1. RecordBoot
    BY <1>2 DEF RecordBootFails, MayFail
  <2>2. op = NoOp /\ op' = op /\ daemon' = "recovering"
    BY <2>1 DEF RecordBoot, OperationInv
  <2>3. ASSUME NEW d \in Components, Exhausted(d)' PROVE d \in todo'
    BY <2>1, <2>3, Constants DEF RecordBoot, Counted, Exhausted, ConstantFacts, NoTrial
  <2> QED  BY <2>2, <2>3 DEF BudgetInv, NoExhaustedTrialServed
<1>3. CASE Serve
  <2>1. ASSUME NEW d \in Components PROVE pending[d].boots < MaxBoots
    <3>1. ~Exhausted(d)
      BY <1>3 DEF Serve, BudgetInv, BeingReverted
    <3>2. pending[d].boots \in Nat
      BY DEF TypeOK, Trials, NoTrial
    <3> QED  BY <3>1, <3>2, Constants DEF Exhausted, ConstantFacts
  <2> QED  BY <1>3, <2>1 DEF Serve, BudgetInv, NoExhaustedTrialServed
<1>4. ASSUME NEW c \in Components,
             StillOnTrial(c) \/ CommitExhausted(c) \/ CommitExhaustedFails(c)
      PROVE  BudgetInv'
  <2>1. /\ daemon = "recovering" /\ daemon' = daemon /\ op = NoOp /\ op' = op
        /\ todo' = todo \ {c}
        /\ (~Exhausted(c) /\ pending' = pending) \/ pending' = Disarmed(c)
    BY <1>4 DEF StillOnTrial, CommitExhausted, CommitExhaustedFails, MayFail, NextTrial
  <2>2. ASSUME NEW d \in Components, Exhausted(d)' PROVE d \in todo'
    <3>1. Exhausted(d) /\ (pending' = Disarmed(c) => d # c)
      BY <2>1, <2>2, SparedTrials DEF Exhausted
    <3>2. d # c
      BY <2>1, <3>1
    <3> QED  BY <2>1, <3>1, <3>2 DEF BudgetInv, BeingReverted
  <2> QED  BY <2>1, <2>2 DEF BudgetInv, NoExhaustedTrialServed
<1>5. ASSUME NEW c \in Components, RevertExhausted(c) PROVE BudgetInv'
  <2>1. /\ daemon = "recovering" /\ daemon' = daemon /\ op = NoOp
        /\ todo' = todo \ {c} /\ pending' = pending /\ installed' = installed
        /\ op' # NoOp /\ op'.kind = "recover" /\ op'.comp = c /\ op'.stage = "reverting"
        /\ op'.from = RecoveryTarget(c)
    BY <1>5 DEF RevertExhausted, NextTrial, Operation, NoOp
  <2>2. RecoveryTarget(c) \in installed[c] \cup {None}
    BY DEF RecoveryTarget
  <2>3. ASSUME NEW d \in Components, Exhausted(d)'
        PROVE  d \in todo' \/ BeingReverted(d)'
    BY <2>1, <2>3 DEF Exhausted, BudgetInv, BeingReverted
  <2> QED  BY <2>1, <2>2, <2>3 DEF BudgetInv, NoExhaustedTrialServed
<1> QED  BY <1>1, <1>2, <1>3, <1>4, <1>5 DEF Recovery

\* No component is served with its boot budget spent: every exhausted trial, whichever
\* the components and however many, is committed or reverted on the way up, if neither
\* the swap, the confirm nor the count of boots fails.  Where one may, recover_on_start
\* stops at its first error and updaterd serves the others' trials as they are.
THEOREM BudgetsAreSettled ==
  ASSUME Faults \cap {"swap", "confirm", "boots"} = {}
  PROVE  Spec => []NoExhaustedTrialServed
<1>1. TypeOK /\ OperationInv /\ BudgetInv /\ [Next]_vars => BudgetInv'
  <2> SUFFICES ASSUME TypeOK, OperationInv, BudgetInv, [Next]_vars PROVE BudgetInv'
    OBVIOUS
  <2>1. CASE Kill
    BY <2>1 DEF Kill, BudgetInv, NoExhaustedTrialServed
  <2>2. CASE UNCHANGED vars
    BY <2>2 DEF vars, disk, BudgetInv, NoExhaustedTrialServed, Exhausted, BeingReverted
  <2> QED  BY <2>1, <2>2, ClientBudget, InstallBudget, TrialBudget, RollbackBudget,
              RecoveryBudget DEF Next, Engine
<1>2. BudgetInv => NoExhaustedTrialServed
  BY DEF BudgetInv
<1> QED  BY <1>1, <1>2, InitBudget, TypeCorrect, OperationAgrees, PTL DEF Spec
-----------------------------------------------------------------------------
(* The verdict with which a trial ends. *)

\* A trial moves its component from one release to another, or to golden, which is
\* what a trial may be reverted to even where it is what was tried.  An apply that got
\* as far as the confirm or the revert has its verdict; a recovery has one on the
\* release that is live, or has made golden live.
Moves(c, to, from) == to # from \/ to = Golden[c]
TrialsMove ==
  \A c \in Components : pending[c] # NoTrial =>
    Moves(c, pending[c].version, pending[c].previous)
OperationMoves ==
  op # NoOp /\ op.stage \in {"staging", "removed", "ready"} => Moves(op.comp, op.to, op.from)
ApplyJudged ==
  op # NoOp /\ Applying /\ op.stage \in {"confirming", "reverting", "reverted"} =>
    /\ pending[op.comp].version = op.to
    /\ trialled[op.comp][op.to] # "untried"
RecoveryJudged ==
  op # NoOp /\ op.kind = "recover" /\ op.stage \in {"reverting", "reverted"} =>
    /\ pending[op.comp].version = op.to
    /\ \/ current[op.comp] # op.to
       \/ trialled[op.comp][op.to] # "untried"
       \/ op.stage = "reverted" /\ op.from = Golden[op.comp]
VerdictInv ==
  crumb = NoCrumb /\ TrialsMove /\ OperationMoves /\ ApplyJudged /\ RecoveryJudged

LEMMA InitVerdict == Init => VerdictInv
  BY DEF Init, VerdictInv, TrialsMove, OperationMoves, ApplyJudged, RecoveryJudged

LEMMA CrumbStays == crumb = NoCrumb /\ [Next]_vars => crumb' = NoCrumb
<1> SUFFICES ASSUME crumb = NoCrumb, [Next]_vars PROVE crumb' = NoCrumb
  OBVIOUS
<1> USE DEF disk
<1>1. CASE Client
  BY <1>1 DEF Client, AskApply, AskSelect, AskRollback, AskGolden, Ask
<1>2. CASE Install
  BY <1>2 DEF Install, Refuse, AdmitCandidate, RemoveOldDir, Publish, PublishFails
<1>3. CASE Trial
  BY <1>3 DEF Trial, Arm, ArmFails, Swap, SwapFails, SyncFails, AbandonSwap, Activate,
     ActivateFails, GatePasses, GateFails, Confirm, ConfirmFails, Prune, RecordApplied
<1>4. CASE RollbackTo
  BY <1>4 DEF RollbackTo, Stuck, Revert, RevertFails, RevertConfirm, RevertConfirmFails,
     RecordRolledBack
<1>5. CASE Recovery
  BY <1>5 DEF Recovery, Start, RecordRescue, RecordBoot, RecordBootFails, Serve,
     StillOnTrial, CommitExhausted, CommitExhaustedFails, RevertExhausted
<1>6. CASE Kill \/ UNCHANGED vars
  BY <1>6 DEF Kill, vars
<1> QED  BY <1>1, <1>2, <1>3, <1>4, <1>5, <1>6 DEF Next, Engine

\* The four things a step does to pending.json.
TrialsChange ==
  \/ pending' = pending
  \/ \E c \in Components : pending' = Disarmed(c)
  \/ At("ready") /\ pending' = Armed(op.comp)
  \/ pending' = Counted

LEMMA NextChange == TypeOK /\ crumb = NoCrumb /\ [Next]_vars => TrialsChange
<1> SUFFICES ASSUME TypeOK, crumb = NoCrumb, [Next]_vars PROVE TrialsChange
  OBVIOUS
<1> USE DEF disk
<1>1. CASE Client \/ Install
  BY <1>1 DEF Client, AskApply, AskSelect, AskRollback, AskGolden, Ask,
     Install, Refuse, AdmitCandidate, RemoveOldDir, Publish, PublishFails, TrialsChange
<1>2. CASE Trial
  <2>1. op # NoOp => op.comp \in Components
    BY OpType
  <2>2. CASE Arm \/ ArmFails
    BY <2>2 DEF Arm, ArmFails, TrialsChange
  <2>3. CASE ~Arm /\ ~ArmFails
    <3>1. op # NoOp
      BY <1>2, <2>3 DEF Trial, Swap, SwapFails, SyncFails, Activate, ActivateFails,
         GatePasses, GateFails, Confirm, ConfirmFails, Prune, RecordApplied, At
    <3>2. pending' = pending \/ pending' = Disarmed(op.comp)
      BY <1>2, <2>3 DEF Trial, Swap, SwapFails, SyncFails, AbandonSwap, DisarmBestEffort,
         Activate, ActivateFails, GatePasses, GateFails, Confirm, ConfirmFails, Prune,
         RecordApplied
    <3> QED  BY <2>1, <3>1, <3>2 DEF TrialsChange
  <2> QED  BY <2>2, <2>3
<1>3. CASE RollbackTo
  <2>1. op # NoOp
    BY <1>3 DEF RollbackTo, Stuck, Revert, RevertFails, RevertConfirm, RevertConfirmFails,
       RecordRolledBack, At
  <2>2. pending' = pending \/ pending' = Disarmed(op.comp)
    BY <1>3 DEF RollbackTo, Stuck, Revert, RevertFails, RevertConfirm, RevertConfirmFails,
       RecordRolledBack
  <2> QED  BY <2>1, <2>2, OpType DEF TrialsChange
<1>4. CASE Recovery
  BY <1>4 DEF Recovery, Start, RecordRescue, RecordBoot, RecordBootFails, Serve,
     StillOnTrial, CommitExhausted, CommitExhaustedFails, RevertExhausted, TrialsChange
<1>5. CASE Kill \/ UNCHANGED vars
  BY <1>5 DEF Kill, vars, TrialsChange
<1> QED  BY <1>1, <1>2, <1>3, <1>4, <1>5 DEF Next, Engine

LEMMA CountedTrial ==
  ASSUME TypeOK, NEW c \in Components
  PROVE  /\ Counted[c] = NoTrial <=> pending[c] = NoTrial
         /\ Counted[c].version = pending[c].version
         /\ Counted[c].previous = pending[c].previous
<1>1. CASE pending[c] = NoTrial
  BY <1>1 DEF Counted
<1>2. CASE pending[c] # NoTrial
  <2>1. pending[c] \in Trials
    BY <1>2 DEF TypeOK
  <2>2. pending[c].version # None
    BY <2>1, Constants DEF ConstantFacts, Trials
  <2>3. Counted[c] = [pending[c] EXCEPT !.boots = Capped(@ + 1)]
    BY <1>2 DEF Counted
  <2>4. Counted[c].version = pending[c].version /\ Counted[c].previous = pending[c].previous
    BY <2>1, <2>3 DEF Trials
  <2> QED  BY <1>2, <2>2, <2>4 DEF NoTrial
<1> QED  BY <1>1, <1>2

LEMMA ArmedTrial ==
  ASSUME TypeOK, At("ready"), NEW c \in Components
  PROVE  /\ c = op.comp => /\ Armed(op.comp)[c] # NoTrial
                           /\ Armed(op.comp)[c].version = op.to
                           /\ Armed(op.comp)[c].previous = op.from
         /\ c # op.comp => Armed(op.comp)[c] = pending[c]
<1>1. op.comp \in Components /\ op.to # None
  BY AtType, Constants DEF ConstantFacts
<1> QED  BY <1>1 DEF Armed, TypeOK, NoTrial

LEMMA DisarmedTrial ==
  ASSUME TypeOK, NEW c \in Components, NEW d \in Components
  PROVE  Disarmed(c)[d] = IF d = c THEN NoTrial ELSE pending[d]
  BY DEF TypeOK, Disarmed

LEMMA MovesStep ==
  ASSUME TypeOK, TrialsMove, OperationMoves, TrialsChange
  PROVE  TrialsMove'
<1> SUFFICES ASSUME NEW d \in Components, pending'[d] # NoTrial
             PROVE  Moves(d, pending'[d].version, pending'[d].previous)
  BY DEF TrialsMove, Moves
<1>1. CASE pending' = pending
  BY <1>1 DEF TrialsMove
<1>2. ASSUME NEW c \in Components, pending' = Disarmed(c)
      PROVE  Moves(d, pending'[d].version, pending'[d].previous)
  BY <1>2, DisarmedTrial DEF TrialsMove
<1>3. CASE At("ready") /\ pending' = Armed(op.comp)
  <2>1. Moves(op.comp, op.to, op.from)
    BY <1>3 DEF OperationMoves, At
  <2> QED  BY <1>3, <2>1, ArmedTrial DEF TrialsMove
<1>4. CASE pending' = Counted
  BY <1>4, CountedTrial DEF TrialsMove
<1> QED  BY <1>1, <1>2, <1>3, <1>4 DEF TrialsChange

LEMMA OperationMovesStep ==
  ASSUME TypeOK, OperationInv, OperationMoves, [Next]_vars
  PROVE  OperationMoves'
<1> USE DEF disk
<1>1. CASE op' = op
  BY <1>1 DEF OperationMoves, Moves
<1>2. CASE op' = NoOp
  BY <1>2 DEF OperationMoves
<1>3. CASE Client
  <2>1. ASSUME NEW c \in Components, NEW v, AskApply(c, v) PROVE OperationMoves'
    BY <2>1 DEF AskApply, Operation, OperationMoves
  <2>2. ASSUME NEW c \in Components, NEW v \in Versions, AskSelect(c, v)
        PROVE  OperationMoves'
    BY <2>2 DEF AskSelect, Operation, OperationMoves, Moves
  <2>3. ASSUME NEW c \in Components, AskRollback(c) PROVE OperationMoves'
    <3>1. PICK v \in RollbackTargets(c) :
                 Operation("rollback", c, v, current[c], "ready")
      BY <2>3 DEF AskRollback
    <3>2. v \in Versions /\ (current[c] # None => v < current[c])
      BY <3>1 DEF RollbackTargets, RollbackCandidates, TypeOK
    <3>3. v # current[c]
      BY <3>2, VersionsAssumption DEF None
    <3> QED  BY <3>1, <3>3 DEF Operation, OperationMoves, Moves
  <2>4. ASSUME NEW c \in Components, AskGolden(c) PROVE OperationMoves'
    BY <2>4 DEF AskGolden, Operation, OperationMoves, Moves
  <2> QED  BY <1>3, <2>1, <2>2, <2>3, <2>4 DEF Client
<1>4. CASE AdmitCandidate
  <2>1. op # NoOp /\ op.stage = "checking" /\ op \in Ops /\ op.to # op.from
    BY <1>4, AtType DEF AdmitCandidate
  <2>2. op.from = current[op.comp]
    BY <2>1 DEF OperationInv
  <2>3. op'.to = op.to /\ op'.comp = op.comp /\ op'.from = current[op.comp]
    BY <1>4, <2>1 DEF AdmitCandidate, Ops
  <2> QED  BY <2>1, <2>2, <2>3 DEF OperationMoves, Moves
<1>5. CASE RemoveOldDir \/ Publish
  <2>1. /\ op # NoOp /\ op.stage \in {"staging", "removed"}
        /\ op'.to = op.to /\ op'.comp = op.comp /\ op'.from = op.from
    BY <1>5, GotoKeeps DEF RemoveOldDir, Publish
  <2> QED  BY <2>1 DEF OperationMoves, Moves
<1>6. ASSUME NEW s, At(s),
             NEW t \in {"armed", "swapped", "gating", "confirming", "pruning", "committed",
                        "reverting", "reverted", "undone"}, Goto(t)
      PROVE  OperationMoves'
  BY <1>6, GotoKeeps DEF OperationMoves
<1>7. ASSUME NEW c \in Components, RevertExhausted(c) PROVE OperationMoves'
  BY <1>7 DEF RevertExhausted, Operation, OperationMoves
<1>8. CASE Install
  BY <1>1, <1>2, <1>4, <1>5, <1>8 DEF Install, Refuse, PublishFails, EndOp
<1>9. CASE Trial
  <2>1. CASE Arm
    BY <1>6, <2>1 DEF Arm
  <2>2. CASE Swap
    BY <1>6, <2>2 DEF Swap
  <2>3. CASE Activate
    BY <1>6, <2>3 DEF Activate
  <2>4. CASE ActivateFails
    BY <1>2, <1>6, <2>4 DEF ActivateFails, EndOp
  <2>5. CASE GatePasses \/ GateFails
    BY <1>6, <2>5 DEF GatePasses, GateFails
  <2>6. CASE Confirm
    BY <1>6, <2>6 DEF Confirm
  <2>7. CASE Prune
    BY <1>6, <2>7 DEF Prune
  <2>8. CASE ArmFails \/ SwapFails \/ SyncFails \/ ConfirmFails \/ RecordApplied
    BY <1>2, <2>8 DEF ArmFails, SwapFails, SyncFails, AbandonSwap, ConfirmFails,
       RecordApplied, EndOp
  <2> QED  BY <1>9, <2>1, <2>2, <2>3, <2>4, <2>5, <2>6, <2>7, <2>8 DEF Trial
<1>10. CASE RollbackTo
  <2>1. CASE Revert \/ RevertConfirm
    BY <1>6, <2>1 DEF Revert, RevertConfirm
  <2>2. CASE Stuck \/ RevertFails \/ RevertConfirmFails \/ RecordRolledBack
    BY <1>2, <2>2 DEF Stuck, RevertFails, RevertConfirmFails, RecordRolledBack, EndOp,
       RevertError
  <2> QED  BY <1>10, <2>1, <2>2 DEF RollbackTo
<1>11. CASE Recovery
  BY <1>1, <1>7, <1>11 DEF Recovery, Start, RecordRescue, RecordBoot, RecordBootFails,
     Serve, StillOnTrial, CommitExhausted, CommitExhaustedFails
<1>12. CASE Kill \/ UNCHANGED vars
  BY <1>1, <1>2, <1>12 DEF Kill, vars
<1> QED  BY <1>3, <1>8, <1>9, <1>10, <1>11, <1>12 DEF Next, Engine
LEMMA TriedValue ==
  ASSUME TypeOK, op \in Ops, NEW o
  PROVE  Tried(op.comp, op.to, o)[op.comp][op.to] = o
  BY DEF Tried, Ops, TypeOK

\* An operation that is not in the middle of a confirm or a revert needs no verdict yet.
LEMMA Unjudged ==
  ASSUME op' # NoOp => op'.stage \notin {"confirming", "reverting", "reverted"}
  PROVE  ApplyJudged' /\ RecoveryJudged'
  BY DEF ApplyJudged, RecoveryJudged, Applying

LEMMA TrialJudged ==
  ASSUME TypeOK, OperationInv, Trial
  PROVE  ApplyJudged' /\ RecoveryJudged'
<1> USE DEF disk, bound
<1>1. CASE Arm \/ Swap \/ Activate \/ Confirm \/ Prune
  <2>1. op'.stage \in {"armed", "swapped", "gating", "pruning", "committed"}
    BY <1>1, GotoKeeps DEF Arm, Swap, Activate, Confirm, Prune
  <2> QED  BY <2>1, Unjudged
<1>2. CASE ArmFails \/ SwapFails \/ SyncFails \/ ConfirmFails \/ RecordApplied
  BY <1>2, Unjudged DEF ArmFails, SwapFails, SyncFails, AbandonSwap, ConfirmFails,
     RecordApplied, EndOp
<1>3. CASE ActivateFails
  <2>1. CASE Applying
    <3>1. /\ op # NoOp /\ op \in Ops /\ op.stage = "swapped" /\ op'.stage = "reverting"
          /\ op'.kind = op.kind /\ op'.comp = op.comp /\ op'.to = op.to
      BY <1>3, <2>1, GotoKeeps, AtType DEF ActivateFails
    <3>2. trialled'[op.comp][op.to] = "failed"
      BY <1>3, <2>1, <3>1, TriedValue DEF ActivateFails
    <3>3. pending'[op.comp].version = op.to
      BY <1>3, <2>1, <3>1 DEF ActivateFails, OperationInv, OnRecord
    <3> QED  BY <2>1, <3>1, <3>2, <3>3 DEF ApplyJudged, RecoveryJudged, Applying
  <2>2. CASE ~Applying
    BY <1>3, <2>2, Unjudged DEF ActivateFails, EndOp
  <2> QED  BY <2>1, <2>2
<1>4. CASE GatePasses \/ GateFails
  <2>1. /\ op # NoOp /\ op \in Ops /\ op.stage = "gating"
        /\ op'.kind = op.kind /\ op'.comp = op.comp /\ op'.to = op.to
    BY <1>4, GotoKeeps, AtType DEF GatePasses, GateFails
  <2>2. trialled'[op.comp][op.to] \in {"passed", "failed"}
    BY <1>4, <2>1, TriedValue DEF GatePasses, GateFails
  <2>3. pending'[op.comp].version = op.to
    BY <1>4, <2>1 DEF GatePasses, GateFails, OperationInv, OnRecord
  <2> QED  BY <2>1, <2>2, <2>3 DEF ApplyJudged, RecoveryJudged
<1> QED  BY <1>1, <1>2, <1>3, <1>4 DEF Trial

LEMMA RollbackJudged ==
  ASSUME TypeOK, OperationInv, TrialsMove, ApplyJudged, RecoveryJudged, RollbackTo
  PROVE  ApplyJudged' /\ RecoveryJudged'
<1>1. CASE Stuck \/ RevertFails \/ RevertConfirmFails \/ RecordRolledBack
  BY <1>1, Unjudged DEF Stuck, RevertFails, RevertConfirmFails, RecordRolledBack, EndOp,
     RevertError
<1>2. CASE RevertConfirm
  <2>1. op'.stage = "undone"
    BY <1>2, GotoKeeps DEF RevertConfirm
  <2> QED  BY <2>1, Unjudged
<1>3. CASE Revert
  <2>1. /\ op # NoOp /\ op \in Ops /\ op.stage = "reverting" /\ op'.stage = "reverted"
        /\ op'.kind = op.kind /\ op'.comp = op.comp /\ op'.to = op.to /\ op'.from = op.from
    BY <1>3, GotoKeeps, AtType DEF Revert
  <2>2. op.comp \in Components /\ op.from \in Versions
    BY <1>3, <2>1 DEF Revert, TypeOK, Ops
  <2>3. current'[op.comp] = op.from /\ pending' = pending /\ trialled' = trialled
    BY <1>3, <2>2 DEF Revert, Linked, TypeOK
  <2>4. ASSUME op.kind = "recover", op.from = op.to PROVE op.from = Golden[op.comp]
    <3>1. pending[op.comp].version = op.to
      BY <2>1, <2>4 DEF RecoveryJudged
    <3>2. pending[op.comp] # NoTrial /\ op.from \in {pending[op.comp].previous, Golden[op.comp]}
      BY <2>1, <2>2, <2>4, Constants DEF OperationInv, Recoverable, ConstantFacts
    <3> QED  BY <2>2, <2>4, <3>1, <3>2 DEF TrialsMove, Moves
  <2>5. ApplyJudged'
    BY <2>1, <2>3 DEF ApplyJudged, Applying
  <2>6. RecoveryJudged'
    BY <2>1, <2>3, <2>4 DEF RecoveryJudged
  <2> QED  BY <2>5, <2>6
<1> QED  BY <1>1, <1>2, <1>3 DEF RollbackTo

LEMMA NextJudged ==
  ASSUME TypeOK, OperationInv, TrialsMove, ApplyJudged, RecoveryJudged, [Next]_vars
  PROVE  ApplyJudged' /\ RecoveryJudged'
<1> USE DEF disk, bound
<1>1. CASE Client
  <2>1. op'.stage \in {"checking", "ready"}
    BY <1>1 DEF Client, AskApply, AskSelect, AskRollback, AskGolden, Operation
  <2> QED  BY <2>1, Unjudged
<1>2. CASE Install
  <2>1. CASE Refuse \/ PublishFails
    BY <2>1, Unjudged DEF Refuse, PublishFails, EndOp
  <2>2. CASE AdmitCandidate
    <3>1. op \in Ops
      BY <2>2, AtType DEF AdmitCandidate
    <3>2. op'.stage = "staging"
      BY <2>2, <3>1 DEF AdmitCandidate, Ops
    <3> QED  BY <3>2, Unjudged
  <2>3. CASE RemoveOldDir \/ Publish
    <3>1. op'.stage \in {"removed", "ready"}
      BY <2>3, GotoKeeps DEF RemoveOldDir, Publish
    <3> QED  BY <3>1, Unjudged
  <2> QED  BY <1>2, <2>1, <2>2, <2>3 DEF Install
<1>3. CASE Recovery
  <2>1. CASE Start \/ RecordRescue \/ RecordBoot \/ RecordBootFails \/ Serve
    <3>1. op' = NoOp
      BY <2>1 DEF Start, RecordRescue, RecordBoot, RecordBootFails, Serve, OperationInv
    <3> QED  BY <3>1, Unjudged
  <2>2. ASSUME NEW c \in Components,
               StillOnTrial(c) \/ CommitExhausted(c) \/ CommitExhaustedFails(c)
        PROVE  ApplyJudged' /\ RecoveryJudged'
    BY <2>2, Unjudged DEF StillOnTrial, CommitExhausted, CommitExhaustedFails, NextTrial
  <2>3. ASSUME NEW c \in Components, RevertExhausted(c)
        PROVE  ApplyJudged' /\ RecoveryJudged'
    <3>1. /\ op'.kind = "recover" /\ op'.comp = c /\ op'.to = pending[c].version
          /\ op'.stage = "reverting"
          /\ pending' = pending /\ current' = current /\ trialled' = Judged(c, "failed")
      BY <2>3 DEF RevertExhausted, Operation
    <3>2. pending[c].version \in Versions
      BY <2>3, ExhaustedTrial DEF RevertExhausted, Trials
    <3>3. current[c] = pending[c].version => trialled'[c][pending[c].version] = "failed"
      BY <3>1, <3>2 DEF Judged, Tried, TypeOK
    <3> QED  BY <3>1, <3>3 DEF ApplyJudged, RecoveryJudged, Applying
  <2> QED  BY <1>3, <2>1, <2>2, <2>3 DEF Recovery
<1>4. CASE Kill
  BY <1>4, Unjudged DEF Kill
<1>5. CASE UNCHANGED vars
  BY <1>5 DEF vars, ApplyJudged, RecoveryJudged, Applying
<1> QED  BY <1>1, <1>2, <1>3, <1>4, <1>5, TrialJudged, RollbackJudged DEF Next, Engine

LEMMA NextVerdict == TypeOK /\ OperationInv /\ VerdictInv /\ [Next]_vars => VerdictInv'
  BY CrumbStays, NextChange, MovesStep, OperationMovesStep, NextJudged DEF VerdictInv

\* The steps of an apply and of recovery that end a trial find a verdict on it.
LEMMA VerdictIsThere ==
  ASSUME TypeOK, OperationInv, VerdictInv, [Next]_vars,
         op.kind \notin {"rollback", "golden", "select"},
         NEW c \in Components, ~(op.kind = "recover" /\ op.from = Golden[c])
  PROVE  VerdictBeforeDisarm(c)
<1> USE DEF disk, bound
<1> SUFFICES ASSUME pending[c] # NoTrial, pending'[c] = NoTrial,
                    current'[c] = pending[c].version
             PROVE  trialled'[c][pending[c].version] # "untried"
  BY DEF VerdictBeforeDisarm
<1>1. pending' # pending
  OBVIOUS
<1>2. pending' # Counted
  BY CountedTrial
<1>3. CASE Client \/ Install \/ Kill \/ UNCHANGED vars
  BY <1>1, <1>3 DEF Client, AskApply, AskSelect, AskRollback, AskGolden, Ask, Install,
     Refuse, AdmitCandidate, RemoveOldDir, Publish, PublishFails, Kill, vars
<1>4. CASE Trial
  <2>1. op # NoOp /\ op \in Ops /\ op.kind # "recover"
    BY <1>4, AtType DEF Trial, Arm, ArmFails, Swap, SwapFails, SyncFails, Activate,
       ActivateFails, GatePasses, GateFails, Confirm, ConfirmFails, Prune, RecordApplied,
       OperationInv
  <2>2. Applying
    BY <2>1 DEF Applying, Ops, Kinds
  <2>3. ~Arm /\ ~ArmFails
    <3>1. ASSUME At("ready") PROVE pending' # Armed(op.comp)
      BY <3>1, ArmedTrial
    <3> QED  BY <1>1, <3>1 DEF Arm, ArmFails
  <2>4. CASE Confirm \/ ConfirmFails
    <3>1. /\ op.stage = "confirming" /\ pending' = Disarmed(op.comp)
          /\ current' = current /\ trialled' = trialled
      BY <1>1, <2>4 DEF Confirm, ConfirmFails, At
    <3>2. op.comp = c
      BY <2>1, <3>1, DisarmedTrial DEF Ops
    <3> QED  BY <2>1, <2>2, <3>1, <3>2 DEF VerdictInv, ApplyJudged
  <2>5. CASE ~Confirm /\ ~ConfirmFails
    BY <1>1, <1>4, <2>2, <2>3, <2>5 DEF Trial, Swap, SwapFails, SyncFails, AbandonSwap,
       Activate, ActivateFails, GatePasses, GateFails, Prune, RecordApplied
  <2> QED  BY <2>4, <2>5
<1>5. CASE RollbackTo
  <2>1. Stuck \/ RevertFails \/ RevertConfirm \/ RevertConfirmFails
    BY <1>1, <1>5 DEF RollbackTo, Revert, RecordRolledBack
  <2>2. /\ op # NoOp /\ op \in Ops /\ op.stage \in {"reverting", "reverted"}
        /\ pending' = Disarmed(op.comp)
        /\ current' = current /\ trialled' = trialled
    BY <1>1, <2>1, AtType DEF Stuck, RevertFails, RevertConfirm, RevertConfirmFails
  <2>3. op.comp = c
    BY <2>2, DisarmedTrial DEF Ops
  <2>4. CASE Applying
    BY <2>2, <2>3, <2>4 DEF VerdictInv, ApplyJudged
  <2>5. CASE op.kind = "recover"
    BY <2>2, <2>3, <2>5 DEF VerdictInv, RecoveryJudged
  <2> QED  BY <2>2, <2>4, <2>5 DEF Applying, Ops, Kinds
<1>6. CASE Recovery
  <2>1. PICK d \in Components : CommitExhausted(d) \/ CommitExhaustedFails(d)
    BY <1>1, <1>2, <1>6 DEF Recovery, Start, RecordRescue, RecordBoot, RecordBootFails,
       Serve, StillOnTrial, RevertExhausted, VerdictInv
  <2>2. /\ pending' = Disarmed(d) /\ current' = current /\ trialled' = Judged(d, "passed")
    BY <1>1, <2>1 DEF CommitExhausted, CommitExhaustedFails
  <2>3. d = c
    BY <2>2, DisarmedTrial
  <2>4. pending[c].version \in Versions
    BY DEF TypeOK, Trials
  <2> QED  BY <2>2, <2>3, <2>4 DEF Judged, Tried, TypeOK
<1> QED  BY <1>3, <1>4, <1>5, <1>6 DEF Next, Engine

\* No apply and no recovery clears the trial of a release that stays live without a
\* verdict on it, whatever fails and wherever updaterd is killed in between.
THEOREM TrialsEndWithVerdict == Spec => ApplyTrialEndsWithVerdict
<1>1. TypeOK /\ OperationInv /\ VerdictInv /\ [Next]_vars =>
        [op.kind \notin {"rollback", "golden", "select"} =>
           \A c \in Components :
             \/ op.kind = "recover" /\ op.from = Golden[c]
             \/ VerdictBeforeDisarm(c)]_vars
  BY VerdictIsThere
<1> QED  BY <1>1, InitVerdict, NextVerdict, TypeCorrect, OperationAgrees, PTL
            DEF Spec, ApplyTrialEndsWithVerdict
=============================================================================
