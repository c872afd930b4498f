------------------------- MODULE ControlLoopProofs -------------------------
(***************************************************************************)
(* What holds of the control loop for any number of clients, modes and     *)
(* requests, ramps of any length, and any number of faults and restarts.   *)
(***************************************************************************)
EXTENDS ControlLoop, TLAPS

LEMMA LessType == \A n \in Nat : \A m \in 0 .. n : Less(m) \in 0 .. n
  BY DEF Less

LEMMA TickFacts ==
  /\ RampTicks \in Nat \ {0} /\ SitTicks \in Nat \ {0} /\ FallTicks \in Nat \ {0}
  /\ MaxRequests \in Nat /\ MaxFaults \in Nat /\ MaxRestarts \in Nat
  BY TicksAssumption, RequestsAssumption

LEMMA ModeFacts ==
  /\ FileMode \in Modes /\ Loads \subseteq Modes
  /\ \A m \in Modes : Skills[m] \subseteq Moves \cup {"sit"}
<1>1. Skills \in [Modes -> SUBSET (Moves \cup {"sit"})]
  BY ModesAssumption
<1> QED  BY <1>1, ModesAssumption

-----------------------------------------------------------------------------
(* Every behaviour keeps the types: what a step leaves alone keeps them by   *)
(* the lemmas of this section, what it writes by the lemma of its action.    *)

LEMMA KeepsIntents == IntentsOK /\ UNCHANGED intents => IntentsOK'
  BY DEF IntentsOK, intents
LEMMA KeepsCallers == CallersOK /\ UNCHANGED callers => CallersOK'
  BY DEF CallersOK, callers
LEMMA KeepsTick == TickOK /\ UNCHANGED tick /\ pc' \in Stages => TickOK'
  BY DEF TickOK, tick
LEMMA KeepsPosture == PostureOK /\ UNCHANGED posture => PostureOK'
  BY DEF PostureOK, posture
LEMMA KeepsJoints == JointsOK /\ UNCHANGED joints => JointsOK'
  BY DEF JointsOK, joints
LEMMA KeepsPolicy == PolicyOK /\ UNCHANGED policy => PolicyOK'
  BY DEF PolicyOK, policy
LEMMA KeepsEnding == EndingOK /\ UNCHANGED ending => EndingOK'
  BY DEF EndingOK, ending
LEMMA KeepsFalling == FallingOK /\ UNCHANGED falling => FallingOK'
  BY DEF FallingOK, falling
LEMMA KeepsOutput == OutputOK /\ UNCHANGED output => OutputOK'
  BY DEF OutputOK, output
LEMMA KeepsCounts == CountsOK /\ UNCHANGED <<faults, restarts>> => CountsOK'
  BY DEF CountsOK

LEMMA LoopRestsType ==
  ASSUME LoopTypeOK, LoopRests
  PROVE  /\ TickOK' /\ PostureOK' /\ JointsOK' /\ PolicyOK'
         /\ EndingOK' /\ FallingOK' /\ OutputOK' /\ CountsOK'
<1>1. TickOK'
  BY KeepsTick DEF LoopRests, LoopTypeOK, TickOK
<1> QED
  BY <1>1, KeepsPosture, KeepsJoints, KeepsPolicy, KeepsEnding, KeepsFalling, KeepsOutput,
     KeepsCounts DEF LoopRests, LoopTypeOK

LEMMA LoopInitType == LoopInit => LoopTypeOK
<1> SUFFICES ASSUME LoopInit PROVE LoopTypeOK
  OBVIOUS
<1>1. IntentsOK /\ CallersOK
  <2>1. IntentsOK
    BY DEF LoopInit, IntentsOK
  <2>2. client = [c \in Clients |-> "idle"] /\ wanted = FALSE /\ asked = 0
    BY DEF LoopInit
  <2> QED  BY <2>1, <2>2 DEF CallersOK
<1>2. TickOK /\ JointsOK /\ OutputOK
  BY DEF LoopInit, TickOK, JointsOK, OutputOK, Stages, Sights
<1>3. PolicyOK
  BY ModeFacts DEF LoopInit, PolicyOK
<1>4. PostureOK /\ EndingOK /\ FallingOK /\ CountsOK
  <2>1. ramp = 0 /\ sitLeft = 0 /\ fallLeft = 0 /\ faults = 0 /\ restarts = 0
    BY DEF LoopInit
  <2>2. /\ ramp \in 0 .. RampTicks /\ sitLeft \in 0 .. SitTicks /\ fallLeft \in 0 .. FallTicks
        /\ faults \in Nat /\ restarts \in Nat
    BY <2>1, TickFacts
  <2> QED  BY <2>2 DEF LoopInit, PostureOK, EndingOK, FallingOK, CountsOK
<1> QED  BY <1>1, <1>2, <1>3, <1>4 DEF LoopTypeOK

LEMMA AsksType == LoopTypeOK /\ Asks => LoopTypeOK'
<1> SUFFICES ASSUME LoopTypeOK, NEW c \in Clients,
                    \/ Enable(c) \/ ToggleLoad(c) \/ RequestInit(c) \/ RequestRelax(c)
                    \/ RequestSkill(c) \/ RequestMode(c) \/ RequestShutdown(c)
             PROVE  LoopTypeOK'
  BY DEF Asks
<1>1. LoopRests /\ \E kind \in Kinds : Asking(c, kind)
  BY DEF Enable, ToggleLoad, RequestInit, RequestRelax, RequestSkill, RequestMode,
         RequestShutdown, Kinds
<1>2. asked' \in Nat
  <2>1. asked \in Nat /\ asked' = asked + 1
    BY <1>1 DEF Asking, LoopTypeOK, CallersOK
  <2> QED  BY <2>1
<1>3. IntentsOK'
  <2>1. CASE Enable(c) \/ ToggleLoad(c) \/ RequestInit(c) \/ RequestRelax(c)
    BY <2>1 DEF Enable, ToggleLoad, RequestInit, RequestRelax, intents, IntentsOK, LoopTypeOK
  <2>2. CASE RequestSkill(c) \/ RequestMode(c) \/ RequestShutdown(c)
    BY <2>2 DEF RequestSkill, RequestMode, RequestShutdown, IntentsOK, LoopTypeOK
  <2> QED  BY <2>1, <2>2
<1>4. CallersOK'
  <2>1. CASE Enable(c) \/ RequestInit(c) \/ RequestSkill(c) \/ RequestMode(c)
             \/ RequestShutdown(c)
    BY <1>2, <2>1 DEF Enable, RequestInit, RequestSkill, RequestMode, RequestShutdown,
                      CallersOK, LoopTypeOK
  <2>2. CASE ToggleLoad(c) \/ RequestRelax(c)
    BY <1>2, <2>2 DEF ToggleLoad, RequestRelax, CallersOK, LoopTypeOK
  <2> QED  BY <2>1, <2>2
<1> QED  BY <1>1, <1>3, <1>4, LoopRestsType DEF LoopTypeOK

LEMMA StoresType == LoopTypeOK /\ Stores => LoopTypeOK'
<1> SUFFICES ASSUME LoopTypeOK, NEW c \in Clients, ToggleStore(c) \/ RelaxStore(c)
             PROVE  LoopTypeOK'
  BY DEF Stores
<1>1. IntentsOK' /\ LoopRests
  BY DEF ToggleStore, RelaxStore, IntentsOK, LoopTypeOK
<1>2. CallersOK'
  BY DEF ToggleStore, RelaxStore, CallersOK, LoopTypeOK
<1> QED  BY <1>1, <1>2, LoopRestsType DEF LoopTypeOK

LEMMA ReadType == LoopTypeOK /\ Read => LoopTypeOK'
<1> SUFFICES ASSUME LoopTypeOK, Read PROVE LoopTypeOK'
  OBVIOUS
<1>1. TickOK'
  BY DEF Read, LoopTypeOK, TickOK, IntentsOK, Stages
<1>2. PostureOK'
  BY LessType, TickFacts DEF Read, LoopTypeOK, PostureOK
<1>3. EndingOK'
  BY LessType, TickFacts DEF Read, LoopTypeOK, EndingOK
<1>4. FallingOK'
  BY LessType, TickFacts DEF Read, LoopTypeOK, FallingOK
<1>5. CountsOK'
  BY DEF Read, LoopTypeOK, CountsOK
<1> QED  BY <1>1, <1>2, <1>3, <1>4, <1>5, KeepsIntents, KeepsCallers, KeepsJoints,
            KeepsPolicy, KeepsOutput DEF Read, LoopTypeOK

\* What a torque write leaves.
LEMMA TornType ==
  ASSUME LoopTypeOK, NEW goal \in {"off", "on"}, Torn(goal)
  PROVE  torque' \in {"off", "some", "on"} /\ faults' \in Nat
  BY DEF Torn, LoopTypeOK, JointsOK, CountsOK

LEMMA StandUpType ==
  ASSUME LoopTypeOK, StandUp
  PROVE  PostureOK' /\ JointsOK' /\ faults' \in Nat /\ sit' \in {"Up", "Sitting", "Rising"}
<1>1. CASE Torn("on") /\ UNCHANGED <<posture, sit, unpowered>>
  BY <1>1, TornType, KeepsPosture DEF LoopTypeOK, JointsOK, PolicyOK
<1>2. CASE ~(Torn("on") /\ UNCHANGED <<posture, sit, unpowered>>)
  <2>1. torque' = "on" /\ unpowered' = FALSE /\ UNCHANGED faults
    BY <1>2 DEF StandUp
  <2>2. CASE bringup' = "Ready" /\ sit' = "Rising" /\ seated' = FALSE /\ UNCHANGED ramp
    BY <2>1, <2>2 DEF LoopTypeOK, PostureOK, JointsOK, CountsOK
  <2>3. CASE Homing /\ UNCHANGED <<sit, seated>>
    <3>1. ramp' \in 0 .. RampTicks
      BY <2>3, TickFacts DEF Homing
    <3> QED  BY <2>1, <2>3, <3>1 DEF Homing, LoopTypeOK, PolicyOK, PostureOK, JointsOK, CountsOK
  <2> QED  BY <1>2, <2>2, <2>3 DEF StandUp
<1> QED  BY <1>1, <1>2

LEMMA TakePowerType == LoopTypeOK /\ TakePower => LoopTypeOK'
<1> SUFFICES ASSUME LoopTypeOK, TakePower PROVE LoopTypeOK'
  OBVIOUS
<1> DEFINE Owned == /\ PostureOK' /\ JointsOK' /\ faults' \in Nat
                    /\ sit' \in {"Up", "Sitting", "Rising"} /\ wasDriving' \in BOOLEAN
<1>1. ASSUME power = "init", PowerInit, UNCHANGED wasDriving
      PROVE  Owned
  <2>1. wasDriving' \in BOOLEAN
    BY <1>1 DEF LoopTypeOK, OutputOK
  <2>2. CASE StandUp
    BY <2>1, <2>2, StandUpType
  <2>3. CASE Homing /\ UNCHANGED <<seated, joints, sit, faults>>
    BY <2>1, <2>3, TickFacts, KeepsJoints DEF Homing, LoopTypeOK, PostureOK, PolicyOK, CountsOK
  <2>4. CASE UNCHANGED <<posture, joints, sit, faults>>
    BY <2>1, <2>4, KeepsPosture, KeepsJoints DEF LoopTypeOK, PolicyOK, CountsOK
  <2> QED  BY <1>1, <2>2, <2>3, <2>4 DEF PowerInit
<1>2. ASSUME power = "relax", PowerRelax, UNCHANGED sit
      PROVE  Owned
  <2>1. CASE Torn("off") /\ unpowered' = TRUE /\ UNCHANGED <<posture, wasDriving>>
    BY <1>2, <2>1, TornType, KeepsPosture DEF LoopTypeOK, JointsOK, PolicyOK, OutputOK
  <2>2. CASE ~(Torn("off") /\ unpowered' = TRUE /\ UNCHANGED <<posture, wasDriving>>)
    BY <1>2, <2>2 DEF PowerRelax, LoopTypeOK, PostureOK, JointsOK, PolicyOK, CountsOK
  <2> QED  BY <2>1, <2>2
<1>3. ASSUME UNCHANGED <<posture, joints, sit, faults, wasDriving>>
      PROVE  Owned
  BY <1>3, KeepsPosture, KeepsJoints DEF LoopTypeOK, PolicyOK, CountsOK, OutputOK
<1>4. Owned
  <2> HIDE DEF Owned
  <2> QED  BY <1>1, <1>2, <1>3 DEF TakePower
<1>5. IntentsOK' /\ OutputOK'
  BY <1>4 DEF TakePower, LoopTypeOK, IntentsOK, OutputOK
<1>6. PolicyOK' /\ CountsOK'
  BY <1>4 DEF TakePower, LoopTypeOK, PolicyOK, CountsOK
<1>7. TickOK'
  BY KeepsTick DEF TakePower, LoopTypeOK, Stages
<1> QED  BY <1>4, <1>5, <1>6, <1>7, KeepsCallers, KeepsEnding, KeepsFalling
         DEF TakePower, LoopTypeOK

LEMMA TakeSkillsType == LoopTypeOK /\ TakeSkills => LoopTypeOK'
<1> SUFFICES ASSUME LoopTypeOK, TakeSkills PROVE LoopTypeOK'
  OBVIOUS
<1>1. Rolled \subseteq Moves
  BY DEF Rolled, Kicked, Picked, Moves, LoopTypeOK, PolicyOK
<1>2. Toggled \in {"Up", "Sitting", "Rising"}
  BY DEF Toggled, LoopTypeOK, PolicyOK
<1>3. PolicyOK'
  BY <1>1, <1>2 DEF TakeSkills, LoopTypeOK, PolicyOK
<1>4. IntentsOK' /\ TickOK'
  BY KeepsTick DEF TakeSkills, LoopTypeOK, IntentsOK, Stages
<1> QED  BY <1>3, <1>4, KeepsCallers, KeepsPosture, KeepsJoints, KeepsEnding, KeepsFalling,
            KeepsOutput, KeepsCounts DEF TakeSkills, LoopTypeOK

LEMMA TakeModeType == LoopTypeOK /\ TakeMode => LoopTypeOK'
<1> SUFFICES ASSUME LoopTypeOK, TakeMode PROVE LoopTypeOK'
  OBVIOUS
<1>1. PostureOK'
  BY TickFacts, KeepsPosture DEF TakeMode, Homing, LoopTypeOK, PostureOK
<1>2. JointsOK' /\ PolicyOK'
  BY DEF TakeMode, LoopTypeOK, IntentsOK, JointsOK, PolicyOK
<1>3. IntentsOK' /\ TickOK'
  BY KeepsTick DEF TakeMode, LoopTypeOK, IntentsOK, Stages
<1> QED  BY <1>1, <1>2, <1>3, KeepsCallers, KeepsEnding, KeepsFalling, KeepsOutput, KeepsCounts
         DEF TakeMode, LoopTypeOK

LEMMA PowerOffType ==
  ASSUME LoopTypeOK, PowerOff
  PROVE  /\ torque' \in {"off", "some", "on"} /\ faults' \in Nat
         /\ enabled' \in BOOLEAN /\ poweredOff' \in BOOLEAN
<1>1. torque' \in {"off", "some", "on"} /\ faults' \in Nat
  BY TornType DEF PowerOff, LoopTypeOK, CountsOK
<1> QED  BY <1>1 DEF PowerOff

\* The four ways through a shutdown request and the sit before it.
LEMMA ShutdownCases ==
  ASSUME TakeShutdown
  PROVE  \/ UNCHANGED <<enabled, torque, faults, ending, sit, bringup>>
         \/ Ends(TRUE) /\ BeginSit
         \/ PowerOff /\ UNCHANGED <<shutdownSit, sitLeft, sit, bringup>>
         \/ PowerOff /\ bringup' = "Limp" /\ UNCHANGED <<shutdownSit, sitLeft, sit>>
  BY DEF TakeShutdown, KeepsRunning, Ends

LEMMA TakeShutdownType == LoopTypeOK /\ TakeShutdown => LoopTypeOK'
<1> SUFFICES ASSUME LoopTypeOK, TakeShutdown PROVE LoopTypeOK'
  OBVIOUS
<1> DEFINE Owned == /\ torque' \in {"off", "some", "on"} /\ faults' \in Nat
                    /\ enabled' \in BOOLEAN /\ EndingOK'
                    /\ sit' \in {"Up", "Sitting", "Rising"}
                    /\ bringup' \in {"Limp", "Homing", "Ready"}
<1>1. ASSUME UNCHANGED <<enabled, torque, faults, ending, sit, bringup>>
      PROVE  Owned
  BY <1>1, KeepsEnding
     DEF LoopTypeOK, IntentsOK, JointsOK, PolicyOK, PostureOK, CountsOK
<1>2. ASSUME BeginSit
      PROVE  Owned
  BY <1>2, TickFacts
     DEF BeginSit, LoopTypeOK, IntentsOK, JointsOK, PolicyOK, PostureOK, CountsOK, EndingOK
<1>3. ASSUME PowerOff, UNCHANGED <<shutdownSit, sitLeft, sit>>,
             bringup' \in {bringup, "Limp"}
      PROVE  Owned
  BY <1>3, PowerOffType DEF LoopTypeOK, PolicyOK, PostureOK, EndingOK
<1>4. Owned
  <2> HIDE DEF Owned
  <2> QED  BY <1>1, <1>2, <1>3, ShutdownCases
<1>5. IntentsOK' /\ TickOK'
  BY <1>4, KeepsTick DEF TakeShutdown, LoopTypeOK, IntentsOK, Stages
<1>6. PostureOK' /\ JointsOK'
  BY <1>4 DEF TakeShutdown, LoopTypeOK, PostureOK, JointsOK
<1>7. PolicyOK' /\ CountsOK'
  BY <1>4 DEF TakeShutdown, LoopTypeOK, PolicyOK, CountsOK
<1> QED  BY <1>4, <1>5, <1>6, <1>7, KeepsCallers, KeepsFalling, KeepsOutput
         DEF TakeShutdown, LoopTypeOK

LEMMA FallType == LoopTypeOK /\ Fall => LoopTypeOK'
<1> SUFFICES ASSUME LoopTypeOK, Fall PROVE LoopTypeOK'
  OBVIOUS
<1>1. FallingOK'
  BY TickFacts, KeepsFalling DEF Fall, WatchFall, falling, LoopTypeOK, FallingOK
<1>2. TickOK'
  BY KeepsTick DEF Fall, LoopTypeOK, Stages
<1> QED  BY <1>1, <1>2, KeepsIntents, KeepsCallers, KeepsPosture, KeepsJoints, KeepsPolicy,
            KeepsEnding, KeepsOutput, KeepsCounts DEF Fall, LoopTypeOK

LEMMA BringUpType == LoopTypeOK /\ BringUp => LoopTypeOK'
<1> SUFFICES ASSUME LoopTypeOK, BringUp PROVE LoopTypeOK'
  OBVIOUS
<1> DEFINE Owned == PostureOK' /\ JointsOK' /\ PolicyOK' /\ faults' \in Nat
<1>1. ASSUME StandUp, UNCHANGED <<mode, modeChange, moves>>
      PROVE  Owned
  BY <1>1, StandUpType DEF LoopTypeOK, PolicyOK
<1>2. ASSUME Arrive
      PROVE  Owned
  <2>1. PostureOK' /\ JointsOK' /\ faults' \in Nat
    BY <1>2, KeepsJoints DEF Arrive, LoopTypeOK, PostureOK, CountsOK
  <2>2. PolicyOK'
    BY <1>2, KeepsPolicy DEF Arrive, LoopTypeOK, PolicyOK
  <2> QED  BY <2>1, <2>2
<1>3. ASSUME UNCHANGED <<posture, joints, policy, faults>>
      PROVE  Owned
  BY <1>3, KeepsPosture, KeepsJoints, KeepsPolicy DEF LoopTypeOK, CountsOK
<1>4. Owned
  <2> HIDE DEF Owned
  <2> QED  BY <1>1, <1>2, <1>3 DEF BringUp
<1>5. TickOK' /\ CountsOK'
  BY <1>4, KeepsTick DEF BringUp, LoopTypeOK, CountsOK, Stages
<1> QED  BY <1>4, <1>5, KeepsIntents, KeepsCallers, KeepsEnding, KeepsFalling, KeepsOutput
         DEF BringUp, LoopTypeOK

LEMMA DriveType == LoopTypeOK /\ Drive => LoopTypeOK'
<1> SUFFICES ASSUME LoopTypeOK, Drive PROVE LoopTypeOK'
  OBVIOUS
<1>1. PolicyOK'
  BY DEF Drive, Step, StepMoves, LoopTypeOK, PolicyOK
<1>2. CountsOK'
  <2>1. faults' \in {faults, faults + 1} /\ UNCHANGED restarts
    BY DEF Drive, Step
  <2> QED  BY <2>1 DEF LoopTypeOK, CountsOK
<1>3. OutputOK'
  BY DEF Drive, Step, Driving, OutputOK
<1>4. TickOK'
  BY KeepsTick DEF Drive, LoopTypeOK, Stages
<1> QED  BY <1>1, <1>2, <1>3, <1>4, KeepsIntents, KeepsCallers, KeepsPosture, KeepsJoints,
            KeepsEnding, KeepsFalling DEF Drive, LoopTypeOK

LEMMA RestartType == LoopTypeOK /\ Restart => LoopTypeOK'
<1> SUFFICES ASSUME LoopTypeOK, Restart PROVE LoopTypeOK'
  OBVIOUS
<1>1. IntentsOK' /\ CallersOK'
  <2>1. IntentsOK'
    BY DEF Restart, IntentsOK
  <2>2. client' = [c \in Clients |-> "idle"] /\ wanted' = FALSE /\ asked' = asked
    BY DEF Restart
  <2> QED  BY <2>1, <2>2 DEF LoopTypeOK, CallersOK
<1>2. TickOK' /\ JointsOK' /\ OutputOK'
  BY DEF Restart, LoopTypeOK, TickOK, JointsOK, OutputOK, Stages, Sights
<1>3. PolicyOK'
  BY ModeFacts DEF Restart, PolicyOK
<1>4. PostureOK' /\ EndingOK' /\ FallingOK' /\ CountsOK'
  <2>1. /\ ramp' = 0 /\ sitLeft' = 0 /\ fallLeft' = 0
        /\ faults' = faults /\ restarts' = restarts + 1
    BY DEF Restart
  <2>2. /\ ramp' \in 0 .. RampTicks /\ sitLeft' \in 0 .. SitTicks /\ fallLeft' \in 0 .. FallTicks
        /\ faults' \in Nat /\ restarts' \in Nat
    BY <2>1, TickFacts DEF LoopTypeOK, CountsOK
  <2> QED  BY <2>2 DEF Restart, PostureOK, EndingOK, FallingOK, CountsOK
<1> QED  BY <1>1, <1>2, <1>3, <1>4 DEF LoopTypeOK

LEMMA NextType == LoopTypeOK /\ [LoopNext]_vars => LoopTypeOK'
<1> SUFFICES ASSUME LoopTypeOK, [LoopNext]_vars PROVE LoopTypeOK'
  OBVIOUS
<1>1. CASE Halt \/ UNCHANGED vars
  <2>1. UNCHANGED <<intents, callers, tick, posture, joints, policy, ending, falling, output,
                    faults, restarts>>
    BY <1>1 DEF Halt, vars
  <2>2. pc' \in Stages
    BY <1>1 DEF Halt, vars, LoopTypeOK, TickOK, Stages
  <2> QED  BY <2>1, <2>2, KeepsIntents, KeepsCallers, KeepsTick, KeepsPosture, KeepsJoints,
              KeepsPolicy, KeepsEnding, KeepsFalling, KeepsOutput, KeepsCounts DEF LoopTypeOK
<1>2. CASE Loop
  BY <1>2, ReadType, TakePowerType, TakeSkillsType, TakeModeType, TakeShutdownType, FallType,
     BringUpType, DriveType DEF Loop
<1> QED  BY <1>1, <1>2, AsksType, StoresType, RestartType DEF LoopNext

\* The types of the loop's state (LoopTypeOK): in particular every timer of the loop stays
\* within the duration it counts down.
THEOREM LoopTypeCorrect == LoopSpec => []LoopTypeOK
<1>1. LoopInit => LoopTypeOK
  BY LoopInitType
<1>2. LoopTypeOK /\ [LoopNext]_vars => LoopTypeOK'
  BY NextType
<1> QED  BY <1>1, <1>2, PTL DEF LoopSpec

-----------------------------------------------------------------------------
(* The joints have power while the robot is up.                              *)

LEMMA ClientsRest ==
  ASSUME Asks \/ Stores
  PROVE  LoopRests
  BY DEF Asks, Stores, Enable, ToggleLoad, RequestInit, RequestRelax, RequestSkill,
         RequestMode, RequestShutdown, ToggleStore, RelaxStore

LEMMA StandUpPowered ==
  ASSUME UpIsPowered, StandUp, UNCHANGED poweredOff
  PROVE  UpIsPowered'
  BY DEF UpIsPowered, StandUp, Torn, posture

LEMMA PoweredStep ==
  ASSUME UpIsPowered, [LoopNext]_vars
  PROVE  UpIsPowered'
<1>1. CASE UNCHANGED <<bringup, torque, unpowered, poweredOff>>
  BY <1>1 DEF UpIsPowered
<1>2. CASE TakePower
  <2>1. UNCHANGED poweredOff
    BY <1>2 DEF TakePower, ending
  <2>2. ASSUME PowerInit
        PROVE  UpIsPowered'
    BY <2>1, <2>2, StandUpPowered DEF PowerInit, UpIsPowered, Homing, joints, posture
  <2>3. ASSUME PowerRelax
        PROVE  UpIsPowered'
    BY <2>1, <2>3 DEF PowerRelax, UpIsPowered
  <2>4. ASSUME UNCHANGED <<posture, joints>>
        PROVE  UpIsPowered'
    BY <2>1, <2>4 DEF UpIsPowered, posture, joints
  <2> QED  BY <1>2, <2>2, <2>3, <2>4 DEF TakePower
<1>3. CASE TakeMode
  BY <1>3 DEF TakeMode, UpIsPowered, Homing, posture, ending
<1>4. CASE TakeShutdown
  <2>1. UNCHANGED unpowered
    BY <1>4 DEF TakeShutdown
  <2>2. ASSUME UNCHANGED <<torque, ending, bringup>>
        PROVE  UpIsPowered'
    BY <2>1, <2>2 DEF UpIsPowered, ending
  <2>3. ASSUME BeginSit
        PROVE  UpIsPowered'
    BY <2>1, <2>3 DEF UpIsPowered, BeginSit
  <2>4. ASSUME PowerOff
        PROVE  UpIsPowered'
    BY <2>4 DEF UpIsPowered, PowerOff
  <2> QED  BY <1>4, <2>2, <2>3, <2>4, ShutdownCases
<1>5. CASE BringUp
  <2>1. UNCHANGED poweredOff
    BY <1>5 DEF BringUp, ending
  <2>2. ASSUME bringup = "Homing", Arrive
        PROVE  UpIsPowered'
    BY <2>1, <2>2 DEF UpIsPowered, Arrive, joints
  <2>3. ASSUME UNCHANGED <<posture, joints>>
        PROVE  UpIsPowered'
    BY <2>1, <2>3 DEF UpIsPowered, posture, joints
  <2> QED  BY <1>5, <2>1, <2>2, <2>3, StandUpPowered DEF BringUp
<1>6. CASE Restart
  BY <1>6 DEF Restart, UpIsPowered
<1>7. CASE Asks \/ Stores
  BY <1>1, <1>7, ClientsRest DEF LoopRests, posture, joints, ending
<1>8. CASE Read \/ TakeSkills \/ Fall \/ Drive \/ Halt \/ UNCHANGED vars
  BY <1>1, <1>8 DEF Read, TakeSkills, Fall, Drive, Halt, vars, posture, joints, ending
<1> QED  BY <1>2, <1>3, <1>4, <1>5, <1>6, <1>7, <1>8 DEF LoopNext, Loop

\* Outside Limp every joint has power, whatever is asked, fails or restarts, but for a mode
\* switch that lifts the loop out of Limp and a cut that failed (UpIsPowered).
THEOREM JointsPowered == LoopSpec => []UpIsPowered
<1>1. LoopInit => UpIsPowered
  BY DEF LoopInit, UpIsPowered
<1>2. UpIsPowered /\ [LoopNext]_vars => UpIsPowered'
  BY PoweredStep
<1> QED  BY <1>1, <1>2, PTL DEF LoopSpec

-----------------------------------------------------------------------------
(* Nothing stands up unasked.                                                *)

\* A request to stand up that the loop has not taken yet is the clients' last word, but
\* for a relax of which only the first store is done.
InitIsWanted == power = "init" => wanted \/ Relaxing

LEMMA RelaxingKept ==
  ASSUME NEW c \in Clients, NEW s, CallersOK, Relaxing, client[c] # "relaxing",
         client' = [client EXCEPT ![c] = s]
  PROVE  Relaxing'
<1>1. PICK d \in Clients : client[d] = "relaxing"
  BY DEF Relaxing
<1>2. client'[d] = "relaxing"
  BY <1>1 DEF CallersOK
<1> QED  BY <1>2 DEF Relaxing

LEMMA WantedStep ==
  ASSUME LoopTypeOK, InitIsWanted, [LoopNext]_vars
  PROVE  InitIsWanted'
<1> USE DEF InitIsWanted
<1>1. CASE power' = "none"
  BY <1>1
<1>2. CASE UNCHANGED <<power, wanted, client>>
  BY <1>2 DEF Relaxing
<1>3. ASSUME NEW c \in Clients,
             \/ Enable(c) \/ ToggleLoad(c) \/ RequestInit(c) \/ RequestRelax(c)
             \/ RequestSkill(c) \/ RequestMode(c) \/ RequestShutdown(c)
      PROVE  InitIsWanted'
  <2>1. CASE Enable(c) \/ RequestSkill(c) \/ RequestMode(c) \/ RequestShutdown(c)
    BY <2>1 DEF Enable, RequestSkill, RequestMode, RequestShutdown, Relaxing
  <2>2. CASE ToggleLoad(c)
    <3>1. client[c] # "relaxing" /\ UNCHANGED <<power, wanted>>
      BY <2>2 DEF ToggleLoad, Asking, intents
    <3>2. PICK s : client' = [client EXCEPT ![c] = s]
      BY <2>2 DEF ToggleLoad
    <3> QED  BY <3>1, <3>2, RelaxingKept DEF LoopTypeOK
  <2>3. CASE RequestInit(c)
    BY <2>3 DEF RequestInit
  <2>4. CASE RequestRelax(c)
    <3>1. client'[c] = "relaxing"
      BY <2>4 DEF RequestRelax, LoopTypeOK, CallersOK
    <3> QED  BY <3>1 DEF Relaxing
  <2> QED  BY <1>3, <2>1, <2>2, <2>3, <2>4
<1>4. ASSUME NEW c \in Clients, ToggleStore(c) \/ RelaxStore(c)
      PROVE  InitIsWanted'
  <2>1. CASE ToggleStore(c)
    <3>1. client[c] # "relaxing" /\ (wanted => wanted') /\ UNCHANGED power
      BY <2>1 DEF ToggleStore
    <3> QED  BY <2>1, <3>1, RelaxingKept DEF ToggleStore, LoopTypeOK
  <2>2. CASE RelaxStore(c)
    BY <2>2 DEF RelaxStore
  <2> QED  BY <1>4, <2>1, <2>2
<1>5. CASE TakePower \/ Restart
  BY <1>1, <1>5 DEF TakePower, Restart
<1>6. CASE Read \/ TakeSkills \/ TakeMode \/ TakeShutdown
  BY <1>2, <1>6 DEF Read, TakeSkills, TakeMode, TakeShutdown, intents, callers
<1>7. CASE Fall \/ BringUp \/ Drive \/ Halt \/ UNCHANGED vars
  BY <1>2, <1>7 DEF Fall, BringUp, Drive, Halt, vars, intents, callers
<1> QED  BY <1>3, <1>4, <1>5, <1>6, <1>7 DEF LoopNext, Loop, Asks, Stores

LEMMA RaisedStep ==
  ASSUME LoopTypeOK, InitIsWanted, LoopNext, Raises
  PROVE  wanted \/ Relaxing \/ snap
<1>1. torque' # torque
  BY DEF Raises
<1>2. CASE Asks \/ Stores
  BY <1>1, <1>2, ClientsRest DEF LoopRests, joints
<1>3. CASE Read \/ TakeSkills \/ TakeMode \/ Fall \/ Drive \/ Halt \/ Restart
  BY <1>1, <1>3 DEF Read, TakeSkills, TakeMode, Fall, Drive, Halt, Restart, joints
<1>4. ASSUME TakePower
      PROVE  power = "init"
  BY <1>4 DEF TakePower, PowerRelax, Torn, Raises, joints
<1>5. CASE TakeShutdown
  <2>1. ASSUME PowerOff
        PROVE  FALSE
    BY <2>1 DEF PowerOff, Torn, Raises
  <2> QED  BY <1>1, <1>5, <2>1, ShutdownCases DEF BeginSit
<1>6. CASE BringUp
  BY <1>1, <1>6 DEF BringUp, Wakes, Arrive, joints
<1> QED  BY <1>2, <1>3, <1>4, <1>5, <1>6 DEF LoopNext, Loop, InitIsWanted

\* No step gives power to joints that have none unless a client's last word was to stand
\* up, a relax is under way, or the `enabled` read at the head of this very tick was set
\* (RaisedOnlyIfAsked), for any number of clients storing between any two steps.
THEOREM NothingRaisedUnasked == LoopSpec => RaisedOnlyIfAsked
<1>1. LoopInit => InitIsWanted
  BY DEF LoopInit, InitIsWanted
<1>2. LoopTypeOK /\ InitIsWanted /\ [LoopNext]_vars => InitIsWanted'
  BY WantedStep
<1>3. LoopTypeOK /\ InitIsWanted /\ [LoopNext]_vars
      => [Raises => wanted \/ Relaxing \/ snap]_vars
  BY RaisedStep
<1> QED  BY <1>1, <1>2, <1>3, LoopTypeCorrect, PTL DEF LoopSpec, RaisedOnlyIfAsked

-----------------------------------------------------------------------------
(* The fall sequence.                                                        *)

\* From the fall stage to the next read, a pose ramp that is still there has the robot.
OwnFall ==
    /\ ~LimpFallOn => limpFall = "Idle"
    /\ pc \in {"bringup", "drive", "read"} /\ limpFall = "Posing" => ~Taken

LEMMA OwnFallStep ==
  ASSUME OwnFall, [LoopNext]_vars
  PROVE  OwnFall'
<1>1. CASE Fall
  <2>1. ~LimpFallOn => limpFall' = "Idle"
    BY <1>1 DEF Fall, OwnFall, falling
  <2>2. UNCHANGED <<snap, bringup, shutdownSit, poweredOff>>
    BY <1>1 DEF Fall, tick, posture, ending
  <2>3. limpFall' = "Posing" => ~Taken
    BY <1>1 DEF Fall, WatchFall, OwnFall, falling
  <2> QED  BY <2>1, <2>2, <2>3 DEF OwnFall, Taken
<1>2. CASE BringUp
  <2>1. UNCHANGED <<snap, shutdownSit, poweredOff, limpFall>> /\ pc = "bringup"
    BY <1>2 DEF BringUp, tick, ending, falling
  <2>2. bringup = "Ready" => UNCHANGED bringup
    BY <1>2 DEF BringUp, Wakes, posture
  <2> QED  BY <2>1, <2>2 DEF OwnFall, Taken
<1>3. CASE Drive
  BY <1>3 DEF Drive, OwnFall, Taken, tick, posture, ending, falling
<1>4. CASE Restart
  BY <1>4 DEF Restart, OwnFall
<1>5. CASE /\ UNCHANGED limpFall
           /\ pc' \notin {"bringup", "drive", "read"}
  BY <1>5 DEF OwnFall
<1>6. CASE UNCHANGED <<pc, limpFall, snap, bringup, shutdownSit, poweredOff>>
  BY <1>6 DEF OwnFall, Taken
<1>7. CASE Asks \/ Stores \/ UNCHANGED vars
  BY <1>6, <1>7, ClientsRest DEF LoopRests, vars, tick, posture, ending, falling
<1>8. CASE Read \/ TakePower \/ TakeSkills \/ TakeMode \/ TakeShutdown \/ Halt
  BY <1>5, <1>8 DEF Read, TakePower, TakeSkills, TakeMode, TakeShutdown, Halt, falling
<1> QED  BY <1>1, <1>2, <1>3, <1>4, <1>7, <1>8 DEF LoopNext, Loop

\* Between ticks a pose ramp is never under way on a robot that something else took
\* (PosesOnlyItsOwn), with limp_fall on or off.
THEOREM PosesAreItsOwn == LoopSpec => []PosesOnlyItsOwn
<1>1. LoopInit => OwnFall
  BY DEF LoopInit, OwnFall
<1>2. OwnFall /\ [LoopNext]_vars => OwnFall'
  BY OwnFallStep
<1>3. OwnFall => PosesOnlyItsOwn
  BY DEF OwnFall, PosesOnlyItsOwn, Taken
<1> QED  BY <1>1, <1>2, <1>3, PTL DEF LoopSpec

-----------------------------------------------------------------------------
(* The networks change at home.                                              *)

\* Only a tick that has just started a ramp home can still remember having driven.
HomeIsHeld == wasDriving /\ bringup = "Homing" => ramp = RampTicks /\ pc \notin {"read", "power"}

LEMMA HeldStep ==
  ASSUME HomeIsHeld, [LoopNext]_vars
  PROVE  HomeIsHeld'
<1> USE DEF HomeIsHeld
<1>1. CASE UNCHANGED <<bringup, ramp, wasDriving, pc>>
  BY <1>1
<1>2. CASE bringup' # "Homing" \/ (Homing /\ pc' \notin {"read", "power"})
  BY <1>2 DEF Homing
<1>3. CASE /\ UNCHANGED <<bringup, wasDriving, ramp>>
           /\ pc' \notin {"read", "power"}
  BY <1>3
<1>4. CASE Asks \/ Stores \/ UNCHANGED vars
  BY <1>1, <1>4, ClientsRest DEF LoopRests, vars, posture, output
<1>5. CASE Read
  BY <1>5 DEF Read, output
<1>6. CASE TakePower
  <2>1. pc = "power" /\ pc' = "skills"
    BY <1>6 DEF TakePower
  <2>2. ASSUME StandUp, UNCHANGED wasDriving
        PROVE  HomeIsHeld'
    BY <1>3, <2>1, <2>2 DEF StandUp, Homing, posture
  <2>3. ASSUME PowerInit, UNCHANGED wasDriving
        PROVE  HomeIsHeld'
    BY <1>2, <1>3, <2>1, <2>2, <2>3 DEF PowerInit, posture
  <2>4. ASSUME PowerRelax
        PROVE  HomeIsHeld'
    BY <1>3, <2>1, <2>4 DEF PowerRelax, posture
  <2>5. ASSUME UNCHANGED <<posture, wasDriving>>
        PROVE  HomeIsHeld'
    BY <1>3, <2>1, <2>5 DEF posture
  <2> QED  BY <1>6, <2>3, <2>4, <2>5 DEF TakePower
<1>7. CASE TakeMode
  BY <1>2, <1>3, <1>7 DEF TakeMode, posture, output
<1>8. CASE TakeShutdown
  BY <1>2, <1>3, <1>8, ShutdownCases DEF TakeShutdown, BeginSit, output
<1>9. CASE BringUp
  <2>1. pc' = "drive" /\ UNCHANGED wasDriving
    BY <1>9 DEF BringUp, output
  <2>2. ASSUME StandUp
        PROVE  HomeIsHeld'
    BY <1>2, <1>3, <2>1, <2>2 DEF StandUp, posture
  <2>3. ASSUME Arrive
        PROVE  HomeIsHeld'
    BY <1>2, <2>3 DEF Arrive
  <2> QED  BY <1>3, <1>9, <2>1, <2>2, <2>3 DEF BringUp, posture
<1>10. CASE Drive
  BY <1>10 DEF Drive, Driving, posture
<1>11. CASE Restart
  BY <1>2, <1>11 DEF Restart
<1>12. CASE TakeSkills \/ Fall \/ Halt
  BY <1>3, <1>12 DEF TakeSkills, Fall, Halt, posture, output
<1> QED  BY <1>4, <1>5, <1>6, <1>7, <1>8, <1>9, <1>10, <1>11, <1>12 DEF LoopNext, Loop

LEMMA SwapStep ==
  ASSUME LoopTypeOK, HomeIsHeld, LoopNext, mode' # mode, restarts' = restarts
  PROVE  ~wasDriving /\ bringup = "Homing"
<1>1. CASE BringUp
  <2>1. bringup = "Homing" /\ ramp = 0
    BY <1>1 DEF BringUp, policy
  <2> QED  BY <2>1, TickFacts DEF HomeIsHeld
<1>2. CASE Restart
  <2>1. restarts \in Nat /\ restarts' = restarts + 1
    BY <1>2 DEF Restart, LoopTypeOK, CountsOK
  <2> QED  BY <2>1
<1>3. CASE Asks \/ Stores
  BY <1>3, ClientsRest DEF LoopRests, policy
<1>4. CASE Read \/ TakePower \/ TakeSkills \/ TakeMode \/ TakeShutdown \/ Fall \/ Drive \/ Halt
  BY <1>4 DEF Read, TakePower, TakeSkills, TakeMode, TakeShutdown, Fall, Drive, Halt, policy
<1> QED  BY <1>1, <1>2, <1>3, <1>4 DEF LoopNext, Loop

\* The bundle in the controller is exchanged only at the end of a ramp home, after a tick
\* that did not drive (SwapsAtHome), however the requests interleave with the ramp.
THEOREM SwapsOnlyAtHome == LoopSpec => SwapsAtHome
<1>1. LoopInit => HomeIsHeld
  BY DEF LoopInit, HomeIsHeld
<1>2. HomeIsHeld /\ [LoopNext]_vars => HomeIsHeld'
  BY HeldStep
<1>3. LoopTypeOK /\ HomeIsHeld /\ [LoopNext]_vars
      => [mode' # mode /\ restarts' = restarts => ~wasDriving /\ bringup = "Homing"]_vars
  BY SwapStep
<1> QED  BY <1>1, <1>2, <1>3, LoopTypeCorrect, PTL DEF LoopSpec, SwapsAtHome
=============================================================================
