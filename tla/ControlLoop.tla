---------------------------- MODULE ControlLoop ----------------------------
(***************************************************************************)
(* robotd's control loop and the intents its IPC tasks leave for it        *)
(* (robotd/src/main.rs, intents.rs, control.rs).  The loop runs on a       *)
(* thread of its own.  A tick reads the bus and the `enabled` flag, takes  *)
(* the one-shot requests one after the other, decides who owns the robot   *)
(* and writes the bus; clients store their intents between any two of      *)
(* these steps, and nothing locks the two sides against each other.        *)
(***************************************************************************)
EXTENDS Naturals

CONSTANTS
    Clients,      \* IPC connections
    Modes,        \* drive modes
    FileMode,     \* the mode robotd.toml names
    Loads,        \* modes whose policy bundle loads (build_controller is Some)
    Skills,       \* networks of each mode beside walking: SitStand and the moves
    LimpFallOn,   \* [safety] limp_fall
    RampTicks,    \* HOME_RAMP, in ticks
    SitTicks,     \* SHUTDOWN_SIT, in ticks
    FallTicks,    \* limp_fall_max and limp_fall_pose, in ticks
    Requests,     \* the kinds of requests of this instance
    MaxRequests,  \* bound: requests in a behaviour
    MaxFaults,    \* bound: bad samples, failed torque writes and inferences
    MaxRestarts   \* bound: restarts of robotd

NoMode == "none"
Moves  == {"pick", "kick", "roulade"}
Kinds  == {"enable", "toggle", "init", "relax", "skill", "mode", "shutdown", "battery"}

ASSUME ModesAssumption ==
    /\ NoMode \notin Modes /\ FileMode \in Modes /\ Loads \subseteq Modes
    /\ Skills \in [Modes -> SUBSET (Moves \cup {"sit"})]
    /\ LimpFallOn \in BOOLEAN
ASSUME TicksAssumption == {RampTicks, SitTicks, FallTicks} \subseteq Nat \ {0}
ASSUME RequestsAssumption ==
    /\ Requests \subseteq Kinds
    /\ {MaxRequests, MaxFaults, MaxRestarts} \subseteq Nat

VARIABLES
    enabled, power, skills, modeSwitch, shutdown,  \* the slots of Intents
    client,      \* what each IPC task has still to store
    wanted,      \* history: the last request was to stand up, not to let go
    asked,       \* requests so far
    pc,          \* the step of the tick the loop comes to next
    snap,        \* snapshot.enabled of this tick
    sight,       \* what the read of this tick and the IMU filter gave
    fallen,      \* the fall verdict
    torque,      \* joints powered: none, some or all of them
    bringup,     \* Bringup
    ramp,        \* ticks left of the ramp home
    seated,      \* seated_boot
    mode,        \* the mode whose bundle is in the controller
    modeChange,  \* mode_change
    moves,       \* the controller's scripted moves in flight
    sit,         \* the controller's place in the sit-stand cycle
    shutdownSit, \* shutdown_sit
    sitLeft,     \* ticks left of it
    poweredOff,  \* powered_off
    limpFall,    \* LimpFall
    fallLeft,    \* ticks left of its phase
    wasDriving,  \* was_driving
    moving,      \* published for safeToRestart
    unpowered,   \* history: taken for up while joints have no torque
    faults,      \* faults so far
    restarts     \* restarts so far

intents  == <<enabled, power, skills, modeSwitch, shutdown>>
callers  == <<client, wanted, asked>>
tick     == <<snap, sight, fallen>>
posture  == <<bringup, ramp, seated>>
joints   == <<torque, unpowered>>
policy   == <<mode, modeChange, moves, sit>>
ending   == <<shutdownSit, sitLeft, poweredOff>>
falling  == <<limpFall, fallLeft>>
output   == <<wasDriving, moving>>
vars == <<intents, callers, pc, tick, posture, joints, policy, ending, falling, output,
          faults, restarts>>

Stages == {"read", "power", "skills", "mode", "shutdown", "fall", "bringup", "drive", "off"}
Sights == {"good", "coast", "cold", "blind"}

IntentsOK ==
    /\ enabled \in BOOLEAN /\ power \in {"none", "init", "relax"}
    /\ skills \subseteq Moves \cup {"sit"}
    /\ modeSwitch \in Modes \cup {NoMode} /\ shutdown \in BOOLEAN
CallersOK ==
    /\ client \in [Clients -> {"idle", "relaxing", "toggle on", "toggle off"}]
    /\ wanted \in BOOLEAN /\ asked \in Nat
TickOK    == pc \in Stages /\ snap \in BOOLEAN /\ sight \in Sights /\ fallen \in BOOLEAN
PostureOK ==
    /\ bringup \in {"Limp", "Homing", "Ready"} /\ ramp \in 0 .. RampTicks
    /\ seated \in BOOLEAN
JointsOK  == torque \in {"off", "some", "on"} /\ unpowered \in BOOLEAN
PolicyOK  ==
    /\ mode \in Modes /\ modeChange \in Modes \cup {NoMode}
    /\ moves \subseteq Moves /\ sit \in {"Up", "Sitting", "Rising"}
EndingOK  == shutdownSit \in BOOLEAN /\ sitLeft \in 0 .. SitTicks /\ poweredOff \in BOOLEAN
FallingOK == limpFall \in {"Idle", "Limp", "Posing"} /\ fallLeft \in 0 .. FallTicks
OutputOK  == wasDriving \in BOOLEAN /\ moving \in BOOLEAN
CountsOK  == faults \in Nat /\ restarts \in Nat

LoopTypeOK ==
    /\ IntentsOK /\ CallersOK /\ TickOK /\ PostureOK /\ JointsOK /\ PolicyOK
    /\ EndingOK /\ FallingOK /\ OutputOK /\ CountsOK

\* A robotd that has just adopted the pose it found on joints without power.
LoopInit ==
    /\ enabled = FALSE /\ power = "none" /\ skills = {} /\ modeSwitch = NoMode
    /\ shutdown = FALSE
    /\ client = [c \in Clients |-> "idle"] /\ wanted = FALSE /\ asked = 0
    /\ pc = "read" /\ snap = FALSE /\ sight = "good" /\ fallen = FALSE
    /\ bringup = "Limp" /\ ramp = 0 /\ seated \in BOOLEAN
    /\ torque = "off" /\ unpowered = FALSE
    /\ mode = FileMode /\ modeChange = NoMode /\ moves = {} /\ sit = "Up"
    /\ shutdownSit = FALSE /\ sitLeft = 0 /\ poweredOff = FALSE
    /\ limpFall = "Idle" /\ fallLeft = 0
    /\ wasDriving = FALSE /\ moving = FALSE
    /\ faults = 0 /\ restarts = 0

-----------------------------------------------------------------------------
(* IPC tasks: apply_intent and dispatch. *)

Asking(c, kind) ==
    /\ kind \in Requests /\ asked < MaxRequests /\ pc # "off"
    /\ client[c] = "idle"
    /\ asked' = asked + 1

LoopRests == UNCHANGED <<pc, tick, posture, joints, policy, ending, falling, output,
                         faults, restarts>>

Enable(c) == \E on \in BOOLEAN :
    /\ Asking(c, "enable")
    /\ enabled' = on /\ wanted' = (wanted \/ on)
    /\ UNCHANGED <<power, skills, modeSwitch, shutdown, client>> /\ LoopRests

\* The flip is a load and a store.
ToggleLoad(c) ==
    /\ Asking(c, "toggle")
    /\ client' = [client EXCEPT ![c] = IF enabled THEN "toggle off" ELSE "toggle on"]
    /\ UNCHANGED <<intents, wanted>> /\ LoopRests

ToggleStore(c) ==
    /\ client[c] \in {"toggle on", "toggle off"}
    /\ enabled' = (client[c] = "toggle on") /\ wanted' = (wanted \/ client[c] = "toggle on")
    /\ client' = [client EXCEPT ![c] = "idle"]
    /\ UNCHANGED <<power, skills, modeSwitch, shutdown, asked>> /\ LoopRests

RequestInit(c) ==
    /\ Asking(c, "init")
    /\ power' = "init" /\ wanted' = TRUE
    /\ UNCHANGED <<enabled, skills, modeSwitch, shutdown, client>> /\ LoopRests

\* request_relax: the flag first, then the request.
RequestRelax(c) ==
    /\ Asking(c, "relax")
    /\ enabled' = FALSE /\ wanted' = FALSE
    /\ client' = [client EXCEPT ![c] = "relaxing"]
    /\ UNCHANGED <<power, skills, modeSwitch, shutdown>> /\ LoopRests

RelaxStore(c) ==
    /\ client[c] = "relaxing"
    /\ power' = "relax"
    /\ client' = [client EXCEPT ![c] = "idle"]
    /\ UNCHANGED <<enabled, skills, modeSwitch, shutdown, wanted, asked>> /\ LoopRests

\* The notification form, which asks the loop whatever the mode has networks for.
RequestSkill(c) == \E s \in Moves \cup {"sit"} :
    /\ Asking(c, "skill")
    /\ s \in UNION {Skills[m] : m \in Modes}
    /\ skills' = skills \cup {s}
    /\ UNCHANGED <<enabled, power, modeSwitch, shutdown, client, wanted>> /\ LoopRests

RequestMode(c) == \E m \in Modes :
    /\ Asking(c, "mode")
    /\ modeSwitch' = m
    /\ UNCHANGED <<enabled, power, skills, shutdown, client, wanted>> /\ LoopRests

RequestShutdown(c) ==
    /\ Asking(c, "shutdown")
    /\ shutdown' = TRUE
    /\ UNCHANGED <<enabled, power, skills, modeSwitch, client, wanted>> /\ LoopRests

Stores == \E c \in Clients : ToggleStore(c) \/ RelaxStore(c)

Asks == \E c \in Clients :
    \/ Enable(c) \/ ToggleLoad(c) \/ RequestInit(c) \/ RequestRelax(c)
    \/ RequestSkill(c) \/ RequestMode(c) \/ RequestShutdown(c)

-----------------------------------------------------------------------------
(* What the loop finds at the head of a tick. *)

Sees   == sight # "blind"
Warm   == sight \in {"good", "coast"}
Loaded == mode \in Loads
CanSit == Loaded /\ "sit" \in Skills[mode]
Busy   == moves # {} \/ sit = "Rising"
Less(n) == IF n = 0 THEN 0 ELSE n - 1

\* Safety::read, Coast::sample, Safety::observe, Intents::snapshot.  A sample may be
\* the last good one (coast), come from a filter that has not converged (cold), or be
\* missing (blind); only a fresh and converged one moves the fall verdict.
Read ==
    /\ pc = "read"
    /\ sight' \in Sights
    /\ IF sight' = "good" THEN UNCHANGED faults
                          ELSE faults < MaxFaults /\ faults' = faults + 1
    /\ fallen' \in (IF sight' = "good" THEN BOOLEAN ELSE {fallen})
    /\ snap' = enabled
    /\ ramp' = Less(ramp) /\ sitLeft' = Less(sitLeft) /\ fallLeft' = Less(fallLeft)
    /\ pc' = "power"
    /\ UNCHANGED <<intents, callers, bringup, seated, joints, policy, shutdownSit,
                   poweredOff, limpFall, output, restarts>>

-----------------------------------------------------------------------------
(* The one-shot requests. *)

\* A torque write goes joint by joint and may fail on the way, or after the last one.
Torn(goal) ==
    /\ faults < MaxFaults /\ faults' = faults + 1
    /\ torque' \in IF torque = goal THEN {goal} ELSE {torque, "some", goal}

Homing == bringup' = "Homing" /\ ramp' = RampTicks

\* Variant of StandUp: an error of the torque write is logged and the ramp starts anyway.
StandUpAnyway ==
    /\ Homing /\ UNCHANGED <<sit, seated>>
    /\ \/ torque' = "on" /\ unpowered' = FALSE /\ UNCHANGED faults
       \/ Torn("on") /\ UNCHANGED unpowered

\* Torque on, then the rise of a seated boot or the ramp home.
StandUp ==
    \/ /\ torque' = "on" /\ unpowered' = FALSE
       /\ IF seated /\ CanSit
            THEN bringup' = "Ready" /\ sit' = "Rising" /\ seated' = FALSE /\ UNCHANGED ramp
            ELSE Homing /\ UNCHANGED <<sit, seated>>
       /\ UNCHANGED faults
    \/ Torn("on") /\ UNCHANGED <<posture, sit, unpowered>>

PowerInit ==
    \/ bringup = "Limp" /\ Sees /\ StandUp
    \/ bringup = "Ready" /\ Sees /\ Homing /\ UNCHANGED <<seated, joints, sit, faults>>
    \/ (bringup = "Homing" \/ ~Sees) /\ UNCHANGED <<posture, joints, sit, faults>>

\* A cut that fails part way leaves the loop where it was.
PowerRelax ==
    \/ /\ torque' = "off" /\ unpowered' = FALSE
       /\ bringup' = "Limp" /\ wasDriving' = FALSE
       /\ UNCHANGED <<ramp, seated, faults>>
    \/ Torn("off") /\ unpowered' = TRUE /\ UNCHANGED <<posture, wasDriving>>

TakePower ==
    /\ pc = "power"
    /\ power' = "none"
    /\ \/ power = "init" /\ PowerInit /\ UNCHANGED wasDriving
       \/ power = "relax" /\ PowerRelax /\ UNCHANGED sit
       \/ power = "none" /\ UNCHANGED <<posture, joints, sit, faults, wasDriving>>
    /\ pc' = "skills"
    /\ UNCHANGED <<enabled, skills, modeSwitch, shutdown, callers, tick, mode, modeChange,
                   moves, ending, falling, moving, restarts>>

\* The controller's own arbitration, in the order the loop asks it: a pick starts over
\* anything, a kick over nothing, a roulade over anything but a pick.
Picked   == moves \cup ({"pick"} \cap skills \cap Skills[mode])
Kicked   == IF Picked = {} THEN {"kick"} \cap skills \cap Skills[mode] ELSE Picked
Rolled   == IF "pick" \in Kicked THEN Kicked
            ELSE Kicked \cup ({"roulade"} \cap skills \cap Skills[mode])
Toggled  == CASE sit = "Up" -> IF CanSit THEN "Sitting" ELSE "Up"
              [] sit = "Sitting" -> "Rising"
              [] sit = "Rising" -> "Rising"

TakeSkills ==
    /\ pc = "skills"
    /\ skills' = {}
    /\ IF Loaded /\ snap /\ bringup = "Ready" /\ ~shutdownSit
         THEN moves' = Rolled /\ sit' = (IF "sit" \in skills THEN Toggled ELSE sit)
         ELSE UNCHANGED <<moves, sit>>
    /\ pc' = "mode"
    /\ UNCHANGED <<enabled, power, modeSwitch, shutdown, callers, tick, posture, joints,
                   mode, modeChange, ending, falling, output, faults, restarts>>

\* Variant of TakeMode: the other bundle is loaded at once.
TakeModeAtOnce ==
    /\ pc = "mode"
    /\ modeSwitch' = NoMode
    /\ mode' = (IF modeSwitch = NoMode THEN mode ELSE modeSwitch)
    /\ pc' = "shutdown"
    /\ UNCHANGED <<enabled, power, skills, shutdown, callers, tick, posture, joints, moves,
                   modeChange, sit, ending, falling, output, faults, restarts>>

\* A switch goes home first, from wherever the robot is; without a sample it waits for
\* the next homing.  A second one is dropped while one is in flight.
TakeMode ==
    /\ pc = "mode"
    /\ modeSwitch' = NoMode
    /\ IF modeSwitch \in {NoMode, mode} \/ modeChange # NoMode
         THEN UNCHANGED <<modeChange, posture, unpowered>>
         ELSE /\ modeChange' = modeSwitch
              /\ IF Sees
                   THEN /\ Homing /\ UNCHANGED seated
                        /\ unpowered' = (unpowered \/ (bringup = "Limp" /\ torque # "on"))
                   ELSE UNCHANGED <<posture, unpowered>>
    /\ pc' = "shutdown"
    /\ UNCHANGED <<enabled, power, skills, shutdown, callers, tick, torque, mode, moves, sit,
                   ending, falling, output, faults, restarts>>

\* An error of the cut is logged and the power goes anyway.
PowerOff ==
    /\ (torque' = "off" /\ UNCHANGED faults) \/ Torn("off")
    /\ enabled' = FALSE /\ poweredOff' = TRUE

Ends(spent) == ~poweredOff /\ ~shutdownSit /\ (shutdown \/ spent)
SitsFirst   == snap /\ bringup = "Ready" /\ ~fallen /\ CanSit

BeginSit ==
    /\ SitsFirst
    /\ sit' = "Sitting" /\ shutdownSit' = TRUE /\ sitLeft' = SitTicks
    /\ UNCHANGED <<enabled, torque, faults, poweredOff, bringup>>

\* Neither asked for nor due: the request is left where it is only while a sit runs or
\* the power is off.
KeepsRunning(spent) ==
    /\ ~Ends(spent) /\ ~(shutdownSit /\ ~poweredOff /\ sitLeft = 0)
    /\ UNCHANGED <<enabled, torque, faults, ending, sit, bringup>>

\* Variant of TakeShutdown: a shutdown taken by a robot that has nothing to sit from is dropped.
TakeShutdownSitOnly == \E spent \in BOOLEAN :
    /\ pc = "shutdown"
    /\ spent => "battery" \in Requests
    /\ shutdown' = (shutdown /\ (poweredOff \/ shutdownSit))
    /\ \/ KeepsRunning(spent)
       \/ Ends(spent) /\ BeginSit
       \/ /\ Ends(spent) /\ ~SitsFirst
          /\ UNCHANGED <<shutdownSit, sitLeft, sit, bringup, torque, faults, enabled, poweredOff>>
       \/ /\ shutdownSit /\ ~poweredOff /\ sitLeft = 0
          /\ PowerOff /\ bringup' = "Limp"
          /\ UNCHANGED <<shutdownSit, sitLeft, sit>>
    /\ pc' = "fall"
    /\ UNCHANGED <<power, skills, modeSwitch, callers, tick, ramp, seated, unpowered, mode,
                   modeChange, moves, falling, output, restarts>>

\* robot.shutdown or an empty pack, and the end of the goodbye sit.
TakeShutdown == \E spent \in BOOLEAN :
    /\ pc = "shutdown"
    /\ spent => "battery" \in Requests
    /\ shutdown' = (shutdown /\ (poweredOff \/ shutdownSit))
    /\ \/ KeepsRunning(spent)
       \/ Ends(spent) /\ BeginSit
       \/ Ends(spent) /\ ~SitsFirst /\ PowerOff /\ UNCHANGED <<shutdownSit, sitLeft, sit, bringup>>
       \/ /\ shutdownSit /\ ~poweredOff /\ sitLeft = 0
          /\ PowerOff /\ bringup' = "Limp"
          /\ UNCHANGED <<shutdownSit, sitLeft, sit>>
    /\ pc' = "fall"
    /\ UNCHANGED <<power, skills, modeSwitch, callers, tick, ramp, seated, unpowered, mode,
                   modeChange, moves, falling, output, restarts>>

-----------------------------------------------------------------------------
(* Who owns the robot for the rest of the tick. *)

Taken == ~(snap /\ bringup = "Ready" /\ ~shutdownSit /\ ~poweredOff)

\* FallPredictor runs after a tick that drove, on a fresh sample, unless the robot is
\* down already or doing something that tips it on purpose.
CanFall ==
    /\ wasDriving /\ ~fallen /\ ~shutdownSit /\ ~poweredOff
    /\ Loaded /\ ~Busy /\ sit # "Sitting" /\ sight = "good"

\* Variants of WatchFall: the pose ramp goes on whoever took the robot; a limping robot
\* waits for the gyro alone.
WatchFallStubborn ==
    \/ limpFall = "Idle" /\ UNCHANGED falling
    \/ limpFall = "Idle" /\ CanFall /\ limpFall' = "Limp" /\ fallLeft' = FallTicks
    \/ limpFall = "Limp" /\ fallLeft # 0 /\ UNCHANGED falling
    \/ limpFall = "Limp" /\ limpFall' = "Posing" /\ fallLeft' = FallTicks
    \/ limpFall = "Posing" /\ fallLeft # 0 /\ UNCHANGED falling
    \/ limpFall = "Posing" /\ fallLeft = 0 /\ limpFall' = "Idle" /\ UNCHANGED fallLeft
WatchFallUntimed ==
    \/ limpFall = "Idle" /\ UNCHANGED falling
    \/ limpFall = "Idle" /\ CanFall /\ limpFall' = "Limp" /\ fallLeft' = FallTicks
    \/ limpFall # "Idle" /\ Taken /\ limpFall' = "Idle" /\ UNCHANGED fallLeft
    \/ limpFall = "Limp" /\ ~Taken /\ UNCHANGED falling
    \/ /\ limpFall = "Limp" /\ ~Taken /\ sight \in {"good", "cold"}
       /\ limpFall' = "Posing" /\ fallLeft' = FallTicks
    \/ limpFall = "Posing" /\ ~Taken /\ fallLeft # 0 /\ UNCHANGED falling
    \/ limpFall = "Posing" /\ ~Taken /\ fallLeft = 0 /\ limpFall' = "Idle" /\ UNCHANGED fallLeft

\* Limp until landed or timed out, then a ramp to the pose, then the policy's again;
\* abandoned as soon as something else took the robot.
WatchFall ==
    \/ limpFall = "Idle" /\ UNCHANGED falling
    \/ limpFall = "Idle" /\ CanFall /\ limpFall' = "Limp" /\ fallLeft' = FallTicks
    \/ limpFall # "Idle" /\ Taken /\ limpFall' = "Idle" /\ UNCHANGED fallLeft
    \/ limpFall = "Limp" /\ ~Taken /\ fallLeft # 0 /\ UNCHANGED falling
    \/ /\ limpFall = "Limp" /\ ~Taken
       /\ sight \in {"good", "cold"} \/ fallLeft = 0
       /\ limpFall' = "Posing" /\ fallLeft' = FallTicks
    \/ limpFall = "Posing" /\ ~Taken /\ fallLeft # 0 /\ UNCHANGED falling
    \/ limpFall = "Posing" /\ ~Taken /\ fallLeft = 0 /\ limpFall' = "Idle" /\ UNCHANGED fallLeft

Fall ==
    /\ pc = "fall"
    /\ IF LimpFallOn THEN WatchFall ELSE UNCHANGED falling
    /\ pc' = "bringup"
    /\ UNCHANGED <<intents, callers, tick, posture, joints, policy, ending, output,
                   faults, restarts>>

\* Variant of Wakes: a seated boot waits for robot.init.
WakesStanding == bringup = "Limp" /\ snap /\ Loaded /\ Sees /\ ~seated

Wakes == bringup = "Limp" /\ snap /\ Loaded /\ Sees

\* The end of the ramp, and of a mode switch: the other bundle goes in, with a
\* controller of its own.
Arrive ==
    /\ bringup' = "Ready" /\ UNCHANGED <<ramp, seated, joints, faults>>
    /\ IF modeChange = NoMode
         THEN UNCHANGED policy
         ELSE /\ mode' = modeChange /\ modeChange' = NoMode
              /\ moves' = {} /\ sit' = "Up"

\* Variant of BringUp: a limp robot is brought up without being asked.
BringUpUnasked ==
    /\ pc = "bringup"
    /\ IF bringup = "Limp" /\ Loaded /\ Sees
         THEN StandUp /\ UNCHANGED <<mode, modeChange, moves>>
         ELSE IF bringup = "Homing" /\ ramp = 0 THEN Arrive
         ELSE UNCHANGED <<posture, joints, policy, faults>>
    /\ pc' = "drive"
    /\ UNCHANGED <<intents, callers, tick, ending, falling, output, restarts>>

\* Variant of BringUp: a ramp home ends only on a robot that is still enabled.
BringUpAwake ==
    /\ pc = "bringup"
    /\ \/ Wakes /\ StandUp /\ UNCHANGED <<mode, modeChange, moves>>
       \/ bringup = "Homing" /\ ramp = 0 /\ snap /\ Arrive
       \/ /\ ~Wakes /\ ~(bringup = "Homing" /\ ramp = 0 /\ snap)
          /\ UNCHANGED <<posture, joints, policy, faults>>
    /\ pc' = "drive"
    /\ UNCHANGED <<intents, callers, tick, ending, falling, output, restarts>>

\* The snapshot is the one of the head of the tick, and the power may be off already.
BringUp ==
    /\ pc = "bringup"
    /\ \/ Wakes /\ StandUp /\ UNCHANGED <<mode, modeChange, moves>>
       \/ bringup = "Homing" /\ ramp = 0 /\ Arrive
       \/ /\ ~Wakes /\ ~(bringup = "Homing" /\ ramp = 0)
          /\ UNCHANGED <<posture, joints, policy, faults>>
    /\ pc' = "drive"
    /\ UNCHANGED <<intents, callers, tick, ending, falling, output, restarts>>

Driving == /\ snap /\ bringup = "Ready" /\ Loaded /\ limpFall = "Idle"
           /\ Sees /\ Warm /\ ~poweredOff

\* Controller::step: any move's window, and the rise, may end.
StepMoves ==
    /\ moves' \in SUBSET moves
    /\ sit' \in (IF sit = "Rising" THEN {"Rising", "Up"} ELSE {sit})

\* A scripted move is motion; so is a command to walk.
Step ==
    \/ /\ StepMoves /\ UNCHANGED faults
       /\ moving' \in (IF moves' # {} \/ sit' = "Rising" THEN {TRUE} ELSE BOOLEAN)
    \/ /\ faults < MaxFaults /\ faults' = faults + 1
       /\ StepMoves /\ moving' = FALSE

Drive ==
    /\ pc = "drive"
    /\ wasDriving' = Driving
    /\ IF Driving
         THEN Step
         ELSE /\ moving' = (limpFall # "Idle" \/ bringup = "Homing")
              /\ UNCHANGED <<moves, sit, faults>>
    /\ pc' = "read"
    /\ UNCHANGED <<intents, callers, tick, posture, joints, mode, modeChange, ending, falling,
                   restarts>>

\* What updaterd's preflight reads: robotd's answer to safeToRestart, from what the last
\* tick published, or no answer, which permits a restart too.
SafeToRestart == ~moving \/ fallen \/ pc = "off"

-----------------------------------------------------------------------------
\* systemd takes robotd down with the machine.
Halt ==
    /\ poweredOff /\ pc # "off"
    /\ pc' = "off"
    /\ UNCHANGED <<intents, callers, tick, posture, joints, policy, ending, falling, output,
                   faults, restarts>>

\* A crash, an update or systemctl: the requests go with the process, the servos keep
\* what they had.
Restart ==
    /\ ~poweredOff /\ restarts < MaxRestarts
    /\ restarts' = restarts + 1
    /\ enabled' = FALSE /\ power' = "none" /\ skills' = {} /\ modeSwitch' = NoMode
    /\ shutdown' = FALSE
    /\ client' = [c \in Clients |-> "idle"] /\ wanted' = FALSE
    /\ pc' = "read" /\ snap' = FALSE /\ sight' = "good" /\ fallen' = FALSE
    /\ bringup' = "Limp" /\ ramp' = 0 /\ seated' \in BOOLEAN /\ unpowered' = FALSE
    /\ mode' = FileMode /\ modeChange' = NoMode /\ moves' = {} /\ sit' = "Up"
    /\ shutdownSit' = FALSE /\ sitLeft' = 0 /\ poweredOff' = FALSE
    /\ limpFall' = "Idle" /\ fallLeft' = 0
    /\ wasDriving' = FALSE /\ moving' = FALSE
    /\ UNCHANGED <<torque, asked, faults>>

Loop ==
    \/ Read \/ TakePower \/ TakeSkills \/ TakeMode \/ TakeShutdown
    \/ Fall \/ BringUp \/ Drive

LoopNext == Asks \/ Stores \/ Loop \/ Halt \/ Restart

LoopSpec == LoopInit /\ [][LoopNext]_vars

\* The loop has a thread and a runtime to itself and never waits on a client; an IPC
\* task that has stored half of a request runs on to the other half.
FairLoopSpec == LoopSpec /\ WF_vars(Loop) /\ WF_vars(Stores)

-----------------------------------------------------------------------------
(* Properties. *)

Raises == torque = "off" /\ torque' # "off"
Relaxing == \E c \in Clients : client[c] = "relaxing"

\* Joints without power get it only if this process was asked to stand up and not to let
\* go since (Intents::request_relax; robotd-design 3.3, nothing happens because a process
\* started).  A relax whose two stores are under way has not been answered yet.
RelaxHolds == [][Raises => wanted \/ Relaxing]_vars

\* The same, but for the `enabled` that the tick under way read at its head: whatever
\* clients, restarts and switches do, that is the only stale word the loop acts on.
RaisedOnlyIfAsked == [][Raises => wanted \/ Relaxing \/ snap]_vars

\* Outside Limp every joint has power (Bringup, "torque on"), but for the two ways the
\* loop loses track: a mode switch that lifts it out of Limp, and a cut that failed.
UpIsPowered ==
    bringup # "Limp" /\ ~poweredOff => torque = "on" \/ unpowered

\* A robot that sat down to be switched off is left without torque, unless somebody asked
\* again ("sit complete: cutting torque and powering off").
SatDownForGood ==
    shutdownSit /\ poweredOff /\ pc = "read" /\ ~enabled => torque # "on"

\* A pose ramp after a fall is never played out on a robot that a relax, a disable, a
\* homing or the goodbye sit took over (limp-fall abandoned).
PosesOnlyItsOwn ==
    pc = "read" /\ limpFall = "Posing"
    => bringup = "Ready" /\ snap /\ ~shutdownSit /\ ~poweredOff

\* The networks are never swapped under a gait: the tick before did not drive and the
\* robot has come home.
SwapsAtHome == [][
    mode' # mode /\ restarts' = restarts => ~wasDriving /\ bringup = "Homing"]_vars

\* A robot that went limp to land does not stay limp for ever, whatever the gyro says.
LimpFallEnds == limpFall = "Limp" ~> limpFall # "Limp" \/ poweredOff

\* Asked to shut down, this process does, in the end, power off.
ShutdownHappens == \A r \in 0 .. MaxRestarts :
    (shutdown /\ restarts = r) ~> (poweredOff \/ restarts # r)

\* Whatever a robot that nobody drives was asked for before, or was in the middle of, its
\* motion is over in the end and stays over, as safeToRestart tells it: updaterd refuses
\* an update for as long as it is not (preflight.rs:185).
LetGo == ~enabled /\ asked = MaxRequests /\ \A c \in Clients : client[c] = "idle"

ComesToRest == LetGo ~> []SafeToRestart

\* Nothing the clients asked for before leaves a robot that is enabled, has a policy and
\* a working bus and IMU waiting for ever.
EnabledDrives ==
    /\ enabled /\ Loaded /\ asked = MaxRequests /\ restarts = MaxRestarts
    /\ \A c \in Clients : client[c] = "idle"
    ~> wasDriving \/ poweredOff \/ ~Loaded
=============================================================================
