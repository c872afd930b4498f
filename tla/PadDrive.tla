----------------------------- MODULE PadDrive -----------------------------
(***************************************************************************)
(* Driving with the gamepad: padd reads the pad at its own rate and sends  *)
(* what it says as notifications (padd/src/main.rs); robotd stamps a twist *)
(* when it receives it (robotd/src/intents.rs) and its loop passes the     *)
(* twist through the deadman (duck-control/src/safety.rs).  padd sends     *)
(* nothing while there is no pad, ends on the first error of its socket    *)
(* and is started again by systemd.                                        *)
(*                                                                         *)
(* The requests that padd sends and waits for (enable, skills, the drive   *)
(* mode) are ControlLoop's; of a twist all that matters is whether it      *)
(* moves.  Time is counted in units of Elapse.                             *)
(***************************************************************************)
EXTENDS Naturals, Sequences

CONSTANTS
    Posing,     \* the modes in which the sticks pose the robot: "head", "body"
    Deadman,    \* [deadman]: how long a twist counts
    Hold,       \* SHUTDOWN_HOLD
    WireLines   \* bound: lines the socket takes before padd waits

ASSUME PadAssumption == Posing \subseteq {"head", "body"} /\ {Deadman, Hold} \subseteq Nat
ASSUME WireBound     == WireLines \in Nat /\ WireLines >= 3

VARIABLES
    pad,        \* the pad: whether it is there, its sticks are off centre, Select is down
    padd,       \* the daemon
    wire,       \* lines robotd has not read
    twist,      \* the twist robotd has, and its age
    commanded,  \* whether the loop commands the robot to move
    upAge       \* history: time since padd started or saw Select up

padVars == <<pad, padd, wire, twist, commanded, upAge>>

NotHeld == Hold + 1
NewPadd == [up |-> TRUE, connected |-> TRUE, mode |-> "drive", held |-> NotHeld,
            asked |-> FALSE, posed |-> FALSE]

PadTypeOK ==
    /\ pad \in [here: BOOLEAN, off: BOOLEAN, select: BOOLEAN]
    /\ padd \in [up: BOOLEAN, connected: BOOLEAN, mode: Posing \cup {"drive"},
                 held: 0..NotHeld, asked: BOOLEAN, posed: BOOLEAN]
    /\ wire \in Seq({"move", "still", "pose"}) /\ Len(wire) <= WireLines
    /\ twist \in [moves: BOOLEAN, age: 0..Deadman + 1]
    /\ commanded \in BOOLEAN /\ upAge \in 0..Hold

PadInit ==
    /\ pad = [here |-> TRUE, off |-> FALSE, select |-> FALSE]
    /\ padd = NewPadd /\ wire = <<>>
    /\ twist = [moves |-> FALSE, age |-> Deadman + 1] /\ commanded = FALSE
    /\ upAge = 0

----------------------------------------------------------------------------
(* The pad.                                                                 *)

\* Its driver does what it likes with the sticks and Select.
Handled ==
    /\ pad.here
    /\ \E off \in BOOLEAN, select \in BOOLEAN :
           pad' = [here |-> TRUE, off |-> off, select |-> select]
    /\ UNCHANGED <<padd, wire, twist, commanded, upAge>>

\* The radio link drops, or comes back.
PadDrops == pad' = [pad EXCEPT !.here = ~@] /\ UNCHANGED <<padd, wire, twist, commanded, upAge>>

----------------------------------------------------------------------------
(* padd.                                                                    *)

\* What the press of a mode button makes of the mode.
Toggled(button) == IF padd.mode = button THEN "drive" ELSE button

\* Variant of Lines: posing does not stop the robot first.
LinesPoseOnly(mode, leaving) ==
    (IF leaving THEN <<"pose">> ELSE <<>>) \o
    (IF mode = "drive" THEN <<IF pad.off THEN "move" ELSE "still">> ELSE <<"pose">>)

\* The lines of a tick.  Leaving body mode puts the body back; posing stops the robot
\* before it poses it.
Lines(mode, leaving) ==
    (IF leaving THEN <<"pose">> ELSE <<>>) \o
    (IF mode = "drive" THEN <<IF pad.off THEN "move" ELSE "still">> ELSE <<"still", "pose">>)

\* Variant of HeldFor: letting go does not end the hold.
HeldForever == IF pad.select /\ padd.held = NotHeld THEN 0 ELSE padd.held

\* How long Select has been held, at this tick.
HeldFor == IF ~pad.select THEN NotHeld ELSE IF padd.held = NotHeld THEN 0 ELSE padd.held

\* One tick with a pad: the shutdown, once for each hold, and the sticks.  A line
\* robotd has hung up on ends padd.
PaddTick ==
    /\ padd.up /\ pad.here
    /\ \E mode \in {padd.mode} \cup {Toggled(b) : b \in Posing} :
           LET lines == Lines(mode, padd.mode = "body" /\ mode = "drive") IN
           IF padd.connected
           THEN /\ Len(wire) + Len(lines) <= WireLines
                /\ wire' = wire \o lines
                /\ padd' = [padd EXCEPT !.mode = mode, !.posed = mode # "drive",
                                        !.held = HeldFor,
                                        !.asked = pad.select /\ (@ \/ HeldFor = Hold)]
           ELSE UNCHANGED wire /\ padd' = [padd EXCEPT !.up = FALSE]
    /\ upAge' = IF pad.select THEN upAge ELSE 0
    /\ UNCHANGED <<pad, twist, commanded>>

\* padd is killed, and systemd starts it again after RestartSec, by when robotd has read
\* what the old one sent.
PaddDies ==
    /\ padd.up /\ padd' = [padd EXCEPT !.up = FALSE]
    /\ UNCHANGED <<pad, wire, twist, commanded, upAge>>

PaddStarts ==
    /\ ~padd.up /\ wire = <<>>
    /\ padd' = NewPadd /\ upAge' = 0
    /\ UNCHANGED <<pad, wire, twist, commanded>>

----------------------------------------------------------------------------
(* robotd.                                                                  *)

\* A twist is as old as its receipt, however long it waited in the socket.
Receive ==
    /\ wire # <<>> /\ wire' = Tail(wire)
    /\ twist' = IF Head(wire) = "pose" THEN twist
                ELSE [moves |-> Head(wire) = "move", age |-> 0]
    /\ UNCHANGED <<pad, padd, commanded, upAge>>

\* Variant of Gate: a twist counts until the next one.
GateNever == twist.moves

\* Safety::gate.
Gate == twist.moves /\ twist.age <= Deadman

LoopTick ==
    /\ commanded # Gate /\ commanded' = Gate
    /\ UNCHANGED <<pad, padd, wire, twist, upAge>>

\* robotd restarts: padd finds out when it sends.
RobotdRestarts ==
    /\ padd' = [padd EXCEPT !.connected = FALSE] /\ wire' = <<>>
    /\ twist' = [moves |-> FALSE, age |-> Deadman + 1] /\ commanded' = FALSE
    /\ UNCHANGED <<pad, upAge>>

\* Time passes.
Later(x, last) == IF x < last THEN x + 1 ELSE x

Wait ==
    /\ twist' = [twist EXCEPT !.age = Later(@, Deadman + 1)]
    /\ padd' = [padd EXCEPT !.held = IF @ = NotHeld THEN @ ELSE Later(@, Hold)]
    /\ upAge' = Later(upAge, Hold)
    /\ UNCHANGED <<pad, wire, commanded>>

----------------------------------------------------------------------------
PadNext == Handled \/ PadDrops \/ PaddTick \/ PaddDies \/ PaddStarts
           \/ Receive \/ LoopTick \/ RobotdRestarts \/ Wait

PadSpec == PadInit /\ [][PadNext]_padVars

----------------------------------------------------------------------------
(* Properties. *)

\* With the pad gone, or padd dead, for good, the robot comes to stand still and stays
\* so, whatever twist was under way and wherever it had got to: the deadman, since
\* padd sends nothing (padd/src/main.rs:300-317, safety.rs:216-227, intents.rs:481).
SilenceStops ==
    <>[](~pad.here \/ ~padd.up) => <>[]~commanded

\* A robot that padd poses has no twist left of the driving before, once it has read
\* what padd sent (padd/src/main.rs:598-640).
StillWhilePosed ==
    padd.up /\ padd.connected /\ padd.posed /\ wire = <<>> => ~twist.moves

\* Taps of Select do not add up to a hold: the shutdown is asked only when no tick of
\* the last SHUTDOWN_HOLD saw Select up, by a pad that came and went and a padd that was
\* started again in between (padd/src/main.rs:421-436).
HeldNotTapped == [][~padd.asked /\ padd'.asked => upAge = Hold]_padVars
=============================================================================
