---------------------------- MODULE BootRecovery ----------------------------
(***************************************************************************)
(* The recovery net that works when updaterd does not: the boot check the  *)
(* timer runs once per boot (scripts/robot-boot-check) and the rescue that *)
(* puts `current` on golden (scripts/robot-rescue), beside the engine of   *)
(* Updater.  The scripts take no lock, so their steps interleave with the  *)
(* engine's, and power may go at any time.                                 *)
(***************************************************************************)
EXTENDS Updater

CONSTANTS
    Tree,             \* the component whose install_dir the rescue swaps
    Dead,             \* releases whose updaterd cannot start
    MaxCuts,          \* bound: power cycles nobody's script asked for
    MaxByHand         \* bound: rescues started at a console

ASSUME RescueAssumption ==
    /\ Tree \in Components /\ Dead \subseteq Versions
    /\ MaxCuts \in Nat /\ MaxByHand \in Nat

VARIABLES
    script,    \* the running robot-rescue: its stage, its target, whether it reboots
    due,       \* the boot check of this boot has not run yet
    tried,     \* history: golden was swapped in since the breadcrumb was written
    rescues,   \* history: swaps by the rescue while updaterd stayed down
    held,      \* history: rescued while updaterd stayed down, no client request since
    cuts,      \* power cycles so far
    byHand     \* rescues at a console so far

rescueVars == <<script, due, tried, rescues, held, cuts, byHand>>
netVars    == <<vars, rescueVars>>

NoScript == [stage |-> "idle", to |-> None, reboot |-> FALSE]
Scripts  == [stage : {"guarded", "recorded", "swapped"}, to : Versions, reboot : BOOLEAN]

NetTypeOK ==
    /\ TypeOK
    /\ script \in Scripts \cup {NoScript}
    /\ due \in BOOLEAN /\ tried \in BOOLEAN /\ held \in BOOLEAN
    /\ rescues \in Nat /\ cuts \in Nat /\ byHand \in Nat

NetInit ==
    /\ Init
    /\ script = NoScript
    /\ due = TRUE
    /\ tried = FALSE /\ rescues = 0 /\ held = FALSE
    /\ cuts = 0 /\ byHand = 0

-----------------------------------------------------------------------------
(* updaterd under systemd: ExecStart goes through `current`. *)

Bootable == current[Tree] \in installed[Tree] \ Dead

Starting == daemon = "down" /\ daemon' = "starting"

UpdaterStep ==
    /\ Client \/ Engine \/ Kill
    /\ Starting => Bootable
    /\ rescues' = IF Starting THEN 0 ELSE rescues
    /\ held' = (held /\ asked' = asked)
    /\ UNCHANGED <<script, due, tried, cuts, byHand>>

\* Power goes, or someone reboots: every process stops, the disk stays.
Reboot ==
    /\ daemon' = "down" /\ op' = NoOp /\ todo' = {}
    /\ script' = NoScript
    /\ due' = TRUE
    /\ UNCHANGED <<disk, trialled, bound, tried, rescues, held, byHand>>

PowerCycle ==
    /\ cuts < MaxCuts
    /\ cuts' = cuts + 1
    /\ Reboot

-----------------------------------------------------------------------------
(* robot-rescue *)

\* Variant of Declines: a board already on golden is not seen, nor a record.
DeclinesNever(force) ==
    golden[Tree] = None \/ golden[Tree] \notin installed[Tree]

\* A rescue on record (unless forced), no golden to go to, or already on it.
Declines(force) ==
    \/ crumb # NoCrumb /\ ~force
    \/ golden[Tree] = None \/ golden[Tree] \notin installed[Tree]
    \/ current[Tree] = golden[Tree]

Rescue(force, reboot) ==
    /\ script = NoScript /\ ~Declines(force)
    /\ script' = [stage |-> "guarded", to |-> golden[Tree], reboot |-> reboot]

\* Three minutes after boot.  A member of the set failed for certain while updaterd
\* cannot start; robotd, configd or btd may have failed whatever updaterd does, and
\* an updaterd that is only waiting to be restarted has not.
BootCheck ==
    /\ due /\ due' = FALSE
    /\ \/ Rescue(FALSE, TRUE)
       \/ Declines(FALSE) /\ UNCHANGED script
       \/ (daemon # "down" \/ Bootable) /\ UNCHANGED script
    /\ UNCHANGED <<vars, tried, rescues, held, cuts, byHand>>

RescueByHand == \E force, reboot \in BOOLEAN :
    /\ byHand < MaxByHand /\ byHand' = byHand + 1
    /\ Rescue(force, reboot)
    /\ UNCHANGED <<vars, due, tried, rescues, held, cuts>>

\* The breadcrumb before the swap.
WriteBreadcrumb ==
    /\ script.stage = "guarded"
    /\ crumb' = [comp |-> Tree, to |-> script.to]
    /\ tried' = FALSE
    /\ script' = [script EXCEPT !.stage = "recorded"]
    /\ UNCHANGED <<installed, current, golden, pending, logged, daemon, todo, op, trialled,
                   bound, due, rescues, held, cuts, byHand>>

\* Variant of SwapToGolden: the new link lands inside the release `current` names.
SwapInside ==
    /\ script.stage = "recorded"
    /\ script' = [script EXCEPT !.stage = "swapped"]
    /\ UNCHANGED <<vars, due, tried, rescues, held, cuts, byHand>>

\* Variant of SwapToGolden: the newest release that updaterd installed is taken instead.
SwapToNewest ==
    /\ script.stage = "recorded"
    /\ \E v \in installed[Tree] :
           /\ \A w \in installed[Tree] : w <= v
           /\ current' = [current EXCEPT ![Tree] = v]
    /\ script' = [script EXCEPT !.stage = "swapped"]
    /\ tried' = TRUE
    /\ held' = (daemon = "down" /\ crumb # NoCrumb)
    /\ rescues' = IF daemon = "down" THEN rescues + 1 ELSE 0
    /\ UNCHANGED <<installed, golden, pending, logged, crumb, daemon, todo, op, trialled,
                   bound, due, cuts, byHand>>

SwapToGolden ==
    /\ script.stage = "recorded"
    /\ current' = [current EXCEPT ![Tree] = script.to]
    /\ script' = [script EXCEPT !.stage = "swapped"]
    /\ tried' = TRUE
    /\ held' = (daemon = "down" /\ crumb # NoCrumb)
    /\ rescues' = IF daemon = "down" THEN rescues + 1 ELSE 0
    /\ UNCHANGED <<installed, golden, pending, logged, crumb, daemon, todo, op, trialled,
                   bound, due, cuts, byHand>>

RescueReboots ==
    /\ script.stage = "swapped" /\ script.reboot
    /\ Reboot
    /\ UNCHANGED cuts

RescueExits ==
    /\ script.stage = "swapped" /\ ~script.reboot
    /\ script' = NoScript
    /\ UNCHANGED <<vars, due, tried, rescues, held, cuts, byHand>>

Script == WriteBreadcrumb \/ SwapToGolden \/ RescueReboots \/ RescueExits

-----------------------------------------------------------------------------
NetNext == UpdaterStep \/ PowerCycle \/ BootCheck \/ RescueByHand \/ Script

NetSpec == NetInit /\ [][NetNext]_netVars

\* The timer fires on every boot and a shell script runs to its end; updaterd is
\* restarted by systemd as long as it can start.
FairNetSpec ==
    /\ NetSpec
    /\ WF_netVars(UpdaterStep /\ Engine)
    /\ WF_netVars(BootCheck)
    /\ WF_netVars(Script)

-----------------------------------------------------------------------------
(* Properties.                                                             *)

\* The rescue does not swap and reboot twice on its own while updaterd stays down:
\* no loop of reboots (robot-rescue, the loop guard).
RescuedOnce == rescues <= 1

\* A rescue sticks: until a client asks for something, no kill, boot, recovery or
\* second rescue moves `current` off the release it chose (record_rescue, which
\* clears the trial the rescue superseded before recovery looks at it).
RescueSticks == [][held => current'[Tree] = current[Tree]]_netVars

\* A breadcrumb says that golden was tried, or is about to be (robot-rescue: golden did
\* not fix it, and swapping again would only reboot the robot a second time).
BreadcrumbMeansTried == crumb # NoCrumb => tried \/ script.stage = "recorded"

\* Only power that goes between the record and the swap leaves a breadcrumb of a rescue
\* that never happened; no kill, error, operation or second rescue does.
OnlyACutMakesItLie == [][
    BreadcrumbMeansTried /\ ~BreadcrumbMeansTried'
    => PowerCycle /\ script.stage = "recorded"]_netVars

\* A board that boots a release which cannot start updaterd is taken off it by the
\* boot check, if golden is published and no rescue is on record; unless power went
\* between the record and the swap, which shuts the loop guard on a rescue that never
\* happened (robot-rescue:111).
DeadReleaseReplaced ==
    /\ due /\ daemon = "down" /\ current[Tree] \in Dead
    /\ ~Declines(FALSE) /\ golden[Tree] \notin Dead
    ~> current[Tree] \notin Dead \/ (cuts > 0 /\ ~BreadcrumbMeansTried)

\* The engine and the scripts together implement the protocol with rescues in it: the
\* link moves under a record, as TrialProtocol says, or to golden (robot-rescue).
RescuedProtocol == INSTANCE RescueProtocol WITH
    live  <- current,
    trial <- [c \in Components |->
                [new |-> pending[c].version, old |-> pending[c].previous]]

ImplementsRescueProtocol == RescuedProtocol!RescueSpec
=============================================================================
