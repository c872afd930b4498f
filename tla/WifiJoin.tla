------------------------------ MODULE WifiJoin ------------------------------
(***************************************************************************)
(* configd joins Wi-Fi networks through NetworkManager (configd/src/       *)
(* nm.rs).  A join looks for the network, deletes the profiles the robot   *)
(* has for it, adds one and activates it, and watches that activation      *)
(* until it is up, dead or overdue; a join that fails takes its profile    *)
(* out again.  Every connection to configd may join and forget, and        *)
(* nothing makes them wait for one another.                                *)
(*                                                                         *)
(* NetworkManager has one Wi-Fi device, which activates one profile at a   *)
(* time, joins by itself whatever it has a profile for, and signals why an *)
(* activation failed.                                                      *)
(***************************************************************************)
EXTENDS Naturals, FiniteSets

CONSTANTS
    Joiners,    \* connections to configd
    Ssids,      \* networks
    MaxJoins,   \* bound: joins and forgets
    MaxJoinFaults   \* bound: D-Bus calls that fail, and restarts of configd

Ids   == 0..MaxJoins     \* joins, and the profiles they added
NM    == 0               \* what NetworkManager begins by itself
NoNet == MaxJoins + 1
NoReason == [why |-> "none", whose |-> NM]
Other    == [why |-> "other", whose |-> NM]

ASSUME WifiBounds == {MaxJoins, MaxJoinFaults} \subseteq Nat
ASSUME SomeNet    == Ssids # {}   \* the one the robot knows at the start

VARIABLES
    saved,    \* the profiles: for which network, and whether the key is right
    device,   \* the profile it activates, the join that asked for it, and whether it is up
    reason,   \* the device's StateReason, and whose activation it was about
    join,     \* the call of each connection
    untrue,   \* history: answers that were not so
    last,     \* history: the last answer about each network
    unsettled,  \* history: networks whose profiles are not what the last answer says
    joins, joinFaults   \* how many so far

nmVars   == <<saved, device, reason>>
wifiVars == <<nmVars, join, untrue, last, unsettled, joins, joinFaults>>

Profile == [id: Ids, ssid: Ssids, right: BOOLEAN]
Reason  == [why: {"none", "key", "other"}, whose: Ids]
OffAir    == [on |-> NoNet, by |-> NM, up |-> FALSE]
AtRest  == [step |-> "rest", ssid |-> CHOOSE s \in Ssids : TRUE, right |-> FALSE, id |-> 0,
            todo |-> {}, forgets |-> FALSE, heard |-> NoReason, joined |-> FALSE]

WifiTypeOK ==
    /\ saved \subseteq Profile
    /\ device \in [on: Ids \cup {NoNet}, by: Ids, up: BOOLEAN]
    /\ reason \in Reason
    /\ join \in [Joiners -> [step: {"rest", "list", "delete", "watch"},
                             ssid: Ssids, right: BOOLEAN, id: Ids, todo: SUBSET Ids,
                             forgets: BOOLEAN, heard: Reason, joined: BOOLEAN]]
    /\ untrue \subseteq {"connected", "badkey"}
    /\ last \in [Ssids -> {"connected", "failed"}] /\ unsettled \subseteq Ssids
    /\ joins \in 0..MaxJoins /\ joinFaults \in 0..MaxJoinFaults

\* A robot that knows one network, and is not on it yet.
WifiInit ==
    /\ saved = {[id |-> 0, ssid |-> AtRest.ssid, right |-> TRUE]}
    /\ last = [s \in Ssids |-> IF s = AtRest.ssid THEN "connected" ELSE "failed"]
    /\ device = OffAir /\ reason = NoReason
    /\ join = [c \in Joiners |-> AtRest] /\ untrue = {}
    /\ unsettled = {}
    /\ joins = 0 /\ joinFaults = 0

----------------------------------------------------------------------------
(* NetworkManager.                                                          *)

RightKey(id) == \E p \in saved : p.id = id /\ p.right

\* An idle device takes up any profile it has.
Autoconnects ==
    /\ device = OffAir
    /\ \E p \in saved : device' = [on |-> p.id, by |-> NM, up |-> FALSE]
    /\ reason' = NoReason
    /\ UNCHANGED <<saved, join, untrue, last, unsettled, joins, joinFaults>>

Associates ==
    /\ device # OffAir /\ ~device.up /\ RightKey(device.on)
    /\ device' = [device EXCEPT !.up = TRUE]
    /\ join' = [c \in Joiners |->
                   [join[c] EXCEPT !.joined = @ \/ (device.by = join[c].id /\ join[c].step = "watch")]]
    /\ UNCHANGED <<saved, reason, untrue, last, unsettled, joins, joinFaults>>

\* The device drops what it is on.  A wrong key is a reason of its own, and to the calls
\* the others are all one; a join in progress hears it before it looks, or after, or finds
\* it in the property, where it may have been cleared.
Drops ==
    /\ device # OffAir /\ device' = OffAir
    /\ \E why \in IF device.up \/ RightKey(device.on) THEN {"other"} ELSE {"key", "other"},
          hear \in SUBSET {c \in Joiners : join[c].step = "watch"} :
           LET r == [why |-> why, whose |-> IF why = "key" THEN device.by ELSE NM] IN
           /\ reason' \in {r, NoReason} \ {Other}
           /\ join' = [c \in Joiners |-> IF c \in hear THEN [join[c] EXCEPT !.heard = r]
                                         ELSE join[c]]
    /\ UNCHANGED <<saved, untrue, last, unsettled, joins, joinFaults>>

\* Deleting a profile takes it from the device.
WithoutNet(ids) ==
    /\ saved' = {p \in saved : p.id \notin ids}
    /\ IF device.on \in ids THEN device' = OffAir /\ reason' = NoReason
       ELSE UNCHANGED <<device, reason>>

----------------------------------------------------------------------------
(* Calls.                                                                   *)

JoinFault == joinFaults < MaxJoinFaults /\ joinFaults' = joinFaults + 1

\* Others that are about the same network.
Beside(c) == {d \in Joiners \ {c} : join[d].step # "rest" /\ join[d].ssid = join[c].ssid}

\* A network that the radio does not see, or that wants what the call has not got, is
\* refused before anything is changed, and that is all.
JoinAsks(c) ==
    /\ join[c].step = "rest" /\ joins < MaxJoins /\ joins' = joins + 1
    /\ \E s \in Ssids, right \in BOOLEAN, forgets \in BOOLEAN :
           join' = [join EXCEPT ![c] = [AtRest EXCEPT
               !.step = "list", !.ssid = s, !.id = joins', !.right = right /\ ~forgets,
               !.forgets = forgets]]
    /\ UNCHANGED <<nmVars, untrue, last, unsettled, joinFaults>>

JoinAnswers(c, result, another) ==
    /\ join' = [join EXCEPT ![c] = AtRest]
    /\ untrue' = untrue \cup
           (IF \/ result = "connected" /\ ~join[c].joined
               \/ result = "badkey" /\ join[c].right /\ ~another
            THEN {result} ELSE {})

\* What the answer says of the profiles of its network, unless others are at them too.
JoinSettles(c, result, faulty) ==
    LET s == join[c].ssid IN
    /\ last' = [last EXCEPT ![s] = result]
    /\ unsettled' = IF faulty \/ Beside(c) # {} THEN unsettled \cup {s} ELSE unsettled

\* saved_connections: every profile of the network.
Lists(c) ==
    /\ join[c].step = "list"
    /\ join' = [join EXCEPT ![c].step = "delete",
                            ![c].todo = {p.id : p \in {q \in saved : q.ssid = join[c].ssid}}]
    /\ unsettled' = IF Beside(c) = {} THEN unsettled \ {join[c].ssid}
                  ELSE unsettled \cup {join[c].ssid}
    /\ UNCHANGED <<nmVars, untrue, last, joins, joinFaults>>

\* delete_saved: one after the other.
Deletes(c) ==
    /\ join[c].step = "delete"
    /\ \E id \in join[c].todo \cap {p.id : p \in saved} :
           WithoutNet({id}) /\ join' = [join EXCEPT ![c].todo = @ \ {id}]
    /\ UNCHANGED <<untrue, last, unsettled, joins, joinFaults>>

\* A profile that is gone, or not let go, ends it: a join goes on with what is left.
DeleteFails(c) ==
    /\ join[c].step = "delete" /\ join[c].todo # {}
    /\ \/ JoinFault
       \/ join[c].todo \cap {p.id : p \in saved} = {} /\ UNCHANGED joinFaults
    /\ unsettled' = unsettled \cup {join[c].ssid}
    /\ IF join[c].forgets THEN JoinAnswers(c, "error", FALSE)
       ELSE join' = [join EXCEPT ![c].todo = {}] /\ UNCHANGED untrue
    /\ UNCHANGED <<nmVars, last, joins>>

Deleted(c) == join[c].step = "delete" /\ join[c].todo = {}

Forgets(c) ==
    /\ Deleted(c) /\ join[c].forgets
    /\ JoinAnswers(c, "forgotten", FALSE) /\ JoinSettles(c, "failed", FALSE)
    /\ UNCHANGED <<nmVars, joins, joinFaults>>

\* AddAndActivateConnection: the device turns to the new profile, or the activation fails
\* beside what the device is on.
Adds(c) ==
    /\ Deleted(c) /\ ~join[c].forgets
    /\ saved' = saved \cup {[id |-> join[c].id, ssid |-> join[c].ssid, right |-> join[c].right]}
    /\ join' = [join EXCEPT ![c].step = "watch"]
    /\ \/ device' = [on |-> join[c].id, by |-> join[c].id, up |-> FALSE] /\ reason' = NoReason
       \/ UNCHANGED <<device, reason>>
    /\ UNCHANGED <<untrue, last, unsettled, joins, joinFaults>>

AddFails(c) ==
    /\ Deleted(c) /\ ~join[c].forgets /\ JoinFault
    /\ JoinAnswers(c, "failed", FALSE) /\ JoinSettles(c, "failed", FALSE)
    /\ UNCHANGED <<nmVars, joins>>

\* Variant of StateOf: it is the device that is watched.
StateOfDevice(c) ==
    IF device.up THEN "up" ELSE IF device.by = join[c].id THEN "starting" ELSE "dead"

\* The state of the activation this call started.
StateOf(c) ==
    IF device.by # join[c].id THEN "dead" ELSE IF device.up THEN "up" ELSE "starting"

\* It is up.  The address is asked for before the answer.
Connected(c) ==
    /\ join[c].step = "watch" /\ StateOf(c) = "up"
    /\ \/ JoinAnswers(c, "connected", FALSE) /\ JoinSettles(c, "connected", FALSE) /\ UNCHANGED joinFaults
       \/ JoinFault /\ JoinAnswers(c, "error", FALSE) /\ JoinSettles(c, "connected", FALSE)
    /\ device' = [device EXCEPT !.by = IF @ = join[c].id THEN NM ELSE @]
    /\ UNCHANGED <<saved, reason, joins>>

\* failure_of.
Failure(why) == IF why = "key" THEN "badkey" ELSE "failed"

\* Variant of TakesOut: the profile of a failed join stays.
TakesOutNothing(id) == UNCHANGED nmVars

TakesOut(id) == WithoutNet({id})

\* It is dead, cannot be read, or overdue: the reason that was heard, or else the device's.
\* The profile is taken out again, if it can be.
GivesUp(c) ==
    /\ join[c].step = "watch"
    /\ LET r == IF join[c].heard # NoReason THEN join[c].heard ELSE reason
           failed == JoinAnswers(c, Failure(r.why), r.why = "key" /\ r.whose # join[c].id)
           clean == TakesOut(join[c].id) /\ JoinSettles(c, "failed", FALSE) IN
       \/ StateOf(c) = "dead" /\ failed /\ clean /\ UNCHANGED joinFaults
       \/ JoinFault /\ failed /\ clean
       \/ StateOf(c) # "up" /\ JoinAnswers(c, "failed", FALSE) /\ clean /\ UNCHANGED joinFaults
       \/ /\ StateOf(c) # "up" /\ JoinFault /\ JoinAnswers(c, "failed", FALSE)
          /\ JoinSettles(c, "failed", TRUE) /\ UNCHANGED <<saved, reason>>
          /\ device' = [device EXCEPT !.by = IF @ = join[c].id THEN NM ELSE @]
    /\ UNCHANGED joins

\* configd is restarted, by an update say: the calls are gone, NetworkManager is not.
ConfigdKilled ==
    /\ JoinFault
    /\ unsettled' = unsettled \cup {join[c].ssid : c \in {d \in Joiners : join[d].step # "rest"}}
    /\ join' = [c \in Joiners |-> AtRest]
    /\ device' = [device EXCEPT !.by = NM]
    /\ UNCHANGED <<saved, reason, untrue, last, joins>>

----------------------------------------------------------------------------
WifiNext ==
    \/ Autoconnects \/ Associates \/ Drops \/ ConfigdKilled
    \/ \E c \in Joiners :
           \/ JoinAsks(c) \/ Lists(c) \/ Deletes(c) \/ DeleteFails(c) \/ Forgets(c)
           \/ Adds(c) \/ AddFails(c) \/ Connected(c) \/ GivesUp(c)

WifiSpec == WifiInit /\ [][WifiNext]_wifiVars

----------------------------------------------------------------------------
(* Properties. *)

\* A join answers `connected` only if its own activation came up, whatever network the
\* device was on meanwhile; and says the key was wrong only of a key that was, unless the
\* reason it saw was another activation's (nm.rs:693-706, 719-730, 757-770).
JoinAnswersTrue == untrue = {}

\* Between calls a network has one profile, with a key that works, if the last answer
\* was that it is joined, and none if it was that it is not, so that the robot never
\* joins with an old key later; unless a profile could not be deleted, configd was
\* restarted in the middle, or two calls were about that network at once
\* (nm.rs:604-630, 746-756).
OneProfile ==
    \A s \in Ssids \ unsettled :
        (\A c \in Joiners : join[c].step = "rest" \/ join[c].ssid # s) =>
            LET mine == {p \in saved : p.ssid = s} IN
            IF last[s] = "connected" THEN \E p \in mine : mine = {p} /\ p.right
            ELSE mine = {}
=============================================================================
