---------------------------- MODULE DaemonsProofs ----------------------------
(***************************************************************************)
(* What holds of the daemons side by side.  Each proof module speaks of a  *)
(* specification of its own; here a step of any one daemon is a step of it *)
(* and a stutter of the other seven, so that a behaviour of MCDaemons is a *)
(* behaviour of each specification, and every safety property is one of    *)
(* the whole.                                                              *)
(***************************************************************************)
EXTENDS MCDaemons, UpdaterdProofs, RadioProofs, ConfigdProofs

LEMMA ServerPart == DaemonsNext \/ UNCHANGED daemonVars => [ServerNext]_serverVars
BY DEF DaemonsNext, daemonVars, Server, Ble, Choir, Units, Store, Pad, Wifi, Pairing

LEMMA BlePart == DaemonsNext \/ UNCHANGED daemonVars => [BleNext]_bleVars
BY DEF DaemonsNext, daemonVars, Server, Ble, Choir, Units, Store, Pad, Wifi, Pairing

LEMMA ChoralePart == DaemonsNext \/ UNCHANGED daemonVars => [ChoraleNext]_choraleVars
BY DEF DaemonsNext, daemonVars, Server, Ble, Choir, Units, Store, Pad, Wifi, Pairing

LEMMA UnitPart == DaemonsNext \/ UNCHANGED daemonVars => [UnitNext]_unitVars
BY DEF DaemonsNext, daemonVars, Server, Ble, Choir, Units, Store, Pad, Wifi, Pairing

LEMMA StorePart == DaemonsNext \/ UNCHANGED daemonVars => [StoreNext]_storeVars
BY DEF DaemonsNext, daemonVars, Server, Ble, Choir, Units, Store, Pad, Wifi, Pairing

LEMMA PadPart == DaemonsNext \/ UNCHANGED daemonVars => [PadNext]_padVars
BY DEF DaemonsNext, daemonVars, Server, Ble, Choir, Units, Store, Pad, Wifi, Pairing

LEMMA WifiPart == DaemonsNext \/ UNCHANGED daemonVars => [WifiNext]_wifiVars
BY DEF DaemonsNext, daemonVars, Server, Ble, Choir, Units, Store, Pad, Wifi, Pairing

LEMMA PairingPart == DaemonsNext \/ UNCHANGED daemonVars => [PairingNext]_pairingVars
BY DEF DaemonsNext, daemonVars, Server, Ble, Choir, Units, Store, Pad, Wifi, Pairing

\* A behaviour of the daemons together is one of each of them: none reads or writes
\* what another keeps.
THEOREM DaemonsAreApart ==
    DaemonsSpec => /\ ServerSpec /\ BleSpec /\ ChoraleSpec /\ UnitSpec
                   /\ StoreSpec /\ PadSpec /\ WifiSpec /\ PairingSpec
<1>1. DaemonsInit => /\ ServerInit /\ BleInit /\ ChoraleInit /\ UnitInit
                     /\ StoreInit /\ PadInit /\ WifiInit /\ PairingInit
    BY DEF DaemonsInit
<1>2. [DaemonsNext]_daemonVars =>
          /\ [ServerNext]_serverVars /\ [BleNext]_bleVars
          /\ [ChoraleNext]_choraleVars /\ [UnitNext]_unitVars
          /\ [StoreNext]_storeVars /\ [PadNext]_padVars
          /\ [WifiNext]_wifiVars /\ [PairingNext]_pairingVars
    BY ServerPart, BlePart, ChoralePart, UnitPart, StorePart, PadPart, WifiPart, PairingPart
<1> QED BY <1>1, <1>2, PTL DEF DaemonsSpec, ServerSpec, BleSpec, ChoraleSpec, UnitSpec,
                              StoreSpec, PadSpec, WifiSpec, PairingSpec

\* The types of every variable of every daemon (DaemonsTypeOK), for every value of the
\* constants of all eight.
THEOREM DaemonsType == DaemonsSpec => []DaemonsTypeOK
<1> QED BY DaemonsAreApart, ServerType, BleType, ChoraleType, UnitType, StoreType, PadType,
           WifiType, PairingType, PTL DEF DaemonsTypeOK

\* Every state property that the run checks of one daemon holds of the daemons together.
THEOREM DaemonsKeepTheirWord ==
    DaemonsSpec => [](/\ SubscriberIsCurrent /\ NoGarbledLine /\ SlotIsNewest /\ InStep
                      /\ StaleIsExcused /\ AnsweredIsKept /\ StillWhilePosed
                      /\ JoinAnswersTrue /\ OneProfile /\ BondedIsTrusted)
<1> QED BY DaemonsAreApart, SubscriberKnowsTheNewest, LinesStayWhole, SlotStaysWithNewest,
           FollowersAreInStep, RobotRunsTheActive, StoreAnsweredIsKept, PadStillWhilePosed,
           JoinsAnswerTruly, ProfilesAreAnswered, PairedIsTrusted, PTL

\* And every property of steps: no release known to be bad goes in unattended, and no
\* taps are taken for a hold.
THEOREM DaemonsStepByStep == DaemonsSpec => UnattendedNotKnownBad /\ HeldNotTapped
<1> QED BY DaemonsAreApart, UnattendedIsNotKnownBad, PadHeldNotTapped
=============================================================================
