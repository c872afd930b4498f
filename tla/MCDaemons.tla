------------------------------ MODULE MCDaemons ------------------------------
(***************************************************************************)
(* The daemons and protocols that share no modelled state, side by side in *)
(* one run: a behaviour is a behaviour of one of them, chosen at its       *)
(* start, with the others at rest.  As none reads or writes what another   *)
(* does, what holds of each of them here holds of all of them together.    *)
(***************************************************************************)
EXTENDS UpdaterServer, BleTransport, Chorale, UnitRestarts, ConfigStore, PadDrive,
        WifiJoin, PadPairing

VARIABLE which  \* the one that runs

daemonVars == <<which, serverVars, bleVars, choraleVars, unitVars, storeVars, padVars,
                wifiVars, pairingVars>>

MCScripts == {<<"pin", "operation", "query">>}
\* Duck 1 does not hear 2, so both may conduct, and 3 hears both.
MCRange   == {<<1, 3>>, <<2, 1>>, <<2, 3>>, <<3, 1>>, <<3, 2>>}
MCKnows   == <<{1, 3}, {2}, {1, 2}>>

DaemonsInit ==
    /\ which \in {"server", "ble", "chorale", "units", "store", "pad", "wifi", "pairing"}
    /\ ServerInit /\ BleInit /\ ChoraleInit /\ UnitInit /\ StoreInit /\ PadInit
    /\ WifiInit /\ PairingInit

Server == which = "server" /\ ServerNext
    /\ UNCHANGED <<which, bleVars, choraleVars, unitVars, storeVars,
                   padVars, wifiVars, pairingVars>>
Ble == which = "ble" /\ BleNext
    /\ UNCHANGED <<which, serverVars, choraleVars, unitVars, storeVars,
                   padVars, wifiVars, pairingVars>>
Choir == which = "chorale" /\ ChoraleNext
    /\ UNCHANGED <<which, serverVars, bleVars, unitVars, storeVars,
                   padVars, wifiVars, pairingVars>>
Units == which = "units" /\ UnitNext
    /\ UNCHANGED <<which, serverVars, bleVars, choraleVars, storeVars,
                   padVars, wifiVars, pairingVars>>
Store == which = "store" /\ StoreNext
    /\ UNCHANGED <<which, serverVars, bleVars, choraleVars, unitVars,
                   padVars, wifiVars, pairingVars>>
Pad == which = "pad" /\ PadNext
    /\ UNCHANGED <<which, serverVars, bleVars, choraleVars, unitVars,
                   storeVars, wifiVars, pairingVars>>
Wifi == which = "wifi" /\ WifiNext
    /\ UNCHANGED <<which, serverVars, bleVars, choraleVars, unitVars,
                   storeVars, padVars, pairingVars>>
Pairing == which = "pairing" /\ PairingNext
    /\ UNCHANGED <<which, serverVars, bleVars, choraleVars, unitVars,
                   storeVars, padVars, wifiVars>>

\* What each process is sure to do.  Clients, centrals, ducks and drivers are sure of
\* nothing, and neither are operations that a service carries out for a central.
Fairness ==
    /\ \A c \in Conns : WF_serverVars(which = "server" /\ Serves(c))
    /\ WF_serverVars(which = "server" /\ PumpRemembers)
    /\ WF_serverVars(which = "server" /\ PumpSends)
    /\ WF_serverVars(which = "server" /\ OpStep)
    /\ WF_serverVars(which = "server" /\ OpEnds)
    /\ \A s \in Sessions : WF_bleVars(which = "ble" /\ SessionSteps(s))
    /\ \A s \in Sessions : WF_bleVars(which = "ble" /\ PumpSteps(s))
    /\ \A s \in Sessions, l \in Lanes : WF_bleVars(which = "ble" /\ QueryAnswers(s, l))
    /\ WF_padVars(which = "pad" /\ Receive)
    /\ WF_padVars(which = "pad" /\ LoopTick)
    /\ WF_padVars(which = "pad" /\ Wait)

DaemonsNext == Server \/ Ble \/ Choir \/ Units \/ Store \/ Pad \/ Wifi \/ Pairing

DaemonsSpec ==
    /\ DaemonsInit
    /\ [][DaemonsNext]_daemonVars
    /\ Fairness

\* Every variable of every daemon has its type.
DaemonsTypeOK ==
    ServerTypeOK /\ BleTypeOK /\ ChoraleTypeOK /\ UnitTypeOK /\ StoreTypeOK /\ PadTypeOK
        /\ WifiTypeOK /\ PairingTypeOK
=============================================================================
