---------------------------- MODULE MCStateFiles ----------------------------
(***************************************************************************)
(* The two files updaterd keeps beside the releases, in one run: a         *)
(* behaviour is one of pending.json or one of the update log, with the     *)
(* other at rest, as neither's code reads or writes the other's file.      *)
(***************************************************************************)
EXTENDS BootCounter, UpdateLog

VARIABLE which  \* the file that is worked on

stateVars == <<which, counterVars, logVars>>

StateInit == which \in {"pending", "log"} /\ CounterInit /\ LogInit

Counter == which = "pending" /\ CounterNext /\ UNCHANGED <<which, logVars>>
Log     == which = "log" /\ LogNext /\ UNCHANGED <<which, counterVars>>

StateNext == Counter \/ Log

StateSpec == StateInit /\ [][StateNext]_stateVars
=============================================================================
