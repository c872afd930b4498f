----------------------------- MODULE MCUpdater -----------------------------
(***************************************************************************)
(* Instances of Updater for TLC.  Component 1 is the daemon: release 1     *)
(* installed at the factory and golden.  Component 2, where there is one,  *)
(* is the model: nothing installed yet, no golden, no socket to ask.       *)
(***************************************************************************)
EXTENDS Updater

DaemonGolden  == [c \in Components |-> IF c = 1 THEN 1 ELSE None]
DaemonFactory == [c \in Components |-> IF c = 1 THEN 1 ELSE None]
KeepOne       == [c \in Components |-> 1]
=============================================================================
