-------------------------- MODULE MCBootRecovery --------------------------
(* One component with release 1 from the factory, golden and good, and a     *)
(* release 3 whose updaterd cannot start.                                    *)
EXTENDS BootRecovery

One == [c \in Components |-> 1]
=============================================================================
