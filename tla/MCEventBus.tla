----------------------------- MODULE MCEventBus ------------------------------
(* Small instances of EventBus for TLC.                                      *)
EXTENDS EventBus

MCOldest1 == [max |-> 1, policy |-> "drop_oldest"]
MCOldest2 == [max |-> 2, policy |-> "drop_oldest"]
MCNew1 == [max |-> 1, policy |-> "drop_new"]
MCNew2 == [max |-> 2, policy |-> "drop_new"]

MCNews == {MCNew1, MCNew2}
MCBoth == {MCNew2, MCOldest1}
=============================================================================
