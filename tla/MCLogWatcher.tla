---------------------------- MODULE MCLogWatcher ----------------------------
(* Instances of LogWatcher for TLC.  The scenario waits for the contest to be *)
(* ready, keeps a block that comes later, keeps a block that comes after that *)
(* one in the same register, and at last looks in the storage of a node.      *)
EXTENDS LogWatcher

MCStorages  == {"contest", "node"}
MCKinds     == {"ready", "block"}
MCRegisters == {"last_match", "r"}
MCStorageOf == <<"contest", "contest", "contest", "node">>
MCKindOf    == <<"ready", "block", "block", "block">>
MCAfterReg  == <<"none", "last_match", "r", "none">>
MCToReg     == <<"r", "r", "none", "none">>
MCWithAction == {1, 2}
EitherJoins  == {TRUE, FALSE}
=============================================================================
