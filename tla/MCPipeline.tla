----------------------------- MODULE MCPipeline -----------------------------
(* An instance of Pipeline for TLC: when the contest is ready a node is       *)
(* started, a block has it started again if it has ended, which opens a       *)
(* second tail of its file, and then a later block is awaited.                *)
EXTENDS Pipeline

MCNodes    == {"n0"}
MCLineKind == [n \in MCNodes |-> <<"block", "block">>]
MCKinds    == {"event", "block"}
MCRegisters == {"last_match"}
MCKindOf    == <<"event", "block", "block">>
MCAfterReg  == <<"none", "none", "last_match">>
MCToReg     == <<"none", "none", "none">>
MCActionNode == <<"n0", "n0", "none">>
NeverJoins == {FALSE}
=============================================================================
