----------------------------- MODULE MCLogSaver -----------------------------
(* Instances of LogSaver for TLC: node n0 prints a line and an error, node n1 *)
(* an error, and the tool itself writes a line.                               *)
EXTENDS LogSaver

MCEntries == {"out0", "err0", "err1", "tool"}
MCNames   == {"n0", "n1", "contest"}
MCNameOf  == [e \in MCEntries |->
                 IF e \in {"out0", "err0"} THEN "n0"
                 ELSE IF e = "err1" THEN "n1" ELSE "contest"]
MCErrors  == {"err0", "err1"}
OneMalformed == {"out0"}
=============================================================================
