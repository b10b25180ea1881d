------------------------------ MODULE Scenario ------------------------------
(***************************************************************************)
(* What a contest scenario promises its author, with no ticker, lock,      *)
(* query or storage: the sequences are matched one by one in the order of  *)
(* the design, a condition is looked for only when the action of the one   *)
(* before has succeeded, and the run is green only when every condition    *)
(* was matched and every action has succeeded.                             *)
(***************************************************************************)
EXTENDS Naturals

CONSTANT N              \* number of sequences

VARIABLES matched,      \* conditions matched so far
          ran,          \* actions that succeeded so far
          outcome       \* "running", "ok", "error" or "stopped"

vars == <<matched, ran, outcome>>

Init == matched = 0 /\ ran = 0 /\ outcome = "running"

Match == /\ outcome = "running" /\ ran = matched /\ matched < N
         /\ matched' = matched + 1
         /\ UNCHANGED <<ran, outcome>>

RunAction == /\ outcome = "running" /\ ran < matched
             /\ ran' = matched
             /\ UNCHANGED <<matched, outcome>>

Finish == /\ outcome = "running" /\ matched = N /\ ran = N
          /\ outcome' = "ok"
          /\ UNCHANGED <<matched, ran>>

Abort == /\ outcome = "running"
         /\ outcome' \in {"error", "stopped"}
         /\ UNCHANGED <<matched, ran>>

Next == Match \/ RunAction \/ Finish \/ Abort

Spec == Init /\ [][Next]_vars
=============================================================================
