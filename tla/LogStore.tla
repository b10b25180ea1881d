------------------------------ MODULE LogStore ------------------------------
(***************************************************************************)
(* What the log saver of `contest` promises to the rest of the tool, with  *)
(* no channel, ticker, batch or retry: log entries are accepted one by     *)
(* one, the entries to be found in the database are always an initial      *)
(* segment of the accepted ones, and the run is told of an error line of a *)
(* node only once that line can be found in the database.                  *)
(***************************************************************************)
EXTENDS Naturals, Sequences

CONSTANTS Entries,      (* log entries, each one an occurrence of a line      *)
          NodeErrors    (* the ones that a node printed on its stderr         *)

VARIABLES log,          (* the accepted entries, in order of acceptance       *)
          stored,       (* the set of entries to be found in the database     *)
          reported      (* the error lines the run was told of                *)

vars == <<log, stored, reported>>

\* The first k accepted entries.
Initial(k) == {log[i] : i \in 1..k}

Init == log = <<>> /\ stored = {} /\ reported = {}

Accept(e) == /\ log' = Append(log, e)
             /\ UNCHANGED <<stored, reported>>

Store == \E k \in 0..Len(log) :
            /\ stored \subseteq Initial(k)
            /\ stored' = Initial(k)
            /\ UNCHANGED <<log, reported>>

Report(e) == /\ e \in stored \cap NodeErrors
             /\ reported' = reported \cup {e}
             /\ UNCHANGED <<log, stored>>

Next == \/ \E e \in Entries : Accept(e) \/ Report(e)
        \/ Store

Spec == Init /\ [][Next]_vars
=============================================================================
