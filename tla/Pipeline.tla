------------------------------ MODULE Pipeline ------------------------------
(***************************************************************************)
(* From a line that a node prints to the scenario that waits for it:       *)
(* LogSaver and LogWatcher over one collection, with what the actions of   *)
(* the scenario open in between.  A node writes to its log file; start-    *)
(* nodes starts its container and follows that file with a tail of its     *)
(* own, from its beginning (src/cmds/action.go:243); a tail sends its      *)
(* lines to the saver; the saver inserts them in the collection in which   *)
(* the watcher looks for the condition whose match runs the next action.   *)
(*                                                                         *)
(* An entry is <<node, number of the line, number of the tail>>.  Every    *)
(* action starts one node and every condition looks in the collection of   *)
(* the contest.  The reports of ended containers are left to NodeActions.  *)
(***************************************************************************)
EXTENDS Integers, SequencesExt

CONSTANTS Nodes,        (* aliases of nodes                                   *)
          Contest,      (* the alias of the tool's own line "contest ready"   *)
          LineKind,     (* the kinds of the lines a node prints, in order     *)
          ReadyKind,    (* the kind of that line                              *)
          Kinds,
          N, Registers, LastMatch, Nothing, KindOf, AfterReg, ToReg,
          ActionNode,   (* the node the action of a sequence starts, or       *)
                        (*   Nothing for a sequence without action            *)
          StopJoins, Capacity,
          MaxFaults,    (* bound on the faults of saver and watcher together  *)
          MaxBatch,     (* bound on the entries of a batch                    *)
          MaxLog        (* bound on the collection, never reached             *)

ASSUME PipelineAssumption ==
    /\ IsFiniteSet(Nodes) /\ Contest \notin Nodes
    /\ LineKind \in [Nodes -> Seq(Kinds)] /\ ReadyKind \in Kinds
    /\ ActionNode \in [1..N -> Nodes \cup {Nothing}] /\ Nothing \notin Nodes
    /\ N \in Nat \ {0}                    \* as in LogWatcher and LogSaver
    /\ LastMatch \in Registers /\ Nothing \notin Registers
    /\ KindOf \in [1..N -> Kinds]
    /\ AfterReg \in [1..N -> Registers \cup {Nothing}]
    /\ ToReg \in [1..N -> Registers \cup {Nothing}]
    /\ StopJoins \in (SUBSET BOOLEAN) \ {{}}
    /\ Capacity \in Nat \ {0} /\ MaxFaults \in Nat /\ MaxBatch \in Nat /\ MaxLog \in Nat

VARIABLES sent, entryChan, entries, updated, written, dropped, unsynced, db,
          reports, saverPc, saverStop, saverFaults,             (* LogSaver   *)
          cl, regs, compiled, pool, lock, watcherPc, err, verdict, cancelled,
          watcherStop, hit, ran, watcherFaults,                 (* LogWatcher *)
          printed,      (* how many lines are in the log file of a node       *)
          box,          (* its container: "none", "running" or "ended"        *)
          tails,        (* its tails: how many lines each has read            *)
          begun         (* the last sequence whose action has begun           *)

saverVars   == <<sent, entryChan, entries, updated, written, dropped, unsynced, db,
                 reports, saverPc, saverStop, saverFaults>>
watcherVars == <<cl, regs, compiled, pool, lock, watcherPc, err, verdict, cancelled,
                 watcherStop, hit, ran, watcherFaults>>
nodeVars    == <<printed, box, tails, begun>>
vars        == <<saverVars, watcherVars, nodeVars>>

Ready   == <<Contest, 1, 1>>
Entries == {Ready} \cup UNION {{n} \X (1..Len(LineKind[n])) \X (1..N) : n \in Nodes}

\* Every entry is inserted, and after each fault a batch again.
ASSUME MaxLogIsEnough == Cardinality(Entries) + MaxFaults * MaxBatch <= MaxLog

KindOfEntry(e) == IF e = Ready THEN ReadyKind ELSE LineKind[e[1]][e[2]]
Collection     == [i \in 1..Len(db) |-> KindOfEntry(db[i])]
Storages       == {"contest"}

Saver == INSTANCE LogSaver WITH
            Names <- Nodes \cup {Contest}, NameOf <- [e \in Entries |-> e[1]],
            Errors <- {}, Malformed <- {}, ExitOnError <- FALSE,
            pc <- saverPc, stop <- saverStop, faults <- saverFaults

Watcher == INSTANCE LogWatcher WITH
            StorageOf <- [i \in 1..N |-> "contest"],
            WithAction <- {i \in 1..N : ActionNode[i] # Nothing},
            log <- [s \in Storages |-> Collection],
            pc <- watcherPc, stop <- watcherStop, faults <- watcherFaults

Init == /\ Saver!Init
        /\ Watcher!Init
        /\ printed = [n \in Nodes |-> 0]
        /\ box = [n \in Nodes |-> "none"]
        /\ tails = [n \in Nodes |-> <<>>]
        /\ begun = 0
-----------------------------------------------------------------------------
(* The nodes and their tails.                                              *)

PrintLine(n) == /\ box[n] = "running" /\ printed[n] < Len(LineKind[n])
                /\ printed' = [printed EXCEPT ![n] = @ + 1]
                /\ UNCHANGED <<saverVars, watcherVars, box, tails, begun>>

NodeEnds(n) == /\ box[n] = "running"
               /\ box' = [box EXCEPT ![n] = "ended"]
               /\ UNCHANGED <<saverVars, watcherVars, printed, tails, begun>>

ContestReady == /\ Saver!Send(Ready)
                /\ UNCHANGED <<watcherVars, nodeVars>>

\* (A slip: a tail that does not follow, and stops with the container.)
ReadWhileRunning(n, t) ==
    /\ tails[n][t] < printed[n] /\ box[n] = "running"
    /\ Saver!Send(<<n, tails[n][t] + 1, t>>)
    /\ tails' = [tails EXCEPT ![n][t] = @ + 1]
    /\ UNCHANGED <<watcherVars, printed, box, begun>>

\* containerLogs: a tail sends the next line of the file; it blocks while the
\* channel is full.
Read(n, t) == /\ tails[n][t] < printed[n]
              /\ Saver!Send(<<n, tails[n][t] + 1, t>>)
              /\ tails' = [tails EXCEPT ![n][t] = @ + 1]
              /\ UNCHANGED <<watcherVars, printed, box, begun>>
-----------------------------------------------------------------------------
(* The saver and the watcher.                                              *)

SaverStep == /\ \/ Saver!Receive \/ Saver!Tick \/ Saver!Sync \/ Saver!CtxDone
                \/ Saver!FinalSave \/ Saver!FinalSync \/ Saver!StopClose
             /\ Len(entries') <= MaxBatch /\ saverFaults' + watcherFaults <= MaxFaults
             /\ UNCHANGED <<watcherVars, nodeVars>>

StopSaver == /\ Saver!StopCancel
             /\ UNCHANGED <<watcherVars, nodeVars>>

WatcherStep == /\ UNCHANGED <<saverVars, nodeVars>>
               /\ \/ Watcher!Boot \/ Watcher!Tick \/ Watcher!CtxDone \/ Watcher!Current
                  \/ Watcher!NoMatch \/ Watcher!Match \/ Watcher!CompileNext
                  \/ Watcher!Exit \/ Watcher!Stop
               /\ saverFaults + watcherFaults' <= MaxFaults

\* HookStopLogHandlers stops the saver before the watcher.
StopWatcher == /\ saverStop = "closed"
               /\ UNCHANGED <<saverVars, nodeVars>>
               /\ Watcher!StopCall

Acting == watcherPc = "action"

\* The action of the matched sequence starts the container, unless one of the node
\* runs, and opens a tail.
Begin == LET n == ActionNode[cl] IN
         /\ Acting /\ begun < cl /\ begun' = cl
         /\ IF box[n] = "running"
            THEN UNCHANGED <<box, tails>>
            ELSE /\ box' = [box EXCEPT ![n] = "running"]
                 /\ tails' = [tails EXCEPT ![n] = Append(@, 0)]
         /\ UNCHANGED <<saverVars, watcherVars, printed>>

EndAction == /\ Acting /\ begun = cl
             /\ UNCHANGED <<saverVars, nodeVars>>
             /\ Watcher!EndAction /\ watcherPc' = "next"

ActionFails == /\ Acting
               /\ UNCHANGED <<saverVars, nodeVars>>
               /\ Watcher!EndAction /\ watcherPc' = "exit"
               /\ saverFaults + watcherFaults' <= MaxFaults

Terminating == /\ saverStop \in {"closed", "failed"} /\ UNCHANGED vars

TailStep(n) == \E t \in DOMAIN tails[n] : Read(n, t)

Next == \/ \E n \in Nodes : PrintLine(n) \/ NodeEnds(n) \/ TailStep(n)
        \/ ContestReady \/ SaverStep \/ StopSaver
        \/ WatcherStep \/ StopWatcher \/ Begin \/ EndAction \/ ActionFails
        \/ Terminating

Spec == Init /\ [][Next]_vars

\* Goroutines run when they can.  A select with several ready cases takes any of
\* them, and a sender that waits for room in the channel gets it though others come:
\* strong fairness.  Nothing is assumed of the nodes, of faults and of stops.
Fairness ==
    /\ SF_vars(SaverStep /\ Saver!Receive) /\ SF_vars(SaverStep /\ Saver!Tick)
    /\ WF_vars(SaverStep /\ Saver!Sync)
    /\ WF_vars(WatcherStep \/ Begin \/ EndAction)
    /\ \A n \in Nodes : SF_vars(TailStep(n))

FairSpec == Spec /\ Fairness
-----------------------------------------------------------------------------
Copies(e) == Cardinality({i \in 1..Len(db) : db[i] = e})
LineOf(i) == db[hit[i]]

\* "Later" in a condition means a greater _id.  It is a later line of the node that
\* printed the one in the register, as long as the same tail has read both and no
\* retry of the saver has inserted the line twice: else an old line may pass for a
\* new one.
MatchIsLater ==
    \A i \in 1..cl : \A j \in 1..(i - 1) :
        LET earlier == LineOf(j)
            later   == LineOf(i)
        IN  /\ Watcher!SetsFor(j, i)
            /\ earlier[1] = later[1] /\ earlier[3] = later[3]
            /\ Copies(later) = 1
            => later[2] > earlier[2]

\* What is proved of LogSaver holds of the saver here.
KeepsSaver == Saver!Spec

\* The collection the saver fills is a log as the watcher needs it: whatever inserts
\* fail half-way and are repeated, a record stays where it was.  So what is proved of
\* LogWatcher holds of the watcher here.
KeepsWatcher == Watcher!Spec

\* The inductive invariant.  A tail is opened for a sequence that has matched and reads
\* what its node has printed.
NodesInv ==
    /\ cl \in 0..N /\ begun \in 0..cl
    /\ watcherPc = "evaluate" => cl < N
    /\ printed \in [Nodes -> Nat] /\ tails \in [Nodes -> Seq(Nat)]
    /\ \A n \in Nodes : /\ printed[n] <= Len(LineKind[n])
                        /\ Len(tails[n]) <= begun
                        /\ \A t \in 1..Len(tails[n]) : tails[n][t] <= printed[n]
    /\ Len(entries) <= MaxBatch

\* What has been inserted: the written entries, without the batch as long as it is to be
\* inserted, and no more than a batch for each fault.
DbCounted ==
    LET toCome == IF saverPc \in {"select", "final", "failed"} THEN Len(entries) ELSE 0
    IN  Len(db) + toCome <= Len(written) + saverFaults * MaxBatch

\* The lines of a tail pass in order, from the channel to the files.
SameTail(e, f) == e[1] = f[1] /\ e[3] = f[3]

InOrder(s) == \A j \in 1..Len(s) : \A i \in 1..(j - 1) :
                 SameTail(s[i], s[j]) => s[i][2] < s[j][2]

ReadByTail(e) == /\ e[1] \in Nodes
                 /\ e[3] \in 1..Len(tails[e[1]]) /\ e[2] <= tails[e[1]][e[3]]

ReadInOrder ==
    /\ \A e \in sent : e = Ready \/ ReadByTail(e)
    /\ InOrder(written) /\ InOrder(entryChan)
    /\ \A e \in ToSet(written), f \in ToSet(entryChan) : SameTail(e, f) => e[2] < f[2]

PipelineInv == NodesInv /\ DbCounted /\ ReadInOrder

\* Condition i waits for a line that a node has printed or the tool has said.
Awaited(i) == /\ cl = i - 1
              /\ \/ Ready \in sent /\ ReadyKind = KindOf[i]
                 \/ \E n \in Nodes : \E k \in 1..printed[n] : LineKind[n][k] = KindOf[i]

\* The conditions that name no register.
AnyTime == {i \in 1..N : AfterReg[i] = Nothing}

\* A line that the scenario waits for moves it on.  It does not if the run is being
\* stopped or the scenario is over, or if a line could not be written to its file.
LineMovesScenario ==
    \A i \in AnyTime :
        Awaited(i) ~> \/ cl >= i
                      \/ saverStop # "no" \/ watcherPc \in {"exit", "done"}
                      \/ dropped # {}
=============================================================================
