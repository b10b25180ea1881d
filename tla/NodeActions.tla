----------------------------- MODULE NodeActions -----------------------------
(***************************************************************************)
(* The actions on nodes (src/cmds/action.go): start-nodes, stop-nodes,     *)
(* init-nodes and custom-nodes.  The log watcher runs one at a time; an    *)
(* action asks docker which `run` containers there are                     *)
(* (filterRunningContainers), then a goroutine per node creates, starts or *)
(* stops a container and, for init and custom, waits for its end and puts  *)
(* a report of it on the channel of the log saver.  start-nodes leaves a   *)
(* goroutine behind that does this.  The log saver is reduced to a reader  *)
(* of its channel, which may be stopped while actions run.  The nodes are  *)
(* on one docker host.  A fault is a failed call of docker, of the tail of *)
(* a log or of the templates of the arguments.                             *)
(***************************************************************************)
EXTENDS Naturals, FiniteSets

CONSTANTS Nodes,
          Capacity,     (* of LogEntryChan; 100 in the code                   *)
          MaxCalls,     (* bound on the number of actions                     *)
          MaxFaults     (* bound on faults                                    *)

ASSUME BoundsAssumption ==
    Capacity \in Nat \ {0} /\ MaxCalls \in Nat /\ MaxFaults \in Nat

\* The containers of a node: a custom one has a name of its own for each action.
Run  == <<"run", 0>>
Ini  == <<"init", 0>>
Custom == {"custom"} \X (1..MaxCalls)
Boxes == {Run, Ini} \cup Custom

VARIABLES box,          (* state of each container of each node               *)
          act,          (* the action that is running, or "none"              *)
          calls,        (* number of actions run, this one included           *)
          ids,          (* the ids of filterRunningContainers: "run" for the  *)
                        (*   container of that type, "none" for the empty id, *)
                        (*   "skip" for a node that is not in the map         *)
          step,         (* where the goroutine of each node is                *)
          failed,       (* a goroutine returned an error                      *)
          over,         (* the action returned it: the watcher ends           *)
          spawned,      (* goroutines of start-nodes not yet waiting,         *)
          waiting,      (*   waiting for the end of the run container,        *)
          due,          (*   and with an end to report                        *)
          reports,      (* history: reports sent by them                      *)
          ends,         (* history: ends of the run container                 *)
          saver, queue, (* the log saver, and the length of LogEntryChan      *)
          faults

waiters == <<spawned, waiting, due, reports>>
channel == <<saver, queue>>
vars == <<box, act, calls, ids, step, failed, over, waiters, ends, channel, faults>>

Fault == faults < MaxFaults /\ faults' = faults + 1
Zero == [n \in Nodes |-> 0]

\* LogEntryChan() <- e blocks while the channel is full.
Send == queue < Capacity /\ queue' = queue + 1 /\ UNCHANGED saver

\* HookCleanStoppedNodeContainers has removed what earlier runs left.
Init == /\ box = [n \in Nodes |-> [b \in Boxes |-> "absent"]]
        /\ act = "none" /\ calls = 0
        /\ ids = [n \in Nodes |-> "skip"] /\ step = [n \in Nodes |-> "end"]
        /\ failed = FALSE /\ over = FALSE
        /\ spawned = Zero /\ waiting = Zero /\ due = Zero
        /\ reports = Zero /\ ends = Zero
        /\ saver = "on" /\ queue = 0 /\ faults = 0
-----------------------------------------------------------------------------
(* The call of an action.                                                  *)

\* filterRunningContainers, for the nodes of the action: only containers of type
\* run count, and a node without one keeps the empty id.
FilterRunning(n, running) ==
    IF box[n][Run] = "absent" THEN "none"
    ELSE IF running = (box[n][Run] = "running") THEN "skip" ELSE "run"

FirstStep(a, id) == CASE id = "skip"                -> "end"
                      [] id # "skip" /\ a = "stop"  -> "stop"
                      [] id = "none" /\ a # "stop"  -> "create"
                      [] id = "run" /\ a # "stop"   -> "start"

Call(a, S) ==
    /\ act = "none" /\ ~over /\ calls < MaxCalls
    /\ calls' = calls + 1
    /\ \/ /\ act' = a /\ UNCHANGED <<over, faults>>
          /\ ids' = [n \in Nodes |-> IF n \in S THEN FilterRunning(n, a # "stop")
                                                ELSE "skip"]
          /\ step' = [n \in Nodes |-> FirstStep(a, ids'[n])]
       \/ Fault /\ over' = TRUE /\ UNCHANGED <<act, ids, step>>
    /\ UNCHANGED <<box, failed, waiters, ends, channel>>

Own == CASE act = "start" -> Run
         [] act = "init" -> Ini
         [] act = "custom" -> <<"custom", calls>>

\* The container a goroutine starts and waits for: the one found, whatever the
\* action is, or a new one.
Target(n) == IF ids[n] = "run" THEN Run ELSE Own

Waited(n)    == step' = [step EXCEPT ![n] = "report"] /\ UNCHANGED failed
Done(n)      == step' = [step EXCEPT ![n] = "end"] /\ UNCHANGED failed
Fail(n)      == step' = [step EXCEPT ![n] = "end"] /\ failed' = TRUE
Become(n, b, s) == box' = [box EXCEPT ![n][b] = s]

\* createContainer: the name of an init container is taken after the first time.
Create(n) ==
    /\ act # "none" /\ step[n] = "create"
    /\ \/ /\ box[n][Own] = "absent" /\ Become(n, Own, "created")
          /\ step' = [step EXCEPT ![n] = "start"]
          /\ UNCHANGED <<failed, faults>>
       \/ box[n][Own] # "absent" /\ Fail(n) /\ UNCHANGED <<box, faults>>
       \/ Fault /\ Fail(n) /\ UNCHANGED box
    /\ UNCHANGED <<act, calls, ids, over, waiters, ends, channel>>

Spawn(n) == /\ spawned' = IF act = "start" THEN [spawned EXCEPT ![n] = @ + 1] ELSE spawned
            /\ UNCHANGED <<waiting, due, reports>>

\* (A slip: init and custom return as start does.)
StartAndReturn(n) ==
    /\ act # "none" /\ step[n] = "start"
    /\ Become(n, Target(n), "running") /\ Spawn(n) /\ Done(n)
    /\ UNCHANGED <<act, calls, ids, over, ends, channel, faults>>

\* startContainer, and containerLogs, which fails when the container runs already.
StartBox(n) ==
    /\ act # "none" /\ step[n] = "start"
    /\ \/ /\ Become(n, Target(n), "running") /\ Spawn(n)
          /\ step' = [step EXCEPT ![n] = IF act = "start" THEN "end" ELSE "wait"]
          /\ UNCHANGED <<failed, faults>>
       \/ Fault /\ Fail(n) /\ Become(n, Target(n), "running") /\ Spawn(n)
       \/ Fault /\ Fail(n) /\ UNCHANGED <<box, waiters>>
    /\ UNCHANGED <<act, calls, ids, over, ends, channel>>

\* waitContainer of init and custom; custom only logs that it failed.
Wait(n) ==
    /\ act # "none" /\ step[n] = "wait"
    /\ \/ box[n][Target(n)] # "running" /\ Waited(n) /\ UNCHANGED faults
       \/ Fault /\ IF act = "init" THEN Fail(n) ELSE Waited(n)
    /\ UNCHANGED <<box, act, calls, ids, over, waiters, ends, channel>>

\* "init node stopped with error" and the like: sent before the action returns.
ReportDone(n) ==
    /\ act # "none" /\ step[n] = "report"
    /\ Send /\ Done(n)
    /\ UNCHANGED <<box, act, calls, ids, over, waiters, ends, faults>>

\* The run container of n ends: everyone who waits for that is told.
RunEnds(n) == /\ ends' = [ends EXCEPT ![n] = @ + 1]
              /\ due' = [due EXCEPT ![n] = @ + waiting[n]]
              /\ waiting' = [waiting EXCEPT ![n] = 0]
              /\ UNCHANGED <<spawned, reports>>

\* ContainerStop of stop-nodes; docker knows no container with the empty id.
StopBox(n) ==
    /\ act # "none" /\ step[n] = "stop"
    /\ \/ /\ ids[n] = "run" /\ box[n][Run] = "running"
          /\ Become(n, Run, "exited") /\ RunEnds(n) /\ Done(n) /\ UNCHANGED faults
       \/ /\ ids[n] = "run" /\ box[n][Run] # "running"
          /\ Done(n) /\ UNCHANGED <<box, waiters, ends, faults>>
       \/ ids[n] = "none" /\ Fail(n) /\ UNCHANGED <<box, waiters, ends, faults>>
       \/ Fault /\ Fail(n) /\ UNCHANGED <<box, waiters, ends>>
    /\ UNCHANGED <<act, calls, ids, over, channel>>

\* (A slip: an error is sent where nobody receives it.)
ReturnWell ==
    /\ act # "none" /\ ~failed /\ \A n \in Nodes : step[n] = "end"
    /\ act' = "none"
    /\ UNCHANGED <<box, calls, ids, step, failed, over, waiters, ends, channel, faults>>

\* RunWaitGroup returns when all goroutines are over, and so does the action.
Return ==
    /\ act # "none" /\ \A n \in Nodes : step[n] = "end"
    /\ act' = "none" /\ over' = failed
    /\ UNCHANGED <<box, calls, ids, step, failed, waiters, ends, channel, faults>>
-----------------------------------------------------------------------------
(* The containers, and the goroutines start-nodes leaves behind.            *)

BoxEnds(n, b) ==
    /\ box[n][b] = "running" /\ Become(n, b, "exited")
    /\ IF b = Run THEN RunEnds(n) ELSE UNCHANGED <<waiters, ends>>
    /\ UNCHANGED <<act, calls, ids, step, failed, over, channel, faults>>

\* (A slip: the goroutine is told only of ends that are still to come.)
BeginLate(n) ==
    /\ spawned[n] > 0
    /\ spawned' = [spawned EXCEPT ![n] = @ - 1]
    /\ waiting' = [waiting EXCEPT ![n] = @ + 1]
    /\ UNCHANGED <<box, act, calls, ids, step, failed, over, due, reports, ends, channel,
                   faults>>

\* waitContainer of start-nodes: an end that has been is seen at once, and a wait
\* that fails is taken for one.
BeginWait(n) ==
    /\ spawned[n] > 0
    /\ spawned' = [spawned EXCEPT ![n] = @ - 1]
    /\ \/ /\ box[n][Run] = "running"
          /\ waiting' = [waiting EXCEPT ![n] = @ + 1] /\ UNCHANGED <<due, faults>>
       \/ /\ due' = [due EXCEPT ![n] = @ + 1] /\ UNCHANGED waiting
          /\ \/ box[n][Run] # "running" /\ UNCHANGED faults
             \/ Fault
    /\ UNCHANGED <<box, act, calls, ids, step, failed, over, reports, ends, channel>>

\* (A slip: a report as soon as the container was started.)
ReportStart(n) ==
    /\ waiting[n] > 0
    /\ waiting' = [waiting EXCEPT ![n] = @ - 1]
    /\ reports' = [reports EXCEPT ![n] = @ + 1]
    /\ Send
    /\ UNCHANGED <<box, act, calls, ids, step, failed, over, spawned, due, ends, faults>>

\* "start node stopped with error" or "without error".
Report(n) ==
    /\ due[n] > 0
    /\ due' = [due EXCEPT ![n] = @ - 1]
    /\ reports' = [reports EXCEPT ![n] = @ + 1]
    /\ Send
    /\ UNCHANGED <<box, act, calls, ids, step, failed, over, spawned, waiting, ends, faults>>
-----------------------------------------------------------------------------
(* The channel of the log saver.                                            *)

NotChannel == <<box, act, calls, ids, step, failed, over, waiters, ends, faults>>

\* A tail of containerLogs sends a line of a container.
LogLine == /\ \E n \in Nodes, b \in Boxes : box[n][b] \in {"running", "exited"}
           /\ Send /\ UNCHANGED NotChannel

TakeEntry == /\ saver = "on" /\ queue > 0 /\ queue' = queue - 1
             /\ UNCHANGED <<saver, NotChannel>>

\* HookStopLogHandlers stops the saver first, then waits for the action that runs.
StopSaver == /\ saver = "on" /\ saver' = "stopped"
             /\ UNCHANGED <<queue, NotChannel>>

Stuck == saver = "stopped" /\ queue = Capacity

Goroutine(n) == Create(n) \/ StartBox(n) \/ Wait(n) \/ StopBox(n)
Waiter(n) == BeginWait(n) \/ Report(n)
Terminating == /\ Stuck \/ (act = "none" /\ (over \/ calls = MaxCalls))
               /\ UNCHANGED vars

Next == \/ \E a \in {"start", "stop", "init", "custom"}, S \in SUBSET Nodes \ {{}} : Call(a, S)
        \/ \E n \in Nodes : Goroutine(n) \/ ReportDone(n) \/ Waiter(n)
        \/ Return \/ LogLine \/ TakeEntry \/ StopSaver
        \/ \E n \in Nodes, b \in Boxes : BoxEnds(n, b)
        \/ Terminating

Spec == Init /\ [][Next]_vars

\* Goroutines run when they can, one that waits for room in the channel gets it though
\* others send (strong fairness), and the commands of init and custom containers come
\* to an end.  A node that runs may run for ever, and the saver may be stopped or not.
Fairness == /\ WF_vars(Return) /\ WF_vars(TakeEntry)
            /\ \A n \in Nodes :
                  /\ WF_vars(Goroutine(n)) /\ WF_vars(BeginWait(n))
                  /\ SF_vars(Report(n)) /\ SF_vars(ReportDone(n))
                  /\ \A b \in Boxes \ {Run} : WF_vars(BoxEnds(n, b))

FairSpec == Spec /\ Fairness
-----------------------------------------------------------------------------
\* Every variable has its type.
TypeOK ==
    /\ box \in [Nodes -> [Boxes -> {"absent", "created", "running", "exited"}]]
    /\ act \in {"none", "start", "stop", "init", "custom"} /\ calls \in 0..MaxCalls
    /\ ids \in [Nodes -> {"skip", "none", "run"}]
    /\ step \in [Nodes -> {"create", "start", "wait", "report", "stop", "end"}]
    /\ failed \in BOOLEAN /\ over \in BOOLEAN
    /\ {spawned, waiting, due, reports, ends} \subseteq [Nodes -> Nat]
    /\ saver \in {"on", "stopped"} /\ queue \in 0..Capacity /\ faults \in 0..MaxFaults

\* The containers of a node mount the same data directory: as long as docker does not
\* fail, two of them never run at the same time.
OneRunningContainer ==
    faults = 0 => \A n \in Nodes : Cardinality({b \in Boxes : box[n][b] = "running"}) <= 1

\* As long as docker does not fail, "start node stopped" is never said of a node that
\* was not: every report has its end.
ReportsFollowEnds == faults = 0 => \A n \in Nodes : reports[n] <= ends[n]

\* The inductive invariant.  Goroutines belong to an action.  What they have started
\* is all that runs, but for the run container of a node that the action leaves alone.
StepsOfAction ==
    /\ act = "none" => \A n \in Nodes : step[n] = "end"
    /\ act # "none" => calls > 0
    /\ act = "stop" => \A n \in Nodes : step[n] \in {"stop", "end"}

RunningIsOwn ==
    faults = 0 => \A n \in Nodes, b \in Boxes :
        box[n][b] = "running" => /\ step[n] \notin {"create", "start"}
                                 /\ b = IF step[n] = "wait" THEN Target(n) ELSE Run

\* There are no more goroutines than ends of the run container, and one if it runs;
\* and no more of them were told of an end than there were.
ReportsCounted ==
    faults = 0 => \A n \in Nodes :
        /\ due[n] + reports[n] <= ends[n]
        /\ spawned[n] + waiting[n] + due[n] + reports[n]
               <= ends[n] + (IF box[n][Run] = "running" THEN 1 ELSE 0)

ActionsInv == TypeOK /\ StepsOfAction /\ RunningIsOwn /\ ReportsCounted

\* When a node has stopped and is not started again, each of its starts by start-nodes
\* gets its report, however late its goroutine begins to wait; unless the saver was
\* stopped and its channel is full.
EndsAreReported ==
    \A n \in Nodes : box[n][Run] = "exited" ~>
        \/ box[n][Run] # "exited" \/ spawned[n] + waiting[n] + due[n] = 0
        \/ []Stuck

\* An action returns, unless for good init or custom waits for a node whose run
\* container it has restarted and which runs on, or has to report to a saver that was
\* stopped, whose channel is full.
WaitsForNode == \E n \in Nodes : /\ step[n] = "wait" /\ Target(n) = Run
                                 /\ box[n][Run] = "running"
WaitsForSaver == Stuck /\ \E n \in Nodes : step[n] = "report"

ReturnsUnlessBlocked ==
    act # "none" ~> (act = "none" \/ []WaitsForNode \/ []WaitsForSaver)

\* What is logged of a custom action (action.go:672), "trying to run custom node"
\* with the commands of that action: that the node it then waits for runs them.
CustomNodesRunTheirCommands ==
    \A n \in Nodes : act = "custom" /\ step[n] = "wait" => Target(n) # Run
=============================================================================
