----------------------------- MODULE RunCommand -----------------------------
(***************************************************************************)
(* `contest run` (src/cmds/run.go) from its start to its exit: the startup *)
(* goroutine that runs the processes and their hooks in order, the main    *)
(* goroutine that waits for it, then for the exit channel, a signal or the *)
(* exit-after timer, and the close hooks.  The log saver and the log       *)
(* watcher are reduced to what they owe the run: a reader of entryChan,    *)
(* and a goroutine that runs actions under lw.Lock (see LogSaver and       *)
(* LogWatcher).  A fault is any failure of docker, mongodb or a file.      *)
(***************************************************************************)
EXTENDS Naturals, FiniteSets

CONSTANTS Nodes,        (* the node containers this run may create            *)
          Capacity,     (* of entryChan; 100 in the code                      *)
          StopJoins,    (* as in LogWatcher: {TRUE} if ContextDaemon.Stop     *)
                        (*   waits for its callback, {TRUE, FALSE} either way *)
          MaxFaults     (* bound on faults                                    *)

ASSUME ConstantsAssumption ==
    /\ Capacity \in Nat \ {0} /\ MaxFaults \in Nat
    /\ StopJoins \in (SUBSET BOOLEAN) \ {{}}
    /\ "mongodb" \notin Nodes /\ "old" \notin Nodes

\* All containers with the label of contest: the ones of this run, and one that an
\* earlier run may have left behind.
Containers == Nodes \cup {"mongodb", "old"}

VARIABLES flags,        (* the command line                                   *)
          stage,        (* the process or hook the startup goroutine is at    *)
          started,      (* what it sends on runChan, or "running"             *)
          ctx,          (* the values runProcesses.Context() holds            *)
          main,         (* where the main goroutine is                        *)
          snap,         (* the context the close processes run with           *)
          exitError,    (* the error Run is about to return                   *)
          result,       (* exit code: "ok" or "error", or "panic"             *)
          exitChan,     (* the values goroutines send or have sent on it: the *)
                        (*   order is theirs and only one is ever received    *)
          saver, queue, (* the log saver, and the length of entryChan         *)
          watcher,      (* the log watcher; "acting" and "failing": an action *)
                        (*   runs, and one of its nodes has failed; "waiting":*)
                        (*   for lw.Lock, which a Stop that joins it holds    *)
          target,       (* the nodes an action has still to report on         *)
          green,        (* history: all conditions matched, or killed with no *)
                        (*   error                                            *)
          containers,   (* state of each container                            *)
          db,           (* the connection to mongodb                          *)
          faults

startVars == <<stage, started, ctx>>
mainVars  == <<main, snap, exitError, result>>
logVars   == <<saver, queue>>
watchVars == <<watcher, target, green>>
vars == <<flags, startVars, mainVars, exitChan, logVars, watchVars, containers,
          db, faults>>

Flags == [configOnly : BOOLEAN, force : BOOLEAN, cleanAfter : BOOLEAN,
          exitAfter : BOOLEAN, skip : BOOLEAN]   \* skip is of the design

Fault == faults < MaxFaults /\ faults' = faults + 1
Alive == main \notin {"exited", "panicked"}

Init == /\ flags \in Flags
        /\ stage = "prepare" /\ started = "running" /\ ctx = {}
        /\ main = "starting" /\ snap = {} /\ exitError = "none" /\ result = "none"
        /\ exitChan = {}
        /\ saver = "off" /\ queue = 0
        /\ watcher = "off" /\ target = {} /\ green = FALSE
        /\ \E s \in {"absent", "running", "stopped"} :
              containers = [c \in Containers |-> IF c = "old" THEN s ELSE "absent"]
        /\ db = "off" /\ faults = 0

Send(e) == exitChan' = exitChan \cup {e}
-----------------------------------------------------------------------------
(* The startup goroutine: runProcesses.Run().                              *)

\* A process or hook that succeeds hands its context on to the next one.
Continue(next, keys) == /\ stage' = next /\ ctx' = ctx \cup keys
                        /\ UNCHANGED started
Finish(how) == started' = how /\ UNCHANGED <<stage, ctx>>

At(s) == Alive /\ stage = s /\ started = "running"

Prepare == /\ At("prepare") /\ Continue("config", {})
           /\ UNCHANGED <<flags, mainVars, exitChan, logVars, watchVars,
                          containers, db, faults>>

\* HookBase, ProcessConfig, HookVars and HookConfigStorage.
Config == /\ At("config")
          /\ \/ ~flags.skip /\ Continue("mongodb", {}) /\ UNCHANGED faults
             \/ flags.skip /\ Finish("ignore") /\ UNCHANGED faults
             \/ Fault /\ Finish("error")
          /\ UNCHANGED <<flags, mainVars, exitChan, logVars, watchVars,
                         containers, db>>

ConnectMongodb ==
    /\ At("mongodb")
    /\ \/ Continue("log_saver", {"mongodb"}) /\ db' = "on" /\ UNCHANGED faults
       \/ Fault /\ Finish("error") /\ UNCHANGED db
    /\ UNCHANGED <<flags, mainVars, exitChan, logVars, watchVars, containers>>

StartLogSaver ==
    /\ At("log_saver")
    /\ \/ Continue("hosts", {"log_saver"}) /\ saver' = "on" /\ UNCHANGED faults
       \/ Fault /\ Finish("error") /\ UNCHANGED saver
    /\ UNCHANGED <<flags, mainVars, exitChan, queue, watchVars, containers, db>>

PrepareHosts ==
    /\ At("hosts")
    /\ \/ Continue("clean", {"hosts"}) /\ UNCHANGED faults
       \/ Fault /\ Finish("error")
    /\ UNCHANGED <<flags, mainVars, exitChan, logVars, watchVars, containers, db>>

Running == {c \in Containers : containers[c] = "running"}
StopBoxes(S) == containers' = [c \in Containers |->
                                 IF c \in S THEN "stopped" ELSE containers[c]]
Remove(S) == containers' = [c \in Containers |->
                              IF c \in S THEN "absent" ELSE containers[c]]

\* (A slip: a container that runs is left alone.)
CleanStoppedOnly ==
    /\ At("clean") /\ Remove(Containers \ Running) /\ Continue("nodes", {})
    /\ UNCHANGED <<flags, mainVars, exitChan, logVars, watchVars, db, faults>>

\* HookCleanStoppedNodeContainers: a running container is an error, found before
\* anything is removed, unless --force.
CleanStopped ==
    /\ At("clean")
    /\ \/ /\ flags.force \/ Running = {}
          /\ Remove(Containers) /\ Continue("nodes", {}) /\ UNCHANGED faults
       \/ /\ ~flags.force /\ Running # {}
          /\ Finish("error") /\ UNCHANGED <<containers, faults>>
       \/ /\ Fault /\ Finish("error")
          /\ \E S \in SUBSET (IF flags.force THEN Containers ELSE Containers \ Running) :
                 Remove(S)
    /\ UNCHANGED <<flags, mainVars, exitChan, logVars, watchVars, db>>

\* ProcessNodes: mongodb is launched first, what comes after may fail.
PrepareNodes ==
    /\ At("nodes")
    /\ \/ /\ containers' = [containers EXCEPT !["mongodb"] = "running"]
          /\ IF flags.configOnly THEN Finish("ok") ELSE Continue("ready", {})
          /\ UNCHANGED faults
       \/ /\ Fault /\ Finish("error")
          /\ \E s \in {"absent", "stopped", "running"} :
                 containers' = [containers EXCEPT !["mongodb"] = s]
    /\ UNCHANGED <<flags, mainVars, exitChan, logVars, watchVars, db>>

\* HookContestReady puts an entry on the channel.
ContestReady ==
    /\ At("ready") /\ queue < Capacity
    /\ queue' = queue + 1
    /\ Continue("log_watcher", {})
    /\ UNCHANGED <<flags, mainVars, exitChan, saver, watchVars, containers, db, faults>>

StartLogWatcher ==
    /\ At("log_watcher")
    /\ \/ /\ watcher' = "idle" /\ UNCHANGED faults
          /\ ctx' = ctx \cup {"log_watcher"} /\ started' = "ok" /\ UNCHANGED stage
       \/ Fault /\ Finish("error") /\ UNCHANGED watcher
    /\ UNCHANGED <<flags, mainVars, exitChan, logVars, target, green, containers, db>>

Startup == \/ Prepare \/ Config \/ ConnectMongodb \/ StartLogSaver \/ PrepareHosts
           \/ CleanStopped \/ PrepareNodes \/ ContestReady \/ StartLogWatcher
-----------------------------------------------------------------------------
(* The log watcher's actions, node containers and their log lines.          *)

Watching == Alive /\ watcher = "idle"

\* An action runs, and evaluate holds lw.Lock.
Holding == Alive /\ watcher \in {"acting", "failing"}

\* start-nodes and stop-nodes leave what runs, or does not, and return at once.
StartNodes(S) == /\ Watching
                 /\ containers' = [c \in Containers |-> IF c \in S THEN "running"
                                                                   ELSE containers[c]]
                 /\ UNCHANGED <<flags, startVars, mainVars, exitChan, logVars,
                                watchVars, db, faults>>

StopNodes(S) == /\ Watching
                /\ StopBoxes(S \cap Running)
                /\ UNCHANGED <<flags, startVars, mainVars, exitChan, logVars,
                               watchVars, db, faults>>

\* init-nodes and custom-nodes start the containers, and for each wait for its end
\* and then put an entry on the channel, all of it under lw.Lock.
InitNodes(S) == /\ Watching /\ S \cap Running = {}
                /\ containers' = [c \in Containers |-> IF c \in S THEN "running"
                                                                  ELSE containers[c]]
                /\ watcher' = "acting" /\ target' = S
                /\ UNCHANGED <<flags, startVars, mainVars, exitChan, logVars, green,
                               db, faults>>

\* RunWaitGroup waits for every node and then returns an error if one failed;
\* an action that fails ends the watcher.
NodeDone(n, how) ==
    /\ Holding /\ n \in target
    /\ target' = target \ {n}
    /\ \/ target' # {} /\ watcher' = how /\ UNCHANGED exitChan
       \/ target' = {} /\ how = "acting" /\ watcher' = "idle" /\ UNCHANGED exitChan
       \/ target' = {} /\ how = "failing" /\ watcher' = "ended" /\ Send("error")

\* custom-nodes reports as well when it is the wait that fails.
ReportEnd(n) == /\ NodeDone(n, watcher)
                /\ queue < Capacity /\ queue' = queue + 1
                /\ \/ containers[n] # "running" /\ UNCHANGED faults
                   \/ Fault
                /\ UNCHANGED <<flags, startVars, mainVars, saver, green, containers, db>>

\* The start of the container or the wait for it fails.
FailRun(n) == /\ NodeDone(n, "failing") /\ Fault
              /\ UNCHANGED <<flags, startVars, mainVars, logVars, green, containers, db>>

\* host-command runs a shell command of at most 30 seconds, under lw.Lock as well.
HostCommand == /\ Watching
               /\ watcher' = "acting" /\ target' = {}
               /\ UNCHANGED <<flags, startVars, mainVars, exitChan, logVars, green,
                              containers, db, faults>>

\* It ends, or its template or its exit code is an error, or its time is over.
CommandEnds == /\ Holding /\ target = {}
               /\ \/ watcher' = "idle" /\ UNCHANGED <<exitChan, faults>>
                  \/ watcher' = "ended" /\ Send("error") /\ Fault
               /\ UNCHANGED <<flags, startVars, mainVars, logVars, target, green,
                              containers, db>>

\* The kill action sends its error, or nil, and the watcher goes on.
Kill(e) == /\ Watching
           /\ Send(e) /\ green' = (green \/ e = "nil")
           /\ UNCHANGED <<flags, startVars, mainVars, logVars, watcher, target,
                          containers, db, faults>>

\* The watcher ends: all conditions matched, or a query or an action failed.
EndWatch == /\ Watching /\ watcher' = "ended"
            /\ \/ Send("nil") /\ green' = TRUE /\ UNCHANGED faults
               \/ Fault /\ Send("error") /\ UNCHANGED green
            /\ UNCHANGED <<flags, startVars, mainVars, logVars, target, containers, db>>

\* A container comes to its end on its own.
NodeEnds(c) == /\ c # "mongodb" /\ containers[c] = "running"
               /\ containers' = [containers EXCEPT ![c] = "stopped"]
               /\ UNCHANGED <<flags, startVars, mainVars, exitChan, logVars,
                              watchVars, db, faults>>

\* A goroutine of containerLogs puts a line of a node on the channel.
LogLine == /\ Alive /\ queue < Capacity
           /\ \E n \in Nodes : containers[n] # "absent"
           /\ queue' = queue + 1
           /\ UNCHANGED <<flags, startVars, mainVars, exitChan, saver, watchVars,
                          containers, db, faults>>

\* The saver takes an entry; an error line of a node is sent to exitChan.
TakeEntry == /\ Alive /\ saver = "on" /\ queue > 0
             /\ queue' = queue - 1
             /\ \/ UNCHANGED exitChan
                \/ (\E n \in Nodes : containers[n] # "absent") /\ Send("error")
             /\ UNCHANGED <<flags, startVars, mainVars, saver, watchVars,
                            containers, db, faults>>
-----------------------------------------------------------------------------
(* The main goroutine.                                                      *)

Exit(r) == main' = "exited" /\ result' = r

\* Run after run(): --config-only returns nil whatever happened, and the close
\* processes of a run that has not prepared them are nil.
Close(e) ==
    /\ exitError' = e
    /\ \/ flags.configOnly /\ Exit("ok") /\ UNCHANGED snap
       \/ /\ ~flags.configOnly /\ stage = "prepare"
          /\ main' = "panicked" /\ result' = "panic" /\ UNCHANGED snap
       \/ /\ ~flags.configOnly /\ stage # "prepare"
          /\ main' = "stop_saver" /\ snap' = ctx /\ UNCHANGED result

NotMain == <<flags, startVars, exitChan, logVars, watchVars, containers, db, faults>>

\* (A slip: only a startup that went well is noticed.)
StartupWell ==
    /\ main = "starting" /\ started = "ok" /\ main' = "running"
    /\ UNCHANGED <<snap, exitError, result>> /\ UNCHANGED NotMain

\* case err := <-runChan
StartupOver ==
    /\ main = "starting" /\ started # "running"
    /\ \/ started = "ignore" /\ Exit("ok") /\ UNCHANGED <<snap, exitError>>
       \/ started = "error" /\ Close("error")
       \/ started = "ok" /\ flags.configOnly /\ Close("none")
       \/ started = "ok" /\ ~flags.configOnly /\ main' = "running"
          /\ UNCHANGED <<snap, exitError, result>>
    /\ UNCHANGED NotMain

\* case sig := <-sigChan, of either select
Signal == main \in {"starting", "running"} /\ Close("signal") /\ UNCHANGED NotMain

\* case err := <-exitChan
ReceiveExit == /\ main = "running"
               /\ \E e \in exitChan : Close(IF e = "nil" THEN "none" ELSE "error")
               /\ UNCHANGED NotMain

\* (A slip: the end of the time is no error.)
ExpireQuietly == main = "running" /\ flags.exitAfter /\ Close("none") /\ UNCHANGED NotMain

\* case <-time.After(cmd.ExitAfter)
Expire == main = "running" /\ flags.exitAfter /\ Close("expired") /\ UNCHANGED NotMain
-----------------------------------------------------------------------------
(* The close hooks, in order; an error of one ends Run.                     *)

Abort == Exit("error") /\ UNCHANGED <<snap, exitError>>
To(next) == main' = next /\ UNCHANGED <<snap, exitError, result>>

\* (A slip: a saver that does not stop is only logged, as for the watcher.)
StopSaverLoosely ==
    /\ main = "stop_saver" /\ "log_saver" \in snap /\ To("stop_watcher")
    /\ \/ saver' = "stopped" /\ UNCHANGED faults
       \/ UNCHANGED saver /\ Fault
    /\ UNCHANGED <<flags, startVars, exitChan, queue, watchVars, containers, db>>

\* HookStopLogHandlers, the saver.
StopSaver ==
    /\ main = "stop_saver"
    /\ \/ "log_saver" \notin snap /\ Abort /\ UNCHANGED <<saver, faults>>
       \/ "log_saver" \in snap /\ saver' = "stopped" /\ To("stop_watcher") /\ UNCHANGED faults
       \/ "log_saver" \in snap /\ saver' = "stopped" /\ Abort /\ Fault
    /\ UNCHANGED <<flags, startVars, exitChan, queue, watchVars, containers, db>>

\* (Slips: the watcher is left to itself; it is waited for.)
StopWatcherWhen(ready) ==
    /\ main = "stop_watcher" /\ ready /\ To("close_hosts")
    /\ UNCHANGED <<flags, startVars, exitChan, logVars, watchVars, containers,
                   db, faults>>

LeaveWatcher == StopWatcherWhen("log_watcher" \in snap)
AwaitWatcher == StopWatcherWhen(watcher = "ended")

\* HookStopLogHandlers, the watcher: Stop takes lw.Lock, so it waits for an action; its
\* error is only logged.  Holding the lock it stops the goroutine, and if that is to join
\* one that waits for the lock in Current or evaluate, Stop does not return.
StopWatcher ==
    /\ main = "stop_watcher"
    /\ \/ "log_watcher" \notin snap /\ Abort /\ UNCHANGED watcher
       \/ /\ "log_watcher" \in snap /\ watcher \in {"idle", "ended"}
          /\ watcher' = "ended" /\ To("close_hosts")
       \/ /\ "log_watcher" \in snap /\ watcher = "idle" /\ TRUE \in StopJoins
          /\ watcher' = "waiting" /\ UNCHANGED mainVars
    /\ UNCHANGED <<flags, startVars, exitChan, logVars, target, green, containers,
                   db, faults>>

\* HookCloseHosts stops what runs.
CloseHosts ==
    /\ main = "close_hosts"
    /\ \/ /\ StopBoxes(Running)
          /\ To("close_mongodb") /\ UNCHANGED faults
       \/ /\ Fault /\ Abort
          /\ \E S \in SUBSET Running : StopBoxes(S)
    /\ UNCHANGED <<flags, startVars, exitChan, logVars, watchVars, db>>

CloseMongodb ==
    /\ main = "close_mongodb"
    /\ \/ db' = "closed" /\ To("exit_with_error") /\ UNCHANGED faults
       \/ Fault /\ Abort /\ UNCHANGED db
    /\ UNCHANGED <<flags, startVars, exitChan, logVars, watchVars, containers>>

ExitWithError ==
    /\ main = "exit_with_error"
    /\ IF exitError # "none" THEN Abort ELSE To("clean_containers")
    /\ UNCHANGED NotMain

CleanContainers ==
    /\ main = "clean_containers"
    /\ \/ ~flags.cleanAfter /\ Exit("ok") /\ UNCHANGED <<snap, exitError, containers, faults>>
       \/ /\ flags.cleanAfter /\ Exit("ok") /\ Remove(Containers)
          /\ UNCHANGED <<snap, exitError, faults>>
       \/ /\ flags.cleanAfter /\ Abort /\ Fault
          /\ \E S \in SUBSET Containers : Remove(S)
    /\ UNCHANGED <<flags, startVars, exitChan, logVars, watchVars, db>>

Closing == \/ StopSaver \/ StopWatcher \/ CloseHosts \/ CloseMongodb
           \/ ExitWithError \/ CleanContainers

Terminating == ~Alive /\ UNCHANGED vars

Next == \/ Startup \/ Closing
        \/ StartupOver \/ Signal \/ ReceiveExit \/ Expire
        \/ HostCommand \/ CommandEnds
        \/ EndWatch \/ LogLine \/ TakeEntry
        \/ \E S \in SUBSET Nodes \ {{}} : StartNodes(S) \/ StopNodes(S) \/ InitNodes(S)
        \/ \E n \in Nodes : ReportEnd(n) \/ FailRun(n)
        \/ \E e \in {"nil", "error"} : Kill(e)
        \/ \E c \in Containers : NodeEnds(c)
        \/ Terminating

Spec == Init /\ [][Next]_vars

\* Each goroutine runs when it can, the timer fires, and a container an action
\* waits for ends, as a command does; nothing makes nodes log, conditions match or
\* signals come.
Fairness == /\ WF_vars(Startup) /\ WF_vars(StartupOver) /\ WF_vars(ReceiveExit)
            /\ WF_vars(Expire) /\ WF_vars(Closing) /\ SF_vars(StopWatcher)
            /\ SF_vars(TakeEntry) /\ WF_vars(CommandEnds)
            /\ \A n \in Nodes : /\ WF_vars(ReportEnd(n))
                               /\ WF_vars(n \in target /\ NodeEnds(n))

FairSpec == Spec /\ Fairness
-----------------------------------------------------------------------------
\* Every variable has its type.
TypeOK ==
    /\ flags \in Flags
    /\ stage \in {"prepare", "config", "mongodb", "log_saver", "hosts", "clean",
                  "nodes", "ready", "log_watcher"}
    /\ started \in {"running", "ok", "error", "ignore"}
    /\ ctx \subseteq {"mongodb", "log_saver", "hosts", "log_watcher"}
    /\ snap \subseteq ctx
    /\ main \in {"starting", "running", "stop_saver", "stop_watcher", "close_hosts",
                 "close_mongodb", "exit_with_error", "clean_containers", "exited",
                 "panicked"}
    /\ exitError \in {"none", "error", "signal", "expired"}
    /\ result \in {"none", "ok", "error", "panic"}
    /\ exitChan \subseteq {"nil", "error"}
    /\ saver \in {"off", "on", "stopped"} /\ queue \in 0..Capacity
    /\ watcher \in {"off", "idle", "acting", "failing", "waiting", "ended"}
    /\ target \subseteq Nodes /\ green \in BOOLEAN
    /\ containers \in [Containers -> {"absent", "running", "stopped"}]
    /\ db \in {"off", "on", "closed"} /\ faults \in 0..MaxFaults

\* No container of an earlier run is there when conditions begin to be watched
\* and nodes are started: HookCleanStoppedNodeContainers has removed it or has
\* ended the startup.
NoLeftovers == watcher # "off" => containers["old"] = "absent"

\* After HookCloseHosts nothing runs and nothing is started again: the startup is
\* over and no action of the watcher is going on or can begin.
ClosedHostsStayQuiet ==
    main \in {"close_mongodb", "exit_with_error", "clean_containers"} =>
        Running = {} /\ watcher = "ended" /\ started # "running"

\* The database connection outlives its users: it is closed when the saver has
\* flushed and the watcher looks no more.
DatabaseOutlivesUsers == db = "closed" => saver = "stopped" /\ watcher = "ended"

\* Exit code 0 of a run with a scenario means that the scenario went through, or
\* killed the run without error, and that nothing was left running.
GreenMeansFinished ==
    result = "ok" /\ ~flags.configOnly /\ ~flags.skip =>
        /\ green /\ exitError = "none"
        /\ Running = {}
        /\ flags.cleanAfter => \A c \in Containers : containers[c] = "absent"

\* The inductive invariant.  What was started is told by the context: the saver and the
\* watcher are there when their keys are, and the watcher only when the startup went
\* well.
Opened ==
    /\ saver = "off" <=> stage \in {"prepare", "config", "mongodb", "log_saver"}
    /\ "log_saver" \in ctx => saver # "off"
    /\ "log_watcher" \in ctx => stage = "log_watcher" /\ started = "ok"
    /\ watcher # "off" <=> "log_watcher" \in ctx
    /\ started = "ignore" => flags.skip

CleanedBefore ==
    stage \in {"nodes", "ready", "log_watcher"} => containers["old"] = "absent"

\* The close hooks come in order, and what one has stopped stays stopped.
Closed ==
    /\ main \in {"stop_watcher", "close_hosts", "close_mongodb", "exit_with_error",
                 "clean_containers"} => saver = "stopped"
    /\ main \in {"close_hosts", "close_mongodb", "exit_with_error",
                 "clean_containers"} => watcher = "ended"
    /\ main \in {"close_mongodb", "exit_with_error", "clean_containers"} => Running = {}
    /\ DatabaseOutlivesUsers

\* A run that closes with no error has received nil, which is only sent when the
\* scenario is over or was killed.
Outcome ==
    /\ "nil" \in exitChan => green
    /\ Alive => result = "none"
    /\ main \in {"stop_saver", "stop_watcher", "close_hosts", "close_mongodb",
                 "exit_with_error"} /\ exitError = "none" => green
    /\ main = "clean_containers" => exitError = "none" /\ green
    /\ GreenMeansFinished

RunInv == TypeOK /\ Opened /\ CleanedBefore /\ Closed /\ Outcome

\* The startup comes to its end, whatever fails.
StartupEnds == main = "starting" ~> main # "starting"

\* Closing ends the run, unless for good the watcher's Stop joins a goroutine that waits
\* for its lock, or an action has something to send to the full channel of the saver,
\* which was stopped first: that is all the close hooks can wait for, as long as the
\* containers that actions wait for end.
ClosesUnlessBlocked ==
    main = "stop_saver" ~> \/ ~Alive
                           \/ [](watcher = "waiting")
                           \/ [](Holding /\ saver = "stopped" /\ queue = Capacity)

\* What --clean-after says (run.go:73), "clean node containers after exit".
CleanedAfterExit ==
    main = "exited" /\ db = "closed" /\ flags.cleanAfter =>
        \A n \in Nodes : containers[n] = "absent"

\* What --exit-after says (run.go:74), "exit contest": a run whose timer is set
\* does not go on for ever.
ExitAfterExits == exitError = "expired" ~> ~Alive
=============================================================================
