-------------------------- MODULE RunCommandProofs --------------------------
(* Theorems about RunCommand, for every set of nodes, capacity of entryChan  *)
(* and number of faults.                                                     *)
EXTENDS RunCommand, TLAPS

\* The startup goroutine keeps the types.
LEMMA StartupTypes == TypeOK /\ Startup => TypeOK'
<1> SUFFICES ASSUME TypeOK, Startup PROVE TypeOK'
  OBVIOUS
<1> USE DEF TypeOK, Startup, At, Continue, Finish, startVars, mainVars, logVars,
            watchVars, Prepare, Config, ConnectMongodb, StartLogSaver, PrepareHosts,
            CleanStopped, PrepareNodes, ContestReady, StartLogWatcher
<1>1. /\ stage' \in {"prepare", "config", "mongodb", "log_saver", "hosts", "clean",
                     "nodes", "ready", "log_watcher"}
      /\ started' \in {"running", "ok", "error", "ignore"}
  OBVIOUS
<1>2. ctx' \subseteq {"mongodb", "log_saver", "hosts", "log_watcher"}
  OBVIOUS
<1>3. snap' \subseteq ctx'
  OBVIOUS
<1>4. UNCHANGED <<flags, main, exitError, result, exitChan>>
  OBVIOUS
<1>5. /\ saver' \in {"off", "on", "stopped"}
      /\ watcher' \in {"off", "idle", "acting", "failing", "waiting", "ended"}
      /\ target' \subseteq Nodes /\ green' \in BOOLEAN
      /\ db' \in {"off", "on", "closed"}
  OBVIOUS
<1>6. containers' \in [Containers -> {"absent", "running", "stopped"}]
  BY DEF Remove, Containers
<1>7. queue' \in 0..Capacity /\ faults' \in 0..MaxFaults
  BY ConstantsAssumption DEF Fault
<1>8. QED BY <1>1, <1>2, <1>3, <1>4, <1>5, <1>6, <1>7

\* The only arithmetic: counters stay within their bounds.
LEMMA BoundsKept ==
  ASSUME TypeOK, Fault \/ faults' = faults,
         \/ queue' = queue
         \/ queue < Capacity /\ queue' = queue + 1
         \/ queue > 0 /\ queue' = queue - 1
  PROVE  queue' \in 0..Capacity /\ faults' \in 0..MaxFaults
BY ConstantsAssumption DEF TypeOK, Fault

\* The watcher, its actions, the containers and the saver.
Scene == \/ HostCommand \/ CommandEnds \/ EndWatch \/ LogLine \/ TakeEntry
         \/ \E S \in SUBSET Nodes \ {{}} : StartNodes(S) \/ StopNodes(S) \/ InitNodes(S)
         \/ \E n \in Nodes : ReportEnd(n) \/ FailRun(n)
         \/ \E e \in {"nil", "error"} : Kill(e)
         \/ \E c \in Containers : NodeEnds(c)

\* They keep the types.
LEMMA SceneTypes == TypeOK /\ Scene => TypeOK'
<1> SUFFICES ASSUME TypeOK, Scene PROVE TypeOK'
  OBVIOUS
<1> USE DEF TypeOK, Scene, HostCommand, CommandEnds, EndWatch, LogLine, TakeEntry,
            StartNodes, StopNodes, InitNodes, ReportEnd, FailRun, NodeDone, Kill,
            NodeEnds, Send, Watching, Holding, startVars, mainVars, logVars, watchVars
<1>1. UNCHANGED <<flags, stage, started, ctx, main, snap, exitError, result, saver, db>>
  OBVIOUS
<1>2. exitChan' \subseteq {"nil", "error"}
  OBVIOUS
<1>3. /\ watcher' \in {"off", "idle", "acting", "failing", "waiting", "ended"}
      /\ green' \in BOOLEAN
  OBVIOUS
<1>4. target' \subseteq Nodes
  OBVIOUS
<1>5. containers' \in [Containers -> {"absent", "running", "stopped"}]
  BY DEF StopBoxes
<1>6. \/ queue' = queue
      \/ queue < Capacity /\ queue' = queue + 1
      \/ queue > 0 /\ queue' = queue - 1
  OBVIOUS
<1>7. Fault \/ faults' = faults
  OBVIOUS
<1>8. queue' \in 0..Capacity /\ faults' \in 0..MaxFaults
  BY <1>6, <1>7, ConstantsAssumption, BoundsKept
<1>9. QED BY <1>1, <1>2, <1>3, <1>4, <1>5, <1>8

\* The main goroutine.
Main == Closing \/ StartupOver \/ Signal \/ ReceiveExit \/ Expire

\* It keeps the types.
LEMMA MainTypes == TypeOK /\ Main => TypeOK'
<1> SUFFICES ASSUME TypeOK, Main PROVE TypeOK'
  OBVIOUS
<1> USE DEF TypeOK, Main, Closing, StopSaver, StopWatcher, CloseHosts, CloseMongodb,
            ExitWithError, CleanContainers, StartupOver, Signal, ReceiveExit, Expire,
            Close, Exit, Abort, To, NotMain, startVars, mainVars, logVars, watchVars
<1>1. UNCHANGED <<flags, stage, started, ctx, exitChan, queue, target, green>>
  OBVIOUS
<1>2. /\ main' \in {"starting", "running", "stop_saver", "stop_watcher", "close_hosts",
                    "close_mongodb", "exit_with_error", "clean_containers", "exited",
                    "panicked"}
      /\ exitError' \in {"none", "error", "signal", "expired"}
      /\ result' \in {"none", "ok", "error", "panic"}
  OBVIOUS
<1>3. snap' \subseteq ctx'
  OBVIOUS
<1>4. /\ saver' \in {"off", "on", "stopped"}
      /\ watcher' \in {"off", "idle", "acting", "failing", "waiting", "ended"}
      /\ db' \in {"off", "on", "closed"}
  OBVIOUS
<1>5. containers' \in [Containers -> {"absent", "running", "stopped"}]
  BY DEF StopBoxes, Remove
<1>6. Fault \/ faults' = faults
  OBVIOUS
<1>7. faults' \in 0..MaxFaults
  BY <1>1, <1>6, ConstantsAssumption, BoundsKept
<1>8. QED BY <1>1, <1>2, <1>3, <1>4, <1>5, <1>7

\* Every step is one of them, or changes nothing.
LEMMA Steps == [Next]_vars => Startup \/ Scene \/ Main \/ UNCHANGED vars
BY DEF Next, Scene, Main, Terminating

\* The types hold at first.
LEMMA InitTypes == Init => TypeOK
<1> SUFFICES ASSUME Init PROVE TypeOK
  OBVIOUS
<1>1. containers \in [Containers -> {"absent", "running", "stopped"}]
  BY DEF Init
<1>2. queue \in 0..Capacity /\ faults \in 0..MaxFaults
  BY ConstantsAssumption DEF Init
<1>3. QED BY <1>1, <1>2 DEF Init, TypeOK

\* Every variable has its type.
THEOREM RunTypes == Spec => []TypeOK
<1>1. Init => TypeOK
  BY InitTypes
<1>2. ASSUME TypeOK, [Next]_vars PROVE TypeOK'
  <2>1. CASE UNCHANGED vars
    BY <1>2, <2>1 DEF TypeOK, vars, startVars, mainVars, logVars, watchVars
  <2>2. QED BY <1>2, <2>1, Steps, StartupTypes, SceneTypes, MainTypes
<1>3. QED BY <1>1, <1>2, PTL DEF Spec
-----------------------------------------------------------------------------
\* The startup goroutine keeps the invariant.
LEMMA StartupKeepsInv ==
  ASSUME RunInv, TypeOK', Startup
  PROVE  RunInv'
<1> USE DEF RunInv, TypeOK, Opened, CleanedBefore, Closed, DatabaseOutlivesUsers, Outcome,
            GreenMeansFinished, Running, Alive, At, Continue, Finish, startVars,
            mainVars, logVars, watchVars
<1>1. CASE Prepare
  BY <1>1 DEF Prepare
<1>2. CASE Config
  BY <1>2 DEF Config, Continue, Finish
<1>3. CASE ConnectMongodb
  BY <1>3 DEF ConnectMongodb
<1>4. CASE StartLogSaver
  BY <1>4 DEF StartLogSaver
<1>5. CASE PrepareHosts
  BY <1>5 DEF PrepareHosts
<1>6. CASE CleanStopped
  <2>1. /\ UNCHANGED <<flags, mainVars, exitChan, logVars, watchVars, db>>
        /\ stage = "clean" /\ started = "running" /\ ctx' \subseteq ctx
        /\ main \notin {"close_hosts", "close_mongodb", "exit_with_error",
                        "clean_containers", "exited", "panicked"}
    BY <1>6 DEF CleanStopped
  <2>2. \/ stage' = "clean" /\ started' = "error"
        \/ stage' = "nodes" /\ started' = "running" /\ containers'["old"] = "absent"
    BY <1>6 DEF CleanStopped, Remove, Containers
  <2>3. QED BY <2>1, <2>2
<1>7. CASE PrepareNodes
  BY <1>7 DEF PrepareNodes, Containers
<1>8. CASE ContestReady
  BY <1>8 DEF ContestReady
<1>9. CASE StartLogWatcher
  BY <1>9 DEF StartLogWatcher
<1>10. QED
  BY <1>1, <1>2, <1>3, <1>4, <1>5, <1>6, <1>7, <1>8, <1>9 DEF Startup

\* The watcher, its actions, the containers and the saver keep it.
LEMMA SceneKeepsInv ==
  ASSUME RunInv, TypeOK', Scene
  PROVE  RunInv'
<1> USE DEF RunInv, TypeOK, Opened, CleanedBefore, Closed, DatabaseOutlivesUsers, Outcome,
            GreenMeansFinished, Running, Alive, startVars, mainVars, logVars,
            watchVars,
            Watching, Holding, Send
<1>1. CASE HostCommand
  BY <1>1 DEF HostCommand
<1>2. CASE CommandEnds
  BY <1>2 DEF CommandEnds
<1>3. CASE EndWatch
  BY <1>3 DEF EndWatch
<1>4. CASE LogLine
  BY <1>4 DEF LogLine
<1>5. CASE TakeEntry
  BY <1>5 DEF TakeEntry
<1>6. ASSUME NEW S \in SUBSET Nodes \ {{}}, StartNodes(S) PROVE RunInv'
  BY <1>6, ConstantsAssumption DEF StartNodes, Containers
<1>7. ASSUME NEW S \in SUBSET Nodes \ {{}}, StopNodes(S) PROVE RunInv'
  BY <1>7, ConstantsAssumption DEF StopNodes, StopBoxes, Containers
<1>8. ASSUME NEW S \in SUBSET Nodes \ {{}}, InitNodes(S) PROVE RunInv'
  BY <1>8, ConstantsAssumption DEF InitNodes, Containers
<1>9. ASSUME NEW n \in Nodes, ReportEnd(n) PROVE RunInv'
  BY <1>9 DEF ReportEnd, NodeDone
<1>10. ASSUME NEW n \in Nodes, FailRun(n) PROVE RunInv'
  BY <1>10 DEF FailRun, NodeDone
<1>11. ASSUME NEW e \in {"nil", "error"}, Kill(e) PROVE RunInv'
  BY <1>11 DEF Kill
<1>12. ASSUME NEW c \in Containers, NodeEnds(c) PROVE RunInv'
  BY <1>12 DEF NodeEnds, Containers
<1>13. QED
  BY <1>1, <1>2, <1>3, <1>4, <1>5, <1>6, <1>7, <1>8, <1>9, <1>10, <1>11, <1>12 DEF Scene

\* The main goroutine and its close hooks keep it.
LEMMA MainKeepsInv ==
  ASSUME RunInv, TypeOK', Main
  PROVE  RunInv'
<1> USE DEF RunInv, TypeOK, Opened, CleanedBefore, Closed, DatabaseOutlivesUsers, Outcome,
            GreenMeansFinished, Running, Alive, startVars, mainVars, logVars,
            watchVars,
            Exit, Abort, To, NotMain
<1>1. CASE StartupOver
  BY <1>1 DEF StartupOver, Close
<1>2. CASE Signal
  BY <1>2 DEF Signal, Close
<1>3. CASE ReceiveExit
  BY <1>3 DEF ReceiveExit, Close
<1>4. CASE Expire
  BY <1>4 DEF Expire, Close
<1>5. CASE StopSaver
  BY <1>5 DEF StopSaver
<1>6. CASE StopWatcher
  <2>1. /\ main = "stop_watcher" /\ saver = "stopped"
        /\ UNCHANGED <<flags, startVars, exitChan, logVars, target, green, containers, db>>
        /\ snap' = snap /\ exitError' = exitError
    BY <1>6 DEF StopWatcher
  <2>2. \/ main' = "exited" /\ result' = "error" /\ watcher' = watcher
        \/ /\ main' = "close_hosts" /\ result' = result /\ "log_watcher" \in ctx
           /\ watcher' = "ended"
        \/ /\ main' = "stop_watcher" /\ result' = result /\ "log_watcher" \in ctx
           /\ watcher = "idle" /\ watcher' = "waiting"
    BY <1>6 DEF StopWatcher
  <2>3. Opened' /\ CleanedBefore'
    BY <2>1, <2>2
  <2>4. Closed'
    BY <2>1, <2>2
  <2>5. Outcome'
    BY <2>1, <2>2
  <2>6. QED BY <2>3, <2>4, <2>5
<1>7. CASE CloseHosts
  <2>1. /\ UNCHANGED <<flags, startVars, exitChan, logVars, watchVars, db>>
        /\ main = "close_hosts"
        /\ snap' = snap /\ exitError' = exitError
        /\ \/ main' = "close_mongodb" /\ result' = result
           \/ main' = "exited" /\ result' = "error"
    BY <1>7 DEF CloseHosts
  <2>2. \E S \in SUBSET Running : /\ StopBoxes(S)
                                  /\ main' = "close_mongodb" => S = Running
    BY <1>7 DEF CloseHosts
  <2>3. containers["old"] = "absent" => containers'["old"] = "absent"
    BY <2>2 DEF StopBoxes, Containers
  <2>4. main' = "close_mongodb" => Running' = {}
    BY <2>2 DEF StopBoxes
  <2>5. QED BY <2>1, <2>3, <2>4
<1>8. CASE CloseMongodb
  BY <1>8 DEF CloseMongodb
<1>9. CASE ExitWithError
  BY <1>9 DEF ExitWithError
<1>10. CASE CleanContainers
  <2>1. /\ UNCHANGED <<flags, startVars, exitChan, logVars, watchVars, db>>
        /\ main = "clean_containers" /\ main' = "exited" /\ result' \in {"ok", "error"}
        /\ snap' = snap /\ exitError' = exitError
    BY <1>10 DEF CleanContainers
  <2>2. \A c \in Containers : containers'[c] \in {containers[c], "absent"}
    BY <1>10 DEF CleanContainers, Remove
  <2>3. result' = "ok" /\ flags.cleanAfter => \A c \in Containers : containers'[c] = "absent"
    BY <1>10 DEF CleanContainers, Remove
  <2>4. /\ Running' = {}
        /\ containers["old"] = "absent" => containers'["old"] = "absent"
    BY <2>1, <2>2 DEF Containers
  <2>5. QED BY <2>1, <2>3, <2>4
<1>11. QED
  BY <1>1, <1>2, <1>3, <1>4, <1>5, <1>6, <1>7, <1>8, <1>9, <1>10 DEF Main, Closing

\* Every reachable state satisfies the inductive invariant.
THEOREM RunInvariant == Spec => []RunInv
<1>1. Init => RunInv
  <2> SUFFICES ASSUME Init PROVE RunInv
    OBVIOUS
  <2>1. TypeOK
    BY InitTypes
  <2>2. QED
    BY <2>1 DEF Init, RunInv, Opened, CleanedBefore, Closed, DatabaseOutlivesUsers, Outcome,
                GreenMeansFinished, Alive
<1>2. ASSUME RunInv, TypeOK', [Next]_vars PROVE RunInv'
  <2>1. CASE UNCHANGED vars
    BY <1>2, <2>1 DEF RunInv, Opened, CleanedBefore, Closed, DatabaseOutlivesUsers,
                      Outcome, GreenMeansFinished, Running, Alive, vars, startVars,
                      mainVars, logVars, watchVars
  <2>2. QED BY <1>2, <2>1, Steps, StartupKeepsInv, SceneKeepsInv, MainKeepsInv
<1>3. QED BY <1>1, <1>2, RunTypes, PTL DEF Spec
-----------------------------------------------------------------------------
(* What the invariant gives.                                                 *)

\* No container of an earlier run is there when nodes may be started.
THEOREM NothingIsLeftOver == Spec => []NoLeftovers
<1>1. RunInv => NoLeftovers
  BY DEF RunInv, Opened, CleanedBefore, NoLeftovers
<1>2. QED BY <1>1, RunInvariant, PTL

\* After HookCloseHosts nothing runs, and nothing is left that could start a node.
THEOREM HostsStayQuiet == Spec => []ClosedHostsStayQuiet
<1>1. RunInv => ClosedHostsStayQuiet
  BY DEF RunInv, Opened, Closed, ClosedHostsStayQuiet
<1>2. QED BY <1>1, RunInvariant, PTL

\* The connection to mongodb is closed after the saver and the watcher have stopped.
THEOREM DatabaseIsClosedLast == Spec => []DatabaseOutlivesUsers
<1>1. RunInv => DatabaseOutlivesUsers
  BY DEF RunInv, Closed
<1>2. QED BY <1>1, RunInvariant, PTL

\* Exit code 0 tells that the scenario went through and that nothing was left running.
THEOREM ExitCodeIsHonest == Spec => []GreenMeansFinished
<1>1. RunInv => GreenMeansFinished
  BY DEF RunInv, Outcome
<1>2. QED BY <1>1, RunInvariant, PTL
=============================================================================
