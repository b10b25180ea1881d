# contest, in TLA+

`contest` runs the nodes of a mitum blockchain in docker containers, collects
what they print, and drives them through a scenario: a list of sequences, each
with a condition (a mongodb query over the collected logs) and an action
(starting, stopping or initialising nodes, running commands, ending the run).
This directory holds TLA+ modules of its core, TLC configurations that check
them on small instances, and theorems that TLAPS proves about each of its parts
for every value of the constants. Paths are relative to the repository, `src/` being
its root.

## The system

| Component | State | Operations | Talks to |
|---|---|---|---|
| Log saver, `src/host/log_saver.go` | channel of entries, batch, names to sync, files | receive, tick (insert, sync, report), stop | senders: tails, actions, watcher, startup; mongodb; exit channel |
| Log watcher, `src/host/log_watcher.go`, `condition.go`, `sequence.go` | index of the current sequence, lock, storage pool, cached queries, registers | tick: query, register, action; stop | mongodb (read), actions, exit channel |
| Run command, `src/cmds/run.go`, `process_*.go`, `hook_*.go` | context of the processes, exit channel | startup processes and hooks in order, two selects, close hooks | all of the others |
| Actions, `src/cmds/action.go`, `util.go` | containers, waiting goroutines | start, stop, init, custom nodes; kill; host-command | docker, log saver |
| Spreading, `src/cmds/util.go`, `process_host.go` | counts per host | `calcSpreadNodes`, `spreadNodes` | |
| Preparation, `src/host/local_host.go`, `node.go`, `net.go`, `src/config/vars.go`, `map.go` | vars, ports, configurations | prepare hosts and nodes, share configurations | docker, files |
| Tails and log readers, `src/cmds/action.go`, `src/host/container.go` | position in the log file; time of the last line, connection | follow a log file, follow stderr over connections that are opened again | docker, log saver |
| Design and loaders, `src/config/design*.go`, `src/cmds/util.go`, `action.go` | the design, the sequences loaded | merge, validate, load | hosts, log watcher |
| `main.go` | | the command line | |

How they interact: every log line goes through one buffered channel to the log
saver, which writes it to a file and inserts it, in batches, into mongodb. The log
watcher looks for the record its current condition asks for, keeps it in a
register, and runs an action under its lock; actions send entries to the same
channel. Whoever wants to end the run (watcher, kill action, an error line) sends
to the exit channel, and the main goroutine runs the close hooks.

What is hard about it: partial failures of inserts and syncs with retries, Stop
against a running evaluation, a cached query that must not be stale, the order of
the close hooks against goroutines that still send, signals in the middle of the
startup, containers that end while somebody begins to wait for them, log lines
that arrive twice because a tail, a connection or an insert was begun again, vars
that nodes hand on to one another in the random order of a map, and mistakes in a
design that are noticed only when containers are already running.
`PROJECT.json` lists these hazards line by line with the properties that cover
them.

## Modules

| Module | Models | State and actions |
|---|---|---|
| `LogStore` | abstract: what the saver promises | accepted entries, stored set, reported errors |
| `LogSaver` | `log_saver.go`, `Mongodb.AddLogEntries` | the locals of `start` are `entries` and `updated`; each `case` of its select is an action (`Receive`, `Tick` then `Sync`, `CtxDone`), the flush at the end `FinalSave` and `FinalSync`, `Stop` is `StopCancel` and `StopClose`. An insert and the sync after it are two steps, as the process may be told to stop, or entries be sent, between them. Faults are bounded by `MaxFaults`. |
| `Scenario` | abstract: what a scenario promises | conditions matched, actions that succeeded, outcome |
| `LogWatcher` | `log_watcher.go`, `Condition.Query`, `Condition.Check`, `Sequence.SetRegister`, `Mongodb.Find` | the loop is `Boot`, `Tick`, `Current`, then `evaluate` as `NoMatch` or `Match`, `EndAction`, `CompileNext`, the last three with the lock held; `Stop` is `StopLock`, `StopCancel`, `StopJoin` |
| `RunCommand` | `run.go`, the processes and hooks, the kill and host-command actions | `stage` walks the processes of the startup goroutine, `main` the main goroutine and the close hooks; saver and watcher are reduced to a reader of the channel and a holder of the lock, which host-command (`HostCommand`, `CommandEnds`) is too. `StopWatcher` waits for an action, and may (`StopJoins`) wait for good for a goroutine that waits for its lock. |
| `NodeActions` | `StartNodesAction`, `StopNodesAction`, `InitNodesAction`, `CustomNodesAction`, `filterRunningContainers` | a container of each type for each node, a goroutine per node (`Create`, `StartBox`, `Wait`, `ReportDone`, `StopBox`), and the goroutines start-nodes leaves (`BeginWait`, `Report`). Reports go through the channel of the saver, which is reduced to a reader (`TakeEntry`) that may be stopped (`StopSaver`); lines of the nodes (`LogLine`) fill it too. |
| `SpreadNodes` | `calcSpreadNodes`, `spreadNodes` | an action for each turn of the loops: `Seed` gives a host its first node, `Spread` and `Remainder` its share, `Select` slices its nodes off |
| `NodePrepare` | `generateNodesConfig`, `LocalHost.Prepare`, `Node.Prepare`, template functions, `MergeItem` | one action per host, node, call of a template function, end of a template |
| `LogReader` | `ReadContainerLogs` and the goroutine that calls it | `pc` is `connect` in the outer loop, `loop` and `read` in the inner one; each way a Read can come back is an action (`Deliver`, `Cut`, `Misread`, `Grabbing`, `Lost`, `Eof`, `EofWithLine`, `Aborted`) |
| `Pipeline` | `LogSaver` and `LogWatcher` over one collection, `containerLogs`, `StartNodesAction.run` | the variables and actions of the two modules, instantiated; `Read` is a tail that sends a line (`Saver!Send`), `Begin` and `EndAction` are the action between `Match` and `CompileNext` of the watcher |
| `Design` | `DesignYAML.Merge`, `Design.IsValid`, `ProcessHosts`, `ProcessNodes`, the loaders of actions, `NewCondition`, `parseSequence` | a file is chosen and goes through `Merge`, `IsValid`, `SetDatabase`, `PrepareHosts`, `PrepareNodes`, a `ParseSequence` for each sequence and `NewLogWatcher`, each of which may refuse it or panic. Of a text of a node it matters whether it compiles (`Compiles`), merges with the common one (`Clashes`) and gives a `_nodes-config` (`Sharing`). |
| `MCLogSaver`, `MCLogWatcher`, `MCLogReader`, `MCPipeline`, `MCDesign` | | values of the constants for TLC; the other modules are checked as they are |
| `LogSaverProofs`, `LogWatcherProofs`, `PipelineProofs`, `LogReaderProofs`, `RunCommandProofs`, `NodeActionsProofs`, `NodePrepareProofs`, `DesignProofs` | | the theorems and their lemmas; those of `SpreadNodes` are in `DesignProofs`, as it is the hosts of the design that nodes are spread over |

The abstract modules are refined: `ImplementsLogStore` maps the files to the
accepted entries and the collection to the stored ones; `ImplementsScenario` maps
`lw.cl` to the matched conditions and the value on the exit channel to the
outcome. `Pipeline` implements `LogSaver` (`KeepsSaver`) and `LogWatcher`
(`KeepsWatcher`): the collection the saver fills, with its failed and repeated
inserts, only ever grows at its end, as the `log` of `LogWatcher` does by
`AddRecords`. What is proved of the saver and of the watcher is therefore about those
of the composition too.

`Pipeline` does not send to the exit channel and has no error lines; `RunCommand`
has these. The end of a module states the inductive invariant that its theorems rest
on, apart from the invariants that say what the code is to do.

Definitions introduced by the comment "(A slip: ...)" are no part of the models.
Each is a mistake somebody might make in the code beside it, and serves to see
that a property notices it.

## Runs

Every configuration is named in `PROJECT.json` with what it checks.

| Run | Checks | Bounds |
|---|---|---|
| `log_saver` | nothing written is forgotten, stored order, one duplicate per failure, the earliest error is reported, the flush at Stop, the poisoned batch, the refinement of `LogStore`, the inductive invariant; entries are stored in the end and Stop returns | two nodes and the tool, four entries (two errors, one that BSON rejects), a channel of two, two faults: enough for an insert that fails half-way, is retried, and fails again at the sync or at the final flush |
| `log_watcher` | the query is fresh, registers order the matches, nothing after cancelling, the refinement of `Scenario`; a match moves on and Stop returns | four sequences, two storages, two kinds of records, two registers, logs of three records in batches of up to two, one fault; `ContextDaemon.Stop` may wait for its callback or not |
| `pipeline` | when "later" is later, the watcher of the composition is a `LogWatcher`, a line that is waited for moves the scenario on | one node that prints two lines and is started by two of the three sequences, the tool's own line, batches of two, one fault of saver or watcher; the bound on the collection is never reached |
| `log_reader` | no line skipped, no line before an earlier one, all lines delivered but the exceptions below | four lines, two of them of the same time, three faults (each a refused or lost connection, or an error of docker), one frame that is read in two parts |
| `run_command` | leftovers, quiet hosts, the order of closing, the exit code, the startup ends, closing ends unless it is blocked in one of two ways | all flags, two nodes, a channel of two, one fault; Stop of the watcher joins its goroutine or not |
| `spread_nodes` | every node on one host, shares by weight, idle hosts, termination | up to nine nodes, four hosts, weights up to three |
| `node_actions` | one container at a time, reports and ends, actions return unless they are blocked in one of two ways | two nodes, two actions (the second may meet what the first has left), a channel of one, one fault |
| `node_prepare` | ports, shared URLs and variables go to the right node | two nodes on one or two hosts, three calls for each template, one fault |
| `design` | what is loaded is what is written; what is refused late | files, well-formed or not, that leave what is plain in at most two sections: up to two of eleven hosts with any nodes, any nodes or one host with one of some ninety sequences, two sequences, or storage and common values with one sequence; and all texts of up to two nodes, the common one and the nodes-config out of plain, sharing, broken, dependent on other nodes, and null over a value |

What they show that the code does not say:

* A condition `_id > Register.x` asks for a record inserted later, which is not
  always a line printed later. `MatchIsLater` holds only for two lines that the same
  tail has read, and that the saver has inserted once: a node that is stopped and
  started again has its log read from the beginning by another tail, and a batch
  whose sync fails is inserted again. Without either exemption TLC finds a scenario
  that moves on by an old line.
* A connection to docker that is lost before it has delivered a line makes the next
  one begin with the whole log (`NoRewind` excepts it), as the time to resume from is
  local to a connection. One that was lost later repeats only lines of the last
  time.
* `Read` may return less than a frame, which the code does not look at: then the rest
  of the body is taken for a header (`Misread`), and the reader may panic or skip
  lines. `NothingSkipped` and `DeliveredEventually` except it.
* `Read` may also return the last bytes together with `io.EOF`. For a body that is a
  failure to the code, and the line is dropped: the last line of a container that has
  ended can be lost (`EofWithLine`), which `DeliveredEventually` excepts. Nothing is
  skipped by it, as nothing comes after.
* `lw.Stop` holds the lock while it stops the goroutine. If `ContextDaemon.Stop`
  waits for its callback, and that one waits for the lock in `Current` or
  `evaluate`, neither goes on; `StopReturns` names this as the one exception, and
  `ClosesUnlessBlocked` as one of two. The other, for a run that closes, is an action
  that has something to send to the full channel of the saver, which is stopped first.
* The same full channel is one of the two ways in which an action on nodes does not
  return (`ReturnsUnlessBlocked`): init-nodes and custom-nodes end with a report to the
  saver. In the other they wait for a node whose run container they have restarted.
* Much of a design is looked at only when the database was initialised and mongodb is
  running: `LateFaults`. Of two hosts with a weight, the second always fails, as every
  host is local and starts a mongodb container of the same name; and a design in which
  no text of a node gives a `_nodes-config` is a panic (`src/cmds/util.go:286`).
* A register with only `type` or only `to` is dropped without a word, because
  `IsEmpty` holds of it; the error "type and to empty" after it
  (`src/config/design_sequence.go:94`) cannot be reached. So are the nodes of an
  action without a name.
* A host of weight 0 "will be ignored" (`src/config/design.go:88`), but not if it is
  the only one, or if no host has a weight: the exception in `FairShares`.

Three runs look for something a text of the repository says and the code does not
do:

* `exit_after`: `--exit-after` is to "exit contest". The saver is stopped before
  the watcher. If an init or custom action is about to put its entry on a full
  channel, it blocks with the watcher's lock held, and `lw.Stop` waits for that
  lock for ever. The counterexample ends in exactly that state.
* `clean_after`: `--clean-after` is to "clean node containers after exit". The hook
  `exit_with_error` comes first and ends the hooks, so nothing is cleaned after a
  run that fails.
* `custom_nodes`: `custom-nodes` on a stopped node finds the stopped run container,
  starts that one again, and waits for it; the commands are never run.

Deadlock is checked in every run but five. In `run_command`, `exit_after` and
`clean_after` it is the state of `exit_after`; in `log_watcher` and `run_command` Stop
may hold the lock while it waits for a goroutine that waits for the lock. Whether that
can happen depends on `util.ContextDaemon`, which is not in this repository, so
`StopJoins` allows both there; in `pipeline`, `exit_after` and `clean_after` it is never
joined. The saver's own Stop is taken to wait for the last flush (`StopClose` of
`LogSaver`). In `node_actions` the
full channel of a stopped saver is a state in which all may wait (`Stuck`), and no
deadlock. In `design` a file that was refused goes no further.

### Fairness

* Log saver: Go's select picks among ready cases at random, so a case that is ready
  again and again is taken: strong fairness for `Receive`, `Tick` and `CtxDone`; weak
  fairness for what the goroutine and Stop do next by themselves. Senders are free.
* Log watcher: weak fairness for the loop, strong for `CtxDone` (select) and for
  `StopLock` (a writer that waits for a Go RWMutex is not overtaken for ever by
  readers). An action is assumed to end, which `run_command` does not assume.
* Run command: goroutines run, the timer fires, a container that an action waits for
  ends. Nothing makes a signal come, a condition match or a node log a line.
* Node actions: goroutines run; init and custom commands end, a node may run for ever.
  The saver takes entries until it is stopped, and a goroutine that waits for room in the
  channel gets it in the end (strong fairness): Go serves senders in their order.
* Pipeline: what is fair in its parts, and strong fairness for a tail, which waits for
  room in the channel among other senders. Nothing makes a node print or a run stop.
* Log reader: weak fairness for the goroutine; docker answers. Nothing makes a
  container print or end, or a connection fail.
* A host-command ends: its context has a timeout of 30 seconds. (A command that
  leaves a process behind with its output open would keep it waiting.)
* Spreading: the computation goes on. Design states no liveness.

## What is proved

Every safety property that a run checks, and the refinements, are theorems for every
value of the constants; each proof needs only the assumptions its module names, which
TLC evaluates in the runs. A proof has three parts: the inductive invariant holds at the
beginning, every action keeps it (a step for each action, and below it one for each
conjunct the action can disturb), and the property follows from it. TLC has looked for a
counterexample to each invariant, over small instances, before it was proved; only
`SaverInv` stays in a run, as the properties of the other runs follow from the proofs.

**`LogSaverProofs`**, for every set of entries and names, every capacity of the channel
and every number of faults: `TypeCorrect`, `SaverInvariant`, `NothingIsLost`,
`ArrivalOrder`, `SavedEntriesAreSynced`, `EarliestErrorIsReported`, `StopFlushes`,
`SaverImplementsLogStore`, `FaultsMakeDuplicates`, `NothingAfterMalformed`,
`PredecessorsComeFirst`.

None of the properties is inductive: that nothing is lost when a batch is forgotten
needs that everything has been stored by then, which needs to know where the goroutine
is (`AllStoredAfterInsert`); that the stored entries are an initial segment after a
partial retry needs that the batch is the end of the written entries (`BatchIsSuffix`)
and that everything before it is stored (`StoredUpToBatch`); that synced files suffice
needs that `updated` names every file of the batch (`BatchIsUpdated`). These make up
`SaverInv`. In the refinement `Receive` maps to `Accept`, a partial or whole insert to
`Store`, and a sync that reports an error line to `Report`, because by then the line is
in the database. `CopiesInv` adds a count: an entry has a copy for each failure, and one
more if it is not to be inserted again before the next; it rests on an entry being sent,
and so written, once (`SentOnce`).

**`LogWatcherProofs`**, for every number of sequences, every assignment of conditions,
registers and actions, every number of faults, and whether `ContextDaemon.Stop` waits
for its callback or not: `WatcherInvariant`, `WatcherTypes`, `EvaluationIsLocked`,
`QueryIsFresh`, `MatchesFollowRegisters`, `NothingRunsAfterCancel`,
`WatcherImplementsScenario`, `MatchesAreRecords`.

The invariant is `WatcherInv`. A cached query is fresh only because the queries are
compiled in turn (`CompiledInTurn`): a match changes the registers at the moment in
which no query of a later condition exists. A condition matches behind the record
of its register because a register keeps what the last sequence to set it matched
(`RegistersKept`) and the query is made of it. That nothing runs after a
cancellation needs that `Stop` cancels while it holds the lock, so never between a
match and the end of its evaluation (the last part of `Progress`), and it holds too
where `Stop` returns before the goroutine ends. In the refinement `Match` maps to
`Match`, `CompileNext` to `RunAction` and `Exit` to `Finish` or `Abort`: a nil on
`exitChan` with no cancellation comes only from the end of the last sequence.

**`PipelineProofs`**, for every scenario, every number of nodes and what they print:
`NodesInvariant`, `PipelineKeepsSaver`, `InsertsAreCounted`, `CollectionHasRoom`,
`PipelineKeepsWatcher`, `LinesPassInOrder`, `LaterIdsAreLaterLines`.

Every step of the composition is one of its saver, so the theorems of `LogSaverProofs`
hold of it by instance; every step is one of its watcher or leaves its variables alone,
because an insert only appends to the collection. What had to be added is a count
(`DbCounted`): what is stored and what is still to be stored are at most what is written
and a batch for each fault, so `MaxLog`, the bound of the watcher's log, is never
reached and hides nothing. That a greater `_id` is a later line of a tail goes through
three stages: the channel and the files keep the order of a tail (`ReadInOrder`); each
copy of an entry in the collection has all that was written before the entry at smaller
`_id`s (`PredecessorsFirst`); so, if the line that was matched later were the earlier
one, it would have a copy in front of the record of the register and, by
`MatchesAfterRegister`, one behind it, which is one more than the single copy the
property allows.

**`LogReaderProofs`**, for every list of lines in the order of their times, however many
of the same time: `ReaderTypes`, `ReaderInvariant`, `NoLineSkipped`, `NoLineRewinds`.

A connection begins with the first line that is not older than `since`. No line is
skipped because that one is at most one after the lines delivered (`NextIsAdjacent`),
and none is older than one of them because `since` is the time of the last one
(`NextIsNoOlder`), each as long as no frame was cut, and the second as long as every
connection has delivered something. That there is a first such line is the least-number
principle, which the library has for the order of the natural numbers.

**`RunCommandProofs`**, for all flags, all nodes and every capacity of the channel:
`RunTypes`, `RunInvariant`, `NothingIsLeftOver`, `HostsStayQuiet`,
`DatabaseIsClosedLast`, `ExitCodeIsHonest`.

The close hooks read the context, and what it does not hold they leave alone: the proofs
need that the saver and the watcher are there when their keys are, and the watcher only
when the startup was over (`Opened`). That hosts stay quiet is then what the hooks
before `close_hosts` have stopped and nothing starts again (`Closed`); that an exit code
of 0 is honest needs who may send nil to the exit channel, and that each hook that is
passed was passed without an error (`Outcome`).

**`NodeActionsProofs`**, for all nodes and any number of actions: `ActionsInvariant`,
`OneContainerRuns`, `ReportsHaveEnds`.

A second container of a node cannot run because what runs is what the goroutine of the
node has started, or the run container that its action leaves alone (`RunningIsOwn`). A
report is of an end because the goroutines that start-nodes leaves behind, those that
have been told and those that have not, are together no more than the ends of the run
container, and one more while it runs (`ReportsCounted`). Both exempt docker failing, as
the properties do: a wait that fails is reported as an end too.

**`NodePrepareProofs`**, for all nodes, hosts and templates: `PrepareInvariant`,
`NodesOwnTheirPorts`, `NodesReachTheirPeers`, `NodesPrintCommonX`.

Ports differ because those of a host are the first so many (`PortsCounted`) and each
that a node was given is among them (`AskedOfHost`). Peers are reached at the right port
because the URL a node shares has the first port its templates were given
(`FirstPortStays`), and because only one host is ever prepared with nodes
(`SharedByOne`): `AllShared` is replaced, not merged, by the next one.

**`DesignProofs`**, for every file that YAML can have read: `DesignInvariant`,
`WhatIsWrittenIsLoaded`, `WhatIsRefusedLate`; and for every number of nodes and all
weights of the hosts: `SpreadInvariant`, `NodesAreSpread`, `SharesAreFair`,
`ChosenHostsAreServed`.

A scenario is as it is written because the loops of `Merge` leave at the first section
they refuse, so a design that goes on is merged in full (`MergedInFull`), because what
`IsValid` changes in it (a host's name, an incomplete register) is known (`Validated`),
and because the sequences loaded are those of the design, in turn (`LoadedInTurn`). A
design that is refused later is refused for one of `LateFaults`, because what
`PrepareHosts`, `PrepareNodes` and the loaders look at is in the file as it is in the
design (`Validated`), and because there is a host for the nodes, and a second one only
where two have a weight (`HostsGiven`).

Of the spreading, that every node is on one host rests on the sums of the counts
(`CountsAddUp`: there are partial sums that end in `n`, and the slicing loop is at the
one of its host) and on what the slices so far are (`SelectedInTurn`). That the shares
are fair rests on the counts being in the order of the weights after every round, with
the hosts that have had their share of this round put back (`FairInTurn`, `Before`).
`Design` does not count: it says how many hosts are given nodes, and lets any with a
weight be those (`Chosen`). `ChosenHostsAreServed` is the fact it relies on, and is
proved of `calcSpreadNodes` (`SelectedByCount`, `OneWithoutWeights`); no run checks
`HostsServed`, which TLC has confirmed within the bounds of `spread_nodes`. The shares of
the theorems are exact quotients; that the code's floats give the same was seen for up
to 15 nodes.

The proofs changed the models where these could not be reasoned about as they were: the
steps of `NodeActions` overlapped in the arms of a case, a condition of `LogWatcher` on
how Stop joins the goroutine had the wrong precedence, the slicing of the nodes was one
step where the code has a loop, and `Design` took an empty text for a register and an
address like ":22" for a host, both of which the code refuses.

Only model-checked: everything under fairness (`StoredEventually`, `StopTerminates`,
`MatchAdvances`, `StopReturns`, `LineMovesScenario`, `DeliveredEventually`,
`StartupEnds`, `ClosesUnlessBlocked`, `SpreadEnds`, `EndsAreReported`,
`ReturnsUnlessBlocked`), because liveness and `ENABLED` are out of the prover's reach,
and the properties that the three runs for violations refute. Induction over data is out of its
reach too; where an argument is by induction, it is by the steps of the specification,
with a witness in the invariant (the partial sums, the number of the lines delivered).


## What is left out, and why

* The text of log lines and the normalisation of keys: data that no property tells
  apart. What matters of an entry (its node, whether it is an error line, whether BSON
  takes it) is a constant of `LogSaver`, its kind one of `LogWatcher` and `Pipeline`.
* YAML itself: `Design` begins with a `DesignYAML` that has been read. The template in
  `vars` is run before, by `HookVars`, and refused before anything is touched. Texts of
  nodes are tokens in `Design`: what templates do is in `NodePrepare`.
* In `Pipeline`, the reports of ended containers, which `NodeActions` has, and error
  lines; init-nodes opens the same tail as start-nodes.
* Connecting to mongodb and the creation of its indices; copying the runner, pulling
  images and the options of containers: I/O without state of its own.
* `main.go`.
* Remote hosts: the code has only local ones (`newHost`), all with the docker of the
  environment. Because every host creates its mongodb container under one name, a
  second host with nodes fails, in `NodePrepare` as in the code.
* `nodes-config` templates that call `ContainerBindPort`, which would bind on the node
  that happened to be prepared last; no scenario has one.
* Real time: tickers and timers may fire at any time.

## Plan

1. Done: `LogStore`, `LogSaver` and its proofs; `Scenario`, `LogWatcher` and its
   proofs; `RunCommand`; `SpreadNodes`; `NodeActions`; `NodePrepare`; `LogReader`;
   `Design`; `Pipeline`, the composition of saver, watcher and tails.
2. Done: `RunCommandProofs` and `NodePrepareProofs`.
3. Done: `LogReaderProofs`, and `NodeActionsProofs`.
4. Done: `NothingStoredAfterMalformed` and `DuplicatesOnlyByFaults`, by an invariant that
   counts copies.
5. Done: `PipelineProofs`, with the refinements and `MatchIsLater`; `DesignProofs`, with
   the spreading of nodes and with `PrepareNodes` between hosts and loaders.
6. Left: action properties of `RunCommand` (a close hook never goes back to one before
   it, nothing is started after the first select is left), which `Closed` is close to;
   that the saver and the watcher `RunCommand` reduces them to are those of `LogSaver` and
   `LogWatcher`; in `Scenario`, fairness, so that `LogWatcher` implements it with its
   liveness.
7. Left: the hazards without a property in `PROJECT.json`, each with the reason.
