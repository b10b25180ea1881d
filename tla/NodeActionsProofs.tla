-------------------------- MODULE NodeActionsProofs --------------------------
(* Theorems about NodeActions, for every set of nodes, every number of       *)
(* actions and of faults.                                                    *)
EXTENDS NodeActions, FiniteSetTheorems, TLAPS

\* The container that the goroutine of an action creates or starts is one.
LEMMA TargetIsBox ==
  ASSUME TypeOK, StepsOfAction, act # "none", NEW n \in Nodes, step[n] \notin {"stop", "end"}
  PROVE  Run \in Boxes /\ Own \in Boxes /\ Target(n) \in Boxes
<1>1. act \in {"start", "init", "custom"} /\ calls \in 1..MaxCalls
  BY BoundsAssumption DEF TypeOK, StepsOfAction
<1>2. Own \in Boxes
  BY <1>1 DEF Own, Boxes, Custom
<1>3. QED BY <1>2 DEF Target, Boxes

\* What others send, and the saver, change nothing but the channel.
LEMMA ChannelSteps ==
  LogLine \/ TakeEntry \/ StopSaver
  => UNCHANGED <<box, act, calls, ids, step, failed, over, spawned, waiting, due, reports,
                 ends, faults>>
BY DEF LogLine, TakeEntry, StopSaver, NotChannel, waiters

\* The steps that start or end a container, with what they tell to others.
LEMMA BoxSteps ==
  ASSUME TypeOK, StepsOfAction, [Next]_vars
  PROVE  \/ UNCHANGED box
         \/ \E n \in Nodes, b \in Boxes :
               \/ /\ step[n] = "create" /\ act # "none"
                  /\ Become(n, b, "created") /\ step' = [step EXCEPT ![n] = "start"]
                  /\ box[n][b] = "absent"
               \/ /\ step[n] = "start" /\ act # "none" /\ b = Target(n)
                  /\ Become(n, b, "running")
               \/ box[n][b] = "running" /\ Become(n, b, "exited")
<1>1. CASE \E n \in Nodes : Create(n)
  BY <1>1, TargetIsBox DEF Create
<1>2. CASE \E n \in Nodes : StartBox(n)
  BY <1>2, TargetIsBox DEF StartBox
<1>3. CASE \E n \in Nodes : StopBox(n)
  BY <1>3 DEF StopBox, Boxes
<1>4. CASE \E n \in Nodes, b \in Boxes : BoxEnds(n, b)
  BY <1>4 DEF BoxEnds
<1>5. QED
  BY <1>1, <1>2, <1>3, <1>4, ChannelSteps
     DEF Next, vars, Call, Goroutine, Waiter, Wait, BeginWait, Report, Return,
         Terminating, ReportDone

\* Types are kept.
LEMMA TypesKept ==
  ASSUME TypeOK, StepsOfAction, [Next]_vars
  PROVE  TypeOK'
<1>1. box' \in [Nodes -> [Boxes -> {"absent", "created", "running", "exited"}]]
  <2>1. box \in [Nodes -> [Boxes -> {"absent", "created", "running", "exited"}]]
    BY DEF TypeOK
  <2>2. ASSUME NEW n \in Nodes, NEW b \in Boxes,
               NEW s \in {"absent", "created", "running", "exited"}, Become(n, b, s)
        PROVE  box' \in [Nodes -> [Boxes -> {"absent", "created", "running", "exited"}]]
    <3>1. [box[n] EXCEPT ![b] = s] \in [Boxes -> {"absent", "created", "running", "exited"}]
      BY <2>1
    <3>2. QED BY <2>1, <2>2, <3>1 DEF Become
  <2>3. QED BY <2>1, <2>2, BoxSteps
<1>2. act' \in {"none", "start", "stop", "init", "custom"} /\ failed' \in BOOLEAN
      /\ over' \in BOOLEAN
  <2>1. act' \in {"none", "start", "stop", "init", "custom"}
    BY ChannelSteps
       DEF TypeOK, Next, vars, Call, Goroutine, Waiter, Create, StartBox, Wait, StopBox,
           BeginWait, Report, Return, BoxEnds, Terminating, ReportDone
  <2>2. UNCHANGED failed \/ failed' = TRUE
    BY ChannelSteps
       DEF Next, vars, Call, Goroutine, Waiter, Create, StartBox, Wait, StopBox, Done,
           Waited, Fail, BeginWait, Report, Return, BoxEnds, Terminating, ReportDone
  <2>3. over' = over \/ over' = failed \/ over' = TRUE
    BY ChannelSteps
       DEF Next, vars, Call, Goroutine, Waiter, Create, StartBox, Wait, StopBox,
           BeginWait, Report, Return, BoxEnds, Terminating, ReportDone
  <2>4. QED BY <2>1, <2>2, <2>3 DEF TypeOK
<1>3. calls' \in 0..MaxCalls
  <2>1. UNCHANGED calls \/ (calls < MaxCalls /\ calls' = calls + 1)
    BY ChannelSteps
       DEF Next, vars, Call, Goroutine, Waiter, Create, StartBox, Wait, StopBox,
           BeginWait, Report, Return, BoxEnds, Terminating, ReportDone
  <2>2. QED BY <2>1, BoundsAssumption DEF TypeOK
<1>4. faults' \in 0..MaxFaults
  <2>1. UNCHANGED faults \/ Fault
    BY ChannelSteps
       DEF Next, vars, Call, Goroutine, Waiter, Create, StartBox, Wait, StopBox,
           BeginWait, Report, Return, BoxEnds, Terminating, ReportDone
  <2>2. QED BY <2>1, BoundsAssumption DEF TypeOK, Fault
<1>5. ids' \in [Nodes -> {"skip", "none", "run"}]
      /\ step' \in [Nodes -> {"create", "start", "wait", "report", "stop", "end"}]
  <2>1. ids \in [Nodes -> {"skip", "none", "run"}]
        /\ step \in [Nodes -> {"create", "start", "wait", "report", "stop", "end"}]
    BY DEF TypeOK
  <2>2. CASE \E a \in {"start", "stop", "init", "custom"}, S \in SUBSET Nodes \ {{}} : Call(a, S)
    <3>1. PICK a \in {"start", "stop", "init", "custom"}, S \in SUBSET Nodes : Call(a, S)
      BY <2>2
    <3>2. CASE UNCHANGED <<ids, step>>
      BY <2>1, <3>2
    <3>3. CASE /\ ids' = [n \in Nodes |-> IF n \in S THEN FilterRunning(n, a # "stop")
                                          ELSE "skip"]
               /\ step' = [n \in Nodes |-> FirstStep(a, ids'[n])]
      <4>1. \A n \in Nodes : FilterRunning(n, a # "stop") \in {"skip", "none", "run"}
        BY DEF FilterRunning
      <4>2. ids' \in [Nodes -> {"skip", "none", "run"}]
        BY <3>3, <4>1
      <4>3. \A id \in {"skip", "none", "run"} :
               FirstStep(a, id) \in {"create", "start", "wait", "report", "stop", "end"}
        BY DEF FirstStep
      <4>4. QED BY <3>3, <4>2, <4>3
    <3>4. QED BY <3>1, <3>2, <3>3 DEF Call
  <2>3. CASE \E n \in Nodes : Goroutine(n) \/ ReportDone(n)
    BY <2>1, <2>3 DEF Goroutine, Create, StartBox, Wait, ReportDone, StopBox, Done, Waited, Fail
  <2>4. QED
    BY <2>1, <2>2, <2>3, ChannelSteps
       DEF Next, vars, Waiter, BeginWait, Report, Return, BoxEnds, Terminating,
           ReportDone
<1>6. {spawned, waiting, due, reports, ends}' \subseteq [Nodes -> Nat]
  <2>1. {spawned, waiting, due, reports, ends} \subseteq [Nodes -> Nat]
    BY DEF TypeOK
  <2>2. ASSUME NEW n \in Nodes, Spawn(n)
        PROVE  {spawned, waiting, due, reports}' \subseteq [Nodes -> Nat]
    BY <2>1, <2>2 DEF Spawn
  <2>3. ASSUME NEW n \in Nodes, RunEnds(n)
        PROVE  {spawned, waiting, due, reports, ends}' \subseteq [Nodes -> Nat]
    BY <2>1, <2>3 DEF RunEnds
  <2>4. ASSUME NEW n \in Nodes, Waiter(n)
        PROVE  {spawned, waiting, due, reports, ends}' \subseteq [Nodes -> Nat]
    <3>1. CASE BeginWait(n)
      BY <2>1, <3>1 DEF BeginWait
    <3>2. CASE Report(n)
      BY <2>1, <3>2 DEF Report
    <3>3. QED BY <2>4, <3>1, <3>2 DEF Waiter
  <2>5. CASE \E n \in Nodes : StartBox(n)
    BY <2>1, <2>2, <2>5 DEF StartBox, waiters
  <2>6. CASE \E n \in Nodes : StopBox(n)
    BY <2>1, <2>3, <2>6 DEF StopBox, waiters
  <2>7. CASE \E n \in Nodes, b \in Boxes : BoxEnds(n, b)
    BY <2>1, <2>3, <2>7 DEF BoxEnds, waiters
  <2>8. QED
    BY <2>1, <2>4, <2>5, <2>6, <2>7, ChannelSteps
       DEF Next, vars, waiters, Call, Goroutine, Create, Wait, Return, Terminating,
           ReportDone
<1>7. saver' \in {"on", "stopped"} /\ queue' \in 0..Capacity
  <2>1. \/ UNCHANGED <<saver, queue>>
        \/ Send
        \/ UNCHANGED saver /\ queue > 0 /\ queue' = queue - 1
        \/ saver' = "stopped" /\ UNCHANGED queue
    BY DEF Next, vars, channel, Call, Goroutine, Waiter, Create, StartBox, Wait, ReportDone,
           StopBox, BeginWait, Report, Return, BoxEnds, LogLine, TakeEntry, StopSaver,
           Terminating
  <2>2. QED BY <2>1, BoundsAssumption DEF TypeOK, Send
<1>8. QED BY <1>1, <1>2, <1>3, <1>4, <1>5, <1>6, <1>7 DEF TypeOK

\* Only an action has goroutines, and those of stop-nodes stop containers.
LEMMA StepsKept ==
  ASSUME TypeOK, StepsOfAction, [Next]_vars
  PROVE  StepsOfAction'
<1> USE DEF StepsOfAction
<1>1. step \in [Nodes -> {"create", "start", "wait", "report", "stop", "end"}] /\ calls \in Nat
  BY DEF TypeOK
<1>2. CASE \E a \in {"start", "stop", "init", "custom"}, S \in SUBSET Nodes \ {{}} : Call(a, S)
  <2>1. PICK a \in {"start", "stop", "init", "custom"}, S \in SUBSET Nodes : Call(a, S)
    BY <1>2
  <2>2. CASE act' = a /\ step' = [n \in Nodes |-> FirstStep(a, ids'[n])]
    <3>1. a = "stop" => \A id : FirstStep(a, id) \in {"stop", "end"}
      BY DEF FirstStep
    <3>2. calls' > 0
      BY <1>1, <2>1 DEF Call
    <3>3. QED BY <2>2, <3>1, <3>2
  <2>3. CASE UNCHANGED <<act, step>>
    BY <2>1, <2>3 DEF Call
  <2>4. QED BY <2>1, <2>2, <2>3 DEF Call
<1>3. CASE \E n \in Nodes : Goroutine(n) \/ ReportDone(n)
  <2>1. PICK n \in Nodes : Goroutine(n) \/ ReportDone(n)
    BY <1>3
  <2>2. /\ act # "none" /\ UNCHANGED <<act, calls>> /\ step[n] # "end"
        /\ \E s : step' = [step EXCEPT ![n] = s] /\ (step[n] = "stop" => s = "end")
    BY <2>1 DEF Goroutine, Create, StartBox, Wait, ReportDone, StopBox, Done, Waited, Fail
  <2>3. QED BY <1>1, <2>2
<1>4. CASE Return
  BY <1>4 DEF Return
<1>5. CASE (\E n \in Nodes : Waiter(n)) \/ (\E n \in Nodes, b \in Boxes : BoxEnds(n, b))
           \/ LogLine \/ TakeEntry \/ StopSaver \/ UNCHANGED vars
  BY <1>5, ChannelSteps DEF Waiter, BeginWait, Report, BoxEnds, vars
<1>6. QED BY <1>2, <1>3, <1>4, <1>5 DEF Next, Terminating

\* Without a fault, what runs is what the goroutine of a node waits for, or the run
\* container of a node without one that waits.
LEMMA RunningKept ==
  ASSUME TypeOK, StepsOfAction, RunningIsOwn, [Next]_vars, faults' = 0
  PROVE  RunningIsOwn'
<1>1. /\ faults = 0
      /\ step \in [Nodes -> {"create", "start", "wait", "report", "stop", "end"}]
      /\ box \in [Nodes -> [Boxes -> {"absent", "created", "running", "exited"}]]
  <2>1. UNCHANGED faults \/ Fault
    BY ChannelSteps
       DEF Next, vars, Call, Goroutine, Waiter, Create, StartBox, Wait, StopBox,
           BeginWait, Report, Return, BoxEnds, Terminating, ReportDone
  <2>2. QED BY <2>1 DEF TypeOK, Fault
<1>2. \A n \in Nodes, b \in Boxes :
         box[n][b] = "running" => /\ step[n] \notin {"create", "start"}
                                  /\ b = IF step[n] = "wait" THEN Target(n) ELSE Run
  BY <1>1 DEF RunningIsOwn
<1>3. ~Fault
  BY <1>1 DEF Fault
<1> SUFFICES ASSUME NEW k \in Nodes, NEW c \in Boxes, box'[k][c] = "running"
             PROVE  /\ step'[k] \notin {"create", "start"}
                    /\ c = IF step'[k] = "wait" THEN Target(k)' ELSE Run
  BY DEF RunningIsOwn
<1>4. CASE \E a \in {"start", "stop", "init", "custom"}, S \in SUBSET Nodes \ {{}} : Call(a, S)
  <2>1. PICK a \in {"start", "stop", "init", "custom"}, S \in SUBSET Nodes : Call(a, S)
    BY <1>4
  <2>2. /\ UNCHANGED box /\ act = "none"
        /\ ids' = [n \in Nodes |-> IF n \in S THEN FilterRunning(n, a # "stop")
                                   ELSE "skip"]
        /\ step' = [n \in Nodes |-> FirstStep(a, ids'[n])]
    BY <1>3, <2>1 DEF Call
  <2>3. c = Run /\ box[k][Run] = "running"
    BY <1>2, <2>2 DEF StepsOfAction
  <2>4. a # "stop" => ids'[k] = "skip"
    BY <2>2, <2>3 DEF FilterRunning
  <2>5. step'[k] \in {"stop", "end"}
    BY <2>2, <2>4 DEF FirstStep
  <2>6. QED BY <2>3, <2>5
<1>5. UNCHANGED <<act, calls, ids>> => Target(k)' = Target(k)
  BY DEF Target, Own
<1>6. CASE \E n \in Nodes : Create(n)
  <2>1. PICK n \in Nodes : Create(n)
    BY <1>6
  <2>2. /\ step[n] = "create" /\ act # "none" /\ UNCHANGED <<act, calls, ids>>
        /\ \E s : step' = [step EXCEPT ![n] = s]
        /\ UNCHANGED box \/ Become(n, Own, "created")
    BY <1>3, <2>1 DEF Create, Fail
  <2>3. Own \in Boxes
    BY <2>2, TargetIsBox
  <2>4. box[k][c] = "running"
    BY <1>1, <2>2, <2>3 DEF Become
  <2>5. k # n
    BY <1>2, <2>2, <2>4
  <2>6. step'[k] = step[k]
    BY <1>1, <2>2, <2>5
  <2>7. QED BY <1>2, <1>5, <2>2, <2>4, <2>6
<1>7. CASE \E n \in Nodes : StartBox(n)
  <2>1. PICK n \in Nodes : StartBox(n)
    BY <1>7
  <2>2. /\ step[n] = "start" /\ act # "none" /\ UNCHANGED <<act, calls, ids>>
        /\ Become(n, Target(n), "running")
        /\ step' = [step EXCEPT ![n] = IF act = "start" THEN "end" ELSE "wait"]
    BY <1>3, <2>1 DEF StartBox
  <2>3. Target(n) \in Boxes
    BY <2>2, TargetIsBox
  <2>4. CASE k = n
    <3>1. box[n][c] # "running"
      BY <1>2, <2>2
    <3>2. c = Target(n)
      BY <1>1, <2>2, <2>3, <2>4, <3>1 DEF Become
    <3>3. act = "start" => Target(n) = Run
      BY DEF Target, Own
    <3>4. step'[k] = IF act = "start" THEN "end" ELSE "wait"
      BY <1>1, <2>2, <2>4
    <3>5. QED BY <1>5, <2>2, <2>4, <3>2, <3>3, <3>4
  <2>5. CASE k # n
    <3>1. step'[k] = step[k] /\ box'[k] = box[k]
      BY <1>1, <2>2, <2>5 DEF Become
    <3>2. QED BY <1>2, <1>5, <2>2, <3>1
  <2>6. QED BY <2>4, <2>5
<1>8. CASE \E n \in Nodes : Wait(n) \/ ReportDone(n) \/ StopBox(n)
  <2>1. PICK n \in Nodes : Wait(n) \/ ReportDone(n) \/ StopBox(n)
    BY <1>8
  <2>2. /\ UNCHANGED <<act, calls, ids>>
        /\ \E s \in {"report", "end"} : step' = [step EXCEPT ![n] = s]
        /\ UNCHANGED box \/ Become(n, Run, "exited")
        /\ \/ step[n] = "wait" /\ UNCHANGED box /\ box[n][Target(n)] # "running"
           \/ step[n] \in {"report", "stop"}
    BY <1>3, <2>1 DEF Wait, ReportDone, StopBox, Done, Waited, Fail
  <2>3. Run \in Boxes
    BY DEF Boxes
  <2>4. box[k][c] = "running"
    BY <1>1, <2>2, <2>3 DEF Become
  <2>5. CASE k = n
    <3>1. c = Run
      BY <1>2, <2>2, <2>4, <2>5
    <3>2. step'[k] \in {"report", "end"}
      BY <1>1, <2>2, <2>5
    <3>3. QED BY <3>1, <3>2
  <2>6. CASE k # n
    <3>1. step'[k] = step[k]
      BY <1>1, <2>2, <2>6
    <3>2. QED BY <1>2, <1>5, <2>2, <2>4, <3>1
  <2>7. QED BY <2>5, <2>6
<1>9. CASE Return
  BY <1>2, <1>9 DEF Return, StepsOfAction
<1>10. CASE \E n \in Nodes, b \in Boxes : BoxEnds(n, b)
  <2>1. PICK n \in Nodes, b \in Boxes : BoxEnds(n, b)
    BY <1>10
  <2>2. Become(n, b, "exited") /\ UNCHANGED <<act, calls, ids, step>>
    BY <2>1 DEF BoxEnds
  <2>3. box[k][c] = "running"
    BY <1>1, <2>2 DEF Become
  <2>4. QED BY <1>2, <1>5, <2>2, <2>3
<1>11. CASE (\E n \in Nodes : Waiter(n)) \/ LogLine \/ TakeEntry \/ StopSaver \/ UNCHANGED vars
  <2>1. UNCHANGED <<box, act, calls, ids, step>>
    BY <1>11, ChannelSteps DEF Waiter, BeginWait, Report, vars
  <2>2. QED BY <1>2, <1>5, <2>1
<1>12. QED
  BY <1>4, <1>6, <1>7, <1>8, <1>9, <1>10, <1>11 DEF Next, Goroutine, Terminating

\* Without a fault, the reports of a node are no more than its ends.
LEMMA CountsKept ==
  ASSUME TypeOK, StepsOfAction, RunningIsOwn, ReportsCounted, [Next]_vars, faults' = 0
  PROVE  ReportsCounted'
<1>1. /\ faults = 0
      /\ box \in [Nodes -> [Boxes -> {"absent", "created", "running", "exited"}]]
      /\ spawned \in [Nodes -> Nat] /\ waiting \in [Nodes -> Nat] /\ due \in [Nodes -> Nat]
      /\ reports \in [Nodes -> Nat] /\ ends \in [Nodes -> Nat]
  <2>1. UNCHANGED faults \/ Fault
    BY ChannelSteps
       DEF Next, vars, Call, Goroutine, Waiter, Create, StartBox, Wait, StopBox,
           BeginWait, Report, Return, BoxEnds, Terminating, ReportDone
  <2>2. QED BY <2>1 DEF TypeOK, Fault
<1>2. Run \in Boxes
  BY DEF Boxes
<1>3. ~Fault
  BY <1>1 DEF Fault
<1> SUFFICES ASSUME NEW k \in Nodes
             PROVE  /\ due'[k] + reports'[k] <= ends'[k]
                    /\ spawned'[k] + waiting'[k] + due'[k] + reports'[k]
                           <= ends'[k] + (IF box'[k][Run] = "running" THEN 1 ELSE 0)
  BY DEF ReportsCounted
<1>4. /\ due[k] + reports[k] <= ends[k]
      /\ spawned[k] + waiting[k] + due[k] + reports[k]
             <= ends[k] + (IF box[k][Run] = "running" THEN 1 ELSE 0)
      /\ spawned[k] \in Nat /\ waiting[k] \in Nat /\ due[k] \in Nat /\ reports[k] \in Nat
      /\ ends[k] \in Nat
  BY <1>1 DEF ReportsCounted
<1>5. CASE \E n \in Nodes : StartBox(n)
  <2>1. PICK n \in Nodes : StartBox(n)
    BY <1>5
  <2>2. /\ step[n] = "start" /\ act # "none" /\ Become(n, Target(n), "running") /\ Spawn(n)
        /\ UNCHANGED ends
    BY <1>3, <2>1 DEF StartBox
  <2>3. UNCHANGED <<waiting, due, reports>>
    BY <2>2 DEF Spawn
  <2>4. Target(n) \in Boxes
    BY <2>2, TargetIsBox
  <2>5. CASE k = n /\ act = "start"
    <3>1. Target(n) = Run /\ spawned'[k] = spawned[k] + 1
      BY <1>1, <2>2, <2>5 DEF Target, Own, Spawn
    <3>2. box[k][Run] # "running" /\ box'[k][Run] = "running"
      BY <1>1, <1>2, <2>2, <2>5, <3>1 DEF RunningIsOwn, Become
    <3>3. QED BY <1>4, <2>2, <2>3, <3>1, <3>2
  <2>6. CASE ~(k = n /\ act = "start")
    <3>1. spawned'[k] = spawned[k]
      BY <1>1, <2>2, <2>6 DEF Spawn
    <3>2. box[k][Run] = "running" => box'[k][Run] = "running"
      BY <1>1, <1>2, <2>2, <2>4 DEF Become
    <3>3. QED BY <1>4, <2>2, <2>3, <3>1, <3>2
  <2>7. QED BY <2>5, <2>6
<1>6. ASSUME NEW n \in Nodes, RunEnds(n), Become(n, Run, "exited"), box[n][Run] = "running"
      PROVE  /\ due'[k] + reports'[k] <= ends'[k]
             /\ spawned'[k] + waiting'[k] + due'[k] + reports'[k]
                    <= ends'[k] + (IF box'[k][Run] = "running" THEN 1 ELSE 0)
  <2>1. UNCHANGED <<spawned, reports>>
    BY <1>6 DEF RunEnds
  <2>2. CASE k = n
    <3>1. /\ ends'[k] = ends[k] + 1 /\ due'[k] = due[k] + waiting[k] /\ waiting'[k] = 0
          /\ box'[k][Run] = "exited"
      BY <1>1, <1>2, <1>6, <2>2 DEF RunEnds, Become
    <3>2. QED BY <1>4, <1>6, <2>1, <2>2, <3>1
  <2>3. CASE k # n
    <3>1. /\ ends'[k] = ends[k] /\ due'[k] = due[k] /\ waiting'[k] = waiting[k]
          /\ box'[k] = box[k]
      BY <1>1, <1>6, <2>3 DEF RunEnds, Become
    <3>2. QED BY <1>4, <2>1, <3>1
  <2>4. QED BY <2>2, <2>3
<1>7. ASSUME UNCHANGED <<waiters, ends>>,
             box[k][Run] = "running" => box'[k][Run] = "running"
      PROVE  /\ due'[k] + reports'[k] <= ends'[k]
             /\ spawned'[k] + waiting'[k] + due'[k] + reports'[k]
                    <= ends'[k] + (IF box'[k][Run] = "running" THEN 1 ELSE 0)
  BY <1>4, <1>7 DEF waiters
<1>8. CASE \E n \in Nodes : StopBox(n)
  BY <1>3, <1>6, <1>7, <1>8 DEF StopBox
<1>9. CASE \E n \in Nodes, b \in Boxes : BoxEnds(n, b)
  <2>1. PICK n \in Nodes, b \in Boxes : BoxEnds(n, b)
    BY <1>9
  <2>2. CASE b = Run
    BY <1>6, <2>1, <2>2 DEF BoxEnds
  <2>3. CASE b # Run
    <3>1. box'[k][Run] = box[k][Run]
      BY <1>1, <1>2, <2>1, <2>3 DEF BoxEnds, Become
    <3>2. QED BY <1>7, <2>1, <2>3, <3>1 DEF BoxEnds
  <2>4. QED BY <2>2, <2>3
<1>10. CASE \E n \in Nodes : Create(n)
  <2>1. PICK n \in Nodes : Create(n)
    BY <1>10
  <2>2. /\ step[n] = "create" /\ act # "none" /\ UNCHANGED <<waiters, ends>>
        /\ UNCHANGED box \/ (box[n][Own] = "absent" /\ Become(n, Own, "created"))
    BY <2>1 DEF Create
  <2>3. Own \in Boxes
    BY <2>2, TargetIsBox
  <2>4. box[k][Run] = "running" => box'[k][Run] = "running"
    BY <1>1, <1>2, <2>2, <2>3 DEF Become
  <2>5. QED BY <1>7, <2>2, <2>4
<1>11. CASE \E n \in Nodes : BeginWait(n)
  <2>1. PICK n \in Nodes : BeginWait(n)
    BY <1>11
  <2>2. /\ spawned[n] > 0 /\ spawned' = [spawned EXCEPT ![n] = @ - 1]
        /\ UNCHANGED <<reports, ends, box>>
        /\ \/ /\ waiting' = [waiting EXCEPT ![n] = @ + 1] /\ UNCHANGED due
           \/ /\ due' = [due EXCEPT ![n] = @ + 1] /\ UNCHANGED waiting
              /\ box[n][Run] # "running"
    BY <1>3, <2>1 DEF BeginWait
  <2>3. CASE k = n
    BY <1>1, <1>4, <2>2, <2>3
  <2>4. CASE k # n
    BY <1>1, <1>4, <2>2, <2>4
  <2>5. QED BY <2>3, <2>4
<1>12. CASE \E n \in Nodes : Report(n)
  <2>1. PICK n \in Nodes : Report(n)
    BY <1>12
  <2>2. /\ due[n] > 0 /\ due' = [due EXCEPT ![n] = @ - 1]
        /\ reports' = [reports EXCEPT ![n] = @ + 1]
        /\ UNCHANGED <<spawned, waiting, ends, box>>
    BY <2>1 DEF Report
  <2>3. CASE k = n
    BY <1>1, <1>4, <2>2, <2>3
  <2>4. CASE k # n
    BY <1>1, <1>4, <2>2, <2>4
  <2>5. QED BY <2>3, <2>4
<1>13. CASE UNCHANGED <<waiters, ends, box>>
  BY <1>7, <1>13
<1>14. LogLine \/ TakeEntry \/ StopSaver => UNCHANGED <<waiters, ends, box>>
  BY ChannelSteps DEF waiters
<1>15. QED
  BY <1>5, <1>8, <1>9, <1>10, <1>11, <1>12, <1>13, <1>14
     DEF Next, vars, Call, Goroutine, Waiter, Wait, Return, Terminating, ReportDone

\* The invariant: types, whose the goroutines are, whose what runs is, and how many
\* reports are on their way.
THEOREM ActionsInvariant == Spec => []ActionsInv
<1>1. Init => ActionsInv
  <2> SUFFICES ASSUME Init PROVE ActionsInv
    OBVIOUS
  <2>1. /\ calls \in 0..MaxCalls /\ faults \in 0..MaxFaults /\ queue \in 0..Capacity
        /\ {spawned, waiting, due, reports, ends} \subseteq [Nodes -> Nat]
    BY BoundsAssumption DEF Init, Zero
  <2>2. TypeOK
    BY <2>1 DEF Init, TypeOK
  <2>3. StepsOfAction /\ RunningIsOwn
    BY DEF Init, StepsOfAction, RunningIsOwn
  <2>4. ReportsCounted
    BY DEF Init, Zero, ReportsCounted, Boxes
  <2>5. QED BY <2>2, <2>3, <2>4 DEF ActionsInv
<1>2. ActionsInv /\ [Next]_vars => ActionsInv'
  <2> SUFFICES ASSUME ActionsInv, [Next]_vars PROVE ActionsInv'
    OBVIOUS
  <2> USE DEF ActionsInv
  <2>1. TypeOK' /\ StepsOfAction'
    BY TypesKept, StepsKept
  <2>2. RunningIsOwn'
    BY RunningKept DEF RunningIsOwn
  <2>3. ReportsCounted'
    BY CountsKept DEF ReportsCounted
  <2>4. QED BY <2>1, <2>2, <2>3
<1>3. QED BY <1>1, <1>2, PTL DEF Spec

\* Without a fault, never do two containers of a node run, which mount the same data.
THEOREM OneContainerRuns == Spec => []OneRunningContainer
<1>1. ActionsInv => OneRunningContainer
  <2> SUFFICES ASSUME ActionsInv, faults = 0, NEW n \in Nodes
               PROVE  Cardinality({b \in Boxes : box[n][b] = "running"}) <= 1
    BY DEF OneRunningContainer
  <2> DEFINE R == {b \in Boxes : box[n][b] = "running"}
  <2>1. \E c : R \subseteq {c}
    BY DEF ActionsInv, RunningIsOwn
  <2> HIDE DEF R
  <2>2. R = {} \/ \E c : R = {c}
    BY <2>1
  <2>3. Cardinality(R) \in {0, 1}
    BY <2>2, FS_EmptySet, FS_Singleton
  <2>4. Cardinality(R) <= 1
    BY <2>3
  <2>5. QED BY <2>4 DEF R
<1>2. QED BY <1>1, ActionsInvariant, PTL

\* Without a fault, "start node stopped" is not said of a node more often than it has
\* ended.
THEOREM ReportsHaveEnds == Spec => []ReportsFollowEnds
<1>1. ActionsInv => ReportsFollowEnds
  BY DEF ActionsInv, TypeOK, ReportsCounted, ReportsFollowEnds
<1>2. QED BY <1>1, ActionsInvariant, PTL
=============================================================================
