-------------------------- MODULE LogWatcherProofs --------------------------
(* Theorems about LogWatcher, for every scenario, every number of faults and *)
(* whether ContextDaemon.Stop waits for its callback or not.                 *)
EXTENDS LogWatcher, TLAPS

\* How far the goroutine is, and what it says when it is over.
Progress ==
    /\ pc \in {"boot", "select", "current", "evaluate"} => ran = cl
    /\ pc = "evaluate" => cl < N
    /\ pc \in {"action", "next"} => cl = ran + 1
    /\ pc = "exit" /\ ~err /\ ~cancelled => cl = N /\ ran = N
    /\ pc = "done" <=> verdict # "none"
    /\ cancelled => stop \in {"joining", "returned"} /\ lock # "loop"

\* No condition after the current one has its query compiled.
CompiledInTurn == \A i \in 1..N : i > cl + 1 => compiled[i] = Unset

SetsRegister(k, r) == r \in {LastMatch, ToReg[k]}

\* A register holds the record that the last of the sequences to set it matched.
RegistersKept ==
    \A k \in 1..cl : \A r \in Registers :
        SetsRegister(k, r) /\ (\A j \in (k + 1)..cl : ~SetsRegister(j, r))
            => regs[r] = hit[k]

WatcherInv == /\ TypeOK /\ LockProtectsEvaluation /\ Progress
              /\ CompiledInTurn /\ FreshQuery /\ RegistersKept
              /\ MatchesAfterRegister
-----------------------------------------------------------------------------
\* The bounds are natural numbers and there is a sequence.
LEMMA Bounds == N \in Nat /\ N > 0 /\ MaxFaults \in Nat
BY ConstantsAssumption

\* What the goroutine asks with is an _id or no value at all.
LEMMA QueryType ==
  ASSUME TypeOK, NEW i \in 1..N
  PROVE  Query(i) \in Nat \cup {Unset}
BY ConstantsAssumption DEF TypeOK, Query, Unset

\* Connecting to a storage leaves the pool one of storages.
LEMMA PoolType ==
  ASSUME TypeOK, NEW s \in Storages, GetStorage(s)
  PROVE  pool' \in [Storages -> {"none", "open", "closed"}]
BY DEF TypeOK, GetStorage

\* A record that is found is one of the storage, and it meets the query.
LEMMA FoundRecord ==
  ASSUME TypeOK, NEW i \in 1..N, NEW id \in Found(i)
  PROVE  id \in Nat /\ id > Query(i)
<1>1. Len(log[StorageOf[i]]) \in Nat
  BY ConstantsAssumption DEF TypeOK
<1>2. QED BY <1>1 DEF Found, Matching

\* The locals of the loop at its start.
LEMMA InitTypes == Init => TypeOK /\ LockProtectsEvaluation /\ Progress
<1> SUFFICES ASSUME Init PROVE TypeOK /\ LockProtectsEvaluation /\ Progress
  OBVIOUS
<1>1. log \in [Storages -> Seq(Kinds)]
  BY DEF Init
<1>2. /\ regs \in [Registers -> Nat \cup {Unset}]
      /\ compiled \in [1..N -> Nat \cup {Unset}]
  BY DEF Init
<1>3. pool \in [Storages -> {"none", "open", "closed"}] /\ hit \in [1..N -> Nat]
  BY DEF Init
<1>4. TypeOK
  <2>1. cl \in 0..N /\ ran \in 0..N /\ faults \in 0..MaxFaults
    BY Bounds DEF Init
  <2>2. /\ lock \in {"free", "loop", "stop"} /\ pc \in PCs /\ err \in BOOLEAN
        /\ verdict \in {"none", "ok", "error"} /\ cancelled \in BOOLEAN /\ stop \in Stops
    BY DEF Init, PCs, Stops
  <2>3. QED BY <1>1, <1>2, <1>3, <2>1, <2>2 DEF TypeOK
<1>5. QED BY <1>4 DEF Init, LockProtectsEvaluation, Progress

\* A step keeps the types.
LEMMA TypesKept ==
  ASSUME TypeOK, Progress, [Next]_vars
  PROVE  TypeOK'
<1> USE DEF PCs, Stops, loopVars
<1>1. ASSUME NEW s \in Storages, NEW n \in 1..MaxBatch, AddRecords(s, n) PROVE TypeOK'
  <2>1. log' \in [Storages -> Seq(Kinds)]
    <3>1. PICK ks \in [1..n -> Kinds] : log' = [log EXCEPT ![s] = @ \o ks]
      BY <1>1 DEF AddRecords
    <3>2. n \in Nat /\ ks \in Seq(Kinds) /\ log[s] \in Seq(Kinds)
      BY ConstantsAssumption DEF TypeOK
    <3>3. log[s] \o ks \in Seq(Kinds)
      BY <3>2
    <3>4. QED BY <3>1, <3>3 DEF TypeOK
  <2>2. QED BY <1>1, <2>1 DEF TypeOK, AddRecords
<1>2. CASE Boot \/ Tick \/ CtxDone \/ Current \/ Exit
  BY <1>2 DEF TypeOK, Boot, Tick, CtxDone, Current, Exit
<1>3. CASE NoMatch
  <2>1. cl + 1 \in 1..N /\ StorageOf[cl + 1] \in Storages
    BY <1>3, ConstantsAssumption DEF TypeOK, Progress, NoMatch
  <2>2. compiled' \in [1..N -> Nat \cup {Unset}]
    BY <1>3, <2>1, QueryType DEF TypeOK, NoMatch
  <2>3. pool' \in [Storages -> {"none", "open", "closed"}]
    BY <1>3, <2>1, PoolType DEF TypeOK, NoMatch
  <2>4. faults' \in 0..MaxFaults
    BY <1>3, ConstantsAssumption DEF TypeOK, NoMatch, Fault
  <2>5. /\ pc' \in {"exit", "select"} /\ err' \in BOOLEAN
        /\ UNCHANGED <<log, cl, regs, lock, verdict, cancelled, stop, hit, ran>>
    BY <1>3 DEF TypeOK, NoMatch, Fail
  <2>6. QED BY <2>2, <2>3, <2>4, <2>5 DEF TypeOK
<1>4. CASE Match
  <2>1. cl + 1 \in 1..N /\ StorageOf[cl + 1] \in Storages
    BY <1>4, ConstantsAssumption DEF TypeOK, Progress, Match
  <2>2. compiled' \in [1..N -> Nat \cup {Unset}]
    BY <1>4, <2>1, QueryType DEF TypeOK, Match
  <2>3. pool' \in [Storages -> {"none", "open", "closed"}]
    BY <1>4, <2>1, PoolType DEF Match
  <2>4. PICK id \in Found(cl + 1) : SetRegisters(cl + 1, id)
                                   /\ hit' = [hit EXCEPT ![cl + 1] = id]
    BY <1>4 DEF Match
  <2>5. id \in Nat
    BY <2>1, <2>4, FoundRecord
  <2>6. regs' \in [Registers -> Nat \cup {Unset}] /\ hit' \in [1..N -> Nat]
    BY <2>4, <2>5 DEF TypeOK, SetRegisters
  <2>7. /\ cl' \in 0..N /\ lock' = "loop" /\ pc' \in {"action", "next"}
        /\ UNCHANGED <<log, err, verdict, cancelled, stop, ran, faults>>
    BY <1>4, <2>1 DEF Match
  <2>8. QED BY <2>2, <2>3, <2>6, <2>7 DEF TypeOK
<1>5. CASE EndAction
  <2>1. faults' \in 0..MaxFaults
    BY <1>5, Bounds DEF TypeOK, EndAction, Fault
  <2>2. /\ lock' \in {lock, "free"} /\ pc' \in {"next", "exit"} /\ err' \in BOOLEAN
        /\ UNCHANGED <<log, cl, regs, compiled, pool, verdict, cancelled, stop, hit, ran>>
    BY <1>5 DEF TypeOK, EndAction, Fail
  <2>3. QED BY <2>1, <2>2 DEF TypeOK
<1>6. CASE CompileNext
  <2>1. compiled' \in [1..N -> Nat \cup {Unset}]
    <3>1. CASE cl = N
      BY <1>6, <3>1 DEF TypeOK, CompileNext
    <3>2. CASE cl # N
      <4>1. cl + 1 \in 1..N
        BY <3>2, ConstantsAssumption DEF TypeOK
      <4>2. QED BY <1>6, <3>2, <4>1, QueryType DEF TypeOK, CompileNext
    <3>3. QED BY <3>1, <3>2
  <2>2. QED BY <1>6, <2>1 DEF TypeOK, CompileNext, Fail
<1>7. CASE StopCall \/ Stop
  <2>1. pool' \in [Storages -> {"none", "open", "closed"}]
    BY <1>7 DEF TypeOK, StopCall, Stop, StopLock, StopCancel, StopJoin
  <2>2. QED BY <1>7, <2>1 DEF TypeOK, StopCall, Stop, StopLock, StopCancel, StopJoin
<1>8. CASE Terminating \/ UNCHANGED vars
  BY <1>8 DEF TypeOK, Terminating, vars
<1>9. QED BY <1>1, <1>2, <1>3, <1>4, <1>5, <1>6, <1>7, <1>8 DEF Next, Loop

\* A step keeps the lock with who holds it, and the goroutine on its way.
LEMMA ProgressKept ==
  ASSUME TypeOK, LockProtectsEvaluation, Progress, [Next]_vars
  PROVE  LockProtectsEvaluation' /\ Progress'
<1> USE Bounds DEF TypeOK, PCs, Stops, LockProtectsEvaluation, Progress, loopVars
<1>1. ASSUME NEW s \in Storages, NEW n \in 1..MaxBatch, AddRecords(s, n)
      PROVE  LockProtectsEvaluation' /\ Progress'
  BY <1>1 DEF AddRecords
<1>2. CASE Boot \/ Tick \/ CtxDone \/ Current \/ Exit
  BY <1>2 DEF Boot, Tick, CtxDone, Current, Exit
<1>3. CASE NoMatch
  <2>1. /\ pc = "evaluate"
        /\ pc' = "select" \/ (pc' = "exit" /\ err' = TRUE)
        /\ UNCHANGED <<cl, lock, verdict, cancelled, stop, ran>>
    BY <1>3 DEF NoMatch, Fail
  <2>2. CASE pc' = "select"
    BY <2>1, <2>2
  <2>3. CASE pc' = "exit" /\ err' = TRUE
    BY <2>1, <2>3
  <2>4. QED BY <2>1, <2>2, <2>3
<1>4. CASE Match
  BY <1>4 DEF Match
<1>5. CASE EndAction
  BY <1>5 DEF EndAction, Fail
<1>6. CASE CompileNext
  BY <1>6 DEF CompileNext, Fail
<1>7. CASE StopCall \/ Stop
  <2>1. CASE StopCall \/ StopLock \/ StopJoin
    BY <2>1 DEF StopCall, StopLock, StopJoin
  <2>2. CASE StopCancel
    <3>1. UNCHANGED <<cl, err, verdict, ran, pc>> /\ stop = "locked" /\ lock = "stop"
      BY <2>2 DEF StopCancel
    <3>2. CASE pc = "done"
      <4>1. cancelled' = FALSE /\ stop' = "returned" /\ lock' = "free"
        BY <2>2, <3>2 DEF StopCancel
      <4>2. QED BY <3>1, <3>2, <4>1
    <3>3. CASE pc # "done"
      <4>1. cancelled' = TRUE
        BY <2>2, <3>3 DEF StopCancel
      <4>2. \/ stop' = "joining" /\ lock' = "stop"
            \/ stop' = "returned" /\ lock' = "free"
        BY <2>2, <3>1 DEF StopCancel
      <4>3. QED BY <3>1, <3>3, <4>1, <4>2
    <3>4. QED BY <3>2, <3>3
  <2>3. QED BY <1>7, <2>1, <2>2 DEF Stop
<1>8. CASE Terminating \/ UNCHANGED vars
  BY <1>8 DEF Terminating, vars
<1>9. QED BY <1>1, <1>2, <1>3, <1>4, <1>5, <1>6, <1>7, <1>8 DEF Next, Loop

-----------------------------------------------------------------------------
\* Only a match changes what was matched and kept.
LEMMA OnlyMatchKeeps ==
  ASSUME [Next]_vars, ~Match
  PROVE  UNCHANGED <<cl, regs, hit>>
<1> USE DEF loopVars
<1>1. ASSUME NEW s \in Storages, NEW n \in 1..MaxBatch, AddRecords(s, n)
      PROVE  UNCHANGED <<cl, regs, hit>>
  BY <1>1 DEF AddRecords
<1>2. CASE Boot \/ Tick \/ CtxDone \/ Current \/ Exit
  BY <1>2 DEF Boot, Tick, CtxDone, Current, Exit
<1>3. CASE NoMatch
  BY <1>3 DEF NoMatch, Fail
<1>4. CASE EndAction
  BY <1>4 DEF EndAction, Fail
<1>5. CASE CompileNext
  BY <1>5 DEF CompileNext, Fail
<1>6. CASE StopCall \/ Stop
  BY <1>6 DEF StopCall, Stop, StopLock, StopCancel, StopJoin
<1>7. CASE Terminating \/ UNCHANGED vars
  BY <1>7 DEF Terminating, vars
<1>8. QED BY <1>1, <1>2, <1>3, <1>4, <1>5, <1>6, <1>7 DEF Next, Loop

\* The goroutine asks the current condition with the registers as they are.
LEMMA QueryFresh ==
  ASSUME TypeOK, FreshQuery, cl < N
  PROVE  Query(cl + 1) = IF AfterReg[cl + 1] = Nothing THEN 0
                         ELSE regs[AfterReg[cl + 1]]
BY DEF FreshQuery, Query

\* A step that is not a match leaves the queries as they were, but for the
\* current condition's, which it may set to what that condition asks with.
LEMMA CompiledSteps ==
  ASSUME [Next]_vars, TypeOK, Progress, ~Match
  PROVE  \/ compiled' = compiled
         \/ cl < N /\ compiled' = [compiled EXCEPT ![cl + 1] = Query(cl + 1)]
<1> DEFINE Goal == \/ compiled' = compiled
                   \/ cl < N /\ compiled' = [compiled EXCEPT ![cl + 1] = Query(cl + 1)]
<1> USE DEF loopVars
<1>1. ASSUME NEW s \in Storages, NEW n \in 1..MaxBatch, AddRecords(s, n) PROVE Goal
  BY <1>1 DEF AddRecords
<1>2. CASE Boot \/ Tick \/ CtxDone \/ Current \/ Exit
  BY <1>2 DEF Boot, Tick, CtxDone, Current, Exit
<1>3. CASE NoMatch
  BY <1>3 DEF NoMatch, Progress
<1>4. CASE EndAction
  BY <1>4 DEF EndAction
<1>5. CASE CompileNext
  BY <1>5, Bounds DEF CompileNext, TypeOK
<1>6. CASE StopCall \/ Stop
  BY <1>6 DEF StopCall, Stop, StopLock, StopCancel, StopJoin
<1>7. CASE Terminating \/ UNCHANGED vars
  BY <1>7 DEF Terminating, vars
<1>8. QED BY <1>1, <1>2, <1>3, <1>4, <1>5, <1>6, <1>7 DEF Next, Loop

\* A step keeps the queries compiled in turn and the current one fresh.
LEMMA QueriesKept ==
  ASSUME [Next]_vars, TypeOK, Progress, CompiledInTurn, FreshQuery
  PROVE  CompiledInTurn' /\ FreshQuery'
<1>1. CASE Match
  <2>1. /\ cl < N /\ cl' = cl + 1
        /\ compiled' = [compiled EXCEPT ![cl + 1] = Query(cl + 1)]
    BY <1>1 DEF Match, Progress
  <2>2. CompiledInTurn'
    BY <2>1, Bounds DEF CompiledInTurn, TypeOK
  <2>3. cl' < N => compiled'[cl' + 1] = Unset
    <3>1. SUFFICES ASSUME cl + 1 < N PROVE compiled'[cl + 2] = Unset
      BY <2>1, Bounds DEF TypeOK
    <3>2. cl + 2 \in 1..N /\ cl + 2 > cl + 1
      BY <3>1, Bounds DEF TypeOK
    <3>3. compiled[cl + 2] = Unset
      BY <3>2 DEF CompiledInTurn
    <3>4. QED BY <2>1, <3>2, <3>3, Bounds DEF TypeOK
  <2>4. QED BY <2>2, <2>3 DEF FreshQuery
<1>2. CASE ~Match
  <2>1. UNCHANGED <<cl, regs, hit>>
    BY <1>2, OnlyMatchKeeps
  <2>2. CASE compiled' = compiled
    BY <2>1, <2>2 DEF CompiledInTurn, FreshQuery
  <2>3. CASE cl < N /\ compiled' = [compiled EXCEPT ![cl + 1] = Query(cl + 1)]
    <3>1. CompiledInTurn'
      BY <2>1, <2>3, Bounds DEF CompiledInTurn, TypeOK
    <3>2. cl + 1 \in 1..N
      BY <2>3, Bounds DEF TypeOK
    <3>3. compiled'[cl + 1] = Query(cl + 1)
      BY <2>3, <3>2 DEF TypeOK
    <3>4. QED BY <2>1, <2>3, <3>1, <3>3, QueryFresh DEF FreshQuery
  <2>4. QED BY <1>2, <2>2, <2>3, CompiledSteps
<1>3. QED BY <1>1, <1>2

\* What a match does to the record.
LEMMA MatchStep ==
  ASSUME Match, TypeOK, Progress
  PROVE  /\ cl \in Nat /\ cl + 1 \in 1..N /\ cl' = cl + 1
         /\ \E id \in Nat : /\ id > Query(cl + 1)
                            /\ hit' = [hit EXCEPT ![cl + 1] = id]
                            /\ SetRegisters(cl + 1, id)
<1>1. cl \in Nat /\ cl + 1 \in 1..N /\ cl' = cl + 1
  BY Bounds DEF Match, TypeOK, Progress
<1>2. PICK id \in Found(cl + 1) : /\ SetRegisters(cl + 1, id)
                                  /\ hit' = [hit EXCEPT ![cl + 1] = id]
  BY DEF Match
<1>3. QED BY <1>1, <1>2, FoundRecord

\* A match keeps every register with the record of the last to set it.
LEMMA RegistersStay ==
  ASSUME [Next]_vars, TypeOK, Progress, RegistersKept
  PROVE  RegistersKept'
<1>1. CASE Match
  <2>1. /\ cl \in Nat /\ cl + 1 \in 1..N /\ cl' = cl + 1
        /\ \E id \in Nat : /\ id > Query(cl + 1)
                           /\ hit' = [hit EXCEPT ![cl + 1] = id]
                           /\ SetRegisters(cl + 1, id)
    BY <1>1, MatchStep
  <2>2. PICK id \in Nat : /\ hit' = [hit EXCEPT ![cl + 1] = id]
                          /\ SetRegisters(cl + 1, id)
    BY <2>1
  <2>3. SUFFICES ASSUME NEW k \in 1..(cl + 1), NEW r \in Registers, SetsRegister(k, r),
                        \A j \in (k + 1)..(cl + 1) : ~SetsRegister(j, r)
                 PROVE  regs'[r] = hit'[k]
    BY <2>1 DEF RegistersKept, SetsRegister
  <2>4. CASE k = cl + 1
    BY <2>1, <2>2, <2>3, <2>4 DEF SetRegisters, SetsRegister, TypeOK
  <2>5. CASE k # cl + 1
    <3>1. k \in 1..cl /\ cl + 1 \in (k + 1)..(cl + 1) /\ k \in 1..N
      BY <2>1, <2>5, Bounds
    <3>2. regs[r] = hit[k]
      BY <2>1, <2>3, <3>1 DEF RegistersKept
    <3>3. regs'[r] = regs[r]
      BY <2>2, <2>3, <3>1 DEF SetRegisters, SetsRegister
    <3>4. hit'[k] = hit[k]
      BY <2>1, <2>2, <2>5, <3>1 DEF TypeOK
    <3>5. QED BY <3>2, <3>3, <3>4
  <2>6. QED BY <2>4, <2>5
<1>2. CASE ~Match
  <2>1. UNCHANGED <<cl, regs, hit>>
    BY <1>2, OnlyMatchKeeps
  <2>2. QED BY <2>1 DEF RegistersKept, SetsRegister
<1>3. QED BY <1>1, <1>2

\* What the last sequence to set a register matched is in the register.
LEMMA RegisterAsked ==
  ASSUME TypeOK, RegistersKept, cl \in Nat, cl + 1 \in 1..N,
         NEW j \in 1..cl, SetsFor(j, cl + 1)
  PROVE  AfterReg[cl + 1] # Nothing /\ regs[AfterReg[cl + 1]] = hit[j]
<1> DEFINE r == AfterReg[cl + 1]
<1>1. r # Nothing /\ r \in Registers /\ SetsRegister(j, r)
  BY ConstantsAssumption DEF SetsFor, SetsRegister
<1>2. ASSUME NEW m \in (j + 1)..cl PROVE ~SetsRegister(m, r)
  <2>1. m \in 1..((cl + 1) - 1) /\ ~(m <= j)
    BY <1>2
  <2>2. QED BY <1>1, <2>1 DEF SetsFor, SetsRegister
<1>3. QED BY <1>1, <1>2 DEF RegistersKept

\* A match keeps every condition behind the record of the register it names.
LEMMA MatchesStay ==
  ASSUME [Next]_vars, TypeOK, Progress, FreshQuery, RegistersKept, MatchesAfterRegister
  PROVE  MatchesAfterRegister'
<1>1. CASE Match
  <2>1. /\ cl \in Nat /\ cl + 1 \in 1..N /\ cl' = cl + 1
        /\ \E id \in Nat : /\ id > Query(cl + 1)
                           /\ hit' = [hit EXCEPT ![cl + 1] = id]
                           /\ SetRegisters(cl + 1, id)
    BY <1>1, MatchStep
  <2>2. PICK id \in Nat : /\ id > Query(cl + 1)
                          /\ hit' = [hit EXCEPT ![cl + 1] = id]
    BY <2>1
  <2>3. SUFFICES ASSUME NEW i \in 1..(cl + 1), NEW j \in 1..(i - 1), SetsFor(j, i)
                 PROVE  hit'[i] > hit'[j]
    BY <2>1 DEF MatchesAfterRegister, SetsFor
  <2>4. j \in 1..cl /\ j \in 1..N /\ hit'[j] = hit[j]
    BY <2>1, <2>2, <2>3, Bounds DEF TypeOK
  <2>5. CASE i = cl + 1
    <3>1. AfterReg[cl + 1] # Nothing /\ regs[AfterReg[cl + 1]] = hit[j]
      BY <2>1, <2>3, <2>4, <2>5, RegisterAsked
    <3>2. Query(cl + 1) = hit[j]
      BY <2>1, <3>1, QueryFresh, Bounds
    <3>3. hit'[cl + 1] = id
      BY <2>1, <2>2 DEF TypeOK
    <3>4. QED BY <2>2, <2>4, <2>5, <3>2, <3>3
  <2>6. CASE i # cl + 1
    <3>1. i \in 1..cl /\ hit'[i] = hit[i]
      BY <2>1, <2>2, <2>6, Bounds DEF TypeOK
    <3>2. QED BY <2>3, <2>4, <3>1 DEF MatchesAfterRegister
  <2>7. QED BY <2>5, <2>6
<1>2. CASE ~Match
  <2>1. UNCHANGED <<cl, regs, hit>>
    BY <1>2, OnlyMatchKeeps
  <2>2. QED BY <2>1 DEF MatchesAfterRegister, SetsFor
<1>3. QED BY <1>1, <1>2
-----------------------------------------------------------------------------
\* The inductive invariant of the watcher: its types, the lock and the progress of
\* the goroutine, the queries compiled in turn from the registers of the moment,
\* and the records the registers and the history keep.
THEOREM WatcherInvariant == Spec => []WatcherInv
<1>1. Init => WatcherInv
  <2> SUFFICES ASSUME Init PROVE WatcherInv
    OBVIOUS
  <2>1. TypeOK /\ LockProtectsEvaluation /\ Progress
    BY InitTypes
  <2>2. CompiledInTurn /\ FreshQuery
    BY Bounds DEF Init, CompiledInTurn, FreshQuery
  <2>3. RegistersKept /\ MatchesAfterRegister
    BY DEF Init, RegistersKept, MatchesAfterRegister
  <2>4. QED BY <2>1, <2>2, <2>3 DEF WatcherInv
<1>2. WatcherInv /\ [Next]_vars => WatcherInv'
  BY TypesKept, ProgressKept, QueriesKept, RegistersStay, MatchesStay DEF WatcherInv
<1>3. QED BY <1>1, <1>2, PTL DEF Spec

\* Every variable of the watcher keeps its type.
THEOREM WatcherTypes == Spec => []TypeOK
<1>1. WatcherInv => TypeOK
  BY DEF WatcherInv
<1>2. QED BY <1>1, WatcherInvariant, PTL

\* Stop and an evaluation never hold the lock together, so the pool is never
\* closed under a query or an action that runs.
THEOREM EvaluationIsLocked == Spec => []LockProtectsEvaluation
<1>1. WatcherInv => LockProtectsEvaluation
  BY DEF WatcherInv
<1>2. QED BY <1>1, WatcherInvariant, PTL

\* The query that was cached is the one the registers would give now.
THEOREM QueryIsFresh == Spec => []FreshQuery
<1>1. WatcherInv => FreshQuery
  BY DEF WatcherInv
<1>2. QED BY <1>1, WatcherInvariant, PTL

\* A condition that names a register matches a record later than the one the last
\* sequence to set the register matched.
THEOREM MatchesFollowRegisters == Spec => []MatchesAfterRegister
<1>1. WatcherInv => MatchesAfterRegister
  BY DEF WatcherInv
<1>2. QED BY <1>1, WatcherInvariant, PTL

\* Nothing is matched, kept or run once the context is cancelled, though the
\* goroutine may go on to the end of its evaluation after Stop has returned.
THEOREM NothingRunsAfterCancel == Spec => NothingAfterCancel
<1>1. ASSUME WatcherInv, [Next]_vars, cancelled PROVE UNCHANGED <<cl, regs, ran, hit>>
  <2> USE DEF loopVars
  <2>1. ~Match
    BY <1>1 DEF Match
  <2>2. pc \notin {"action", "next"}
    BY <1>1 DEF WatcherInv, LockProtectsEvaluation, Progress
  <2>3. UNCHANGED <<cl, regs, hit>>
    BY <1>1, <2>1, OnlyMatchKeeps
  <2>4. ran' = ran
    <3>1. CASE Boot \/ Tick \/ CtxDone \/ Current \/ NoMatch \/ Exit
      BY <3>1 DEF Boot, Tick, CtxDone, Current, NoMatch, Exit
    <3>2. CASE StopCall \/ Stop \/ Terminating \/ UNCHANGED vars
      BY <3>2 DEF StopCall, Stop, StopLock, StopCancel, StopJoin, Terminating, vars
    <3>3. ASSUME NEW s \in Storages, NEW n \in 1..MaxBatch, AddRecords(s, n) PROVE ran' = ran
      BY <3>3 DEF AddRecords
    <3>4. ~EndAction /\ ~CompileNext
      BY <2>2 DEF EndAction, CompileNext
    <3>5. QED BY <1>1, <2>1, <3>1, <3>2, <3>3, <3>4 DEF Next, Loop
  <2>5. QED BY <2>3, <2>4
<1>2. QED BY <1>1, WatcherInvariant, PTL DEF Spec, NothingAfterCancel
-----------------------------------------------------------------------------
\* What the steps change of what Scenario sees.
LEMMA ScenarioSteps ==
  ASSUME WatcherInv, [Next]_vars, ~Match, ~CompileNext, ~Exit
  PROVE  UNCHANGED <<cl, ran, Outcome>>
<1> USE DEF loopVars
<1>1. cl' = cl
  BY OnlyMatchKeeps
<1>2. CASE ~StopCancel
  <2>1. UNCHANGED <<ran, verdict, cancelled>>
    <3>1. ASSUME NEW s \in Storages, NEW n \in 1..MaxBatch, AddRecords(s, n)
          PROVE  UNCHANGED <<ran, verdict, cancelled>>
      BY <3>1 DEF AddRecords
    <3>2. CASE Boot \/ Tick \/ CtxDone \/ Current
      BY <3>2 DEF Boot, Tick, CtxDone, Current
    <3>3. CASE NoMatch \/ EndAction
      BY <3>3 DEF NoMatch, EndAction, Fail
    <3>4. CASE StopCall \/ StopLock \/ StopJoin
      BY <3>4 DEF StopCall, StopLock, StopJoin
    <3>5. CASE Terminating \/ UNCHANGED vars
      BY <3>5 DEF Terminating, vars
    <3>6. QED BY <1>2, <3>1, <3>2, <3>3, <3>4, <3>5 DEF Next, Loop, Stop
  <2>2. QED BY <1>1, <2>1 DEF Outcome
<1>3. CASE StopCancel
  <2>1. UNCHANGED <<ran, verdict>> /\ stop = "locked" /\ cancelled' = (pc # "done")
    BY <1>3 DEF StopCancel
  <2>2. ~cancelled /\ (pc = "done" <=> verdict # "none")
    BY <2>1 DEF WatcherInv, Progress
  <2>3. CASE pc = "done"
    <3>1. ~cancelled'
      BY <2>1, <2>3
    <3>2. QED BY <1>1, <2>1, <2>2, <3>1 DEF Outcome
  <2>4. CASE pc # "done"
    BY <1>1, <2>1, <2>2, <2>4 DEF Outcome
  <2>5. QED BY <2>3, <2>4
<1>4. QED BY <1>2, <1>3

\* While the goroutine has not sent its verdict, the scenario is running.
LEMMA RunningOutcome ==
  ASSUME WatcherInv, pc # "done"
  PROVE  verdict = "none" /\ Outcome = "running"
BY DEF WatcherInv, Progress, Outcome

\* The watcher implements Scenario: a match is the next condition matched, the end
\* of an evaluation is its action run, and exitChan tells how the scenario ended.
THEOREM WatcherImplementsScenario == Spec => ImplementsScenario
<1>1. Init => Promise!Init
  BY DEF Init, Promise!Init, Outcome
<1>2. ASSUME WatcherInv, [Next]_vars PROVE [Promise!Next]_(Promise!vars)
  <2>1. CASE Match
    <3>1. pc = "evaluate" /\ cl' = cl + 1 /\ UNCHANGED <<ran, verdict, cancelled>>
      BY <2>1 DEF Match
    <3>2. Outcome = "running" /\ Outcome' = "running"
      BY <1>2, <3>1, RunningOutcome DEF Outcome
    <3>3. ran = cl /\ cl < N
      BY <1>2, <3>1 DEF WatcherInv, Progress
    <3>4. Promise!Match
      BY <3>1, <3>2, <3>3 DEF Promise!Match
    <3>5. QED BY <3>4 DEF Promise!Next
  <2>2. CASE CompileNext
    <3>1. pc = "next" /\ ran' = cl /\ UNCHANGED <<cl, verdict, cancelled>>
      BY <2>2 DEF CompileNext, Fail
    <3>2. Outcome = "running" /\ Outcome' = "running"
      BY <1>2, <3>1, RunningOutcome DEF Outcome
    <3>3. ran < cl
      BY <1>2, <3>1, Bounds DEF WatcherInv, Progress, TypeOK
    <3>4. Promise!RunAction
      BY <3>1, <3>2, <3>3 DEF Promise!RunAction
    <3>5. QED BY <3>4 DEF Promise!Next
  <2>3. CASE Exit
    <3>1. /\ pc = "exit" /\ verdict' = IF err THEN "error" ELSE "ok"
          /\ UNCHANGED <<cl, ran, cancelled>>
      BY <2>3 DEF Exit
    <3>2. Outcome = "running"
      BY <1>2, <3>1, RunningOutcome
    <3>3. CASE ~err /\ ~cancelled
      <4>1. cl = N /\ ran = N /\ Outcome' = "ok"
        BY <1>2, <3>1, <3>3 DEF WatcherInv, Progress, Outcome
      <4>2. QED BY <3>1, <3>2, <4>1 DEF Promise!Next, Promise!Finish
    <3>4. CASE err \/ cancelled
      <4>1. Outcome' \in {"error", "stopped"}
        BY <3>1, <3>4 DEF Outcome
      <4>2. QED BY <3>1, <3>2, <4>1 DEF Promise!Next, Promise!Abort
    <3>5. QED BY <3>3, <3>4
  <2>4. CASE ~Match /\ ~CompileNext /\ ~Exit
    BY <1>2, <2>4, ScenarioSteps DEF Promise!vars
  <2>5. QED BY <2>1, <2>2, <2>3, <2>4
<1>3. QED
  BY <1>1, <1>2, WatcherInvariant, PTL DEF Spec, ImplementsScenario, Promise!Spec

-----------------------------------------------------------------------------
\* The record a condition has matched is one of its storage, of the kind it asks for.
MatchedRecords ==
    \A i \in 1..cl : LET records == log[StorageOf[i]]
                     IN  hit[i] \in 1..Len(records) /\ records[hit[i]] = KindOf[i]

\* A log only grows.
LEMMA LogsGrow ==
  ASSUME TypeOK, [Next]_vars, NEW s \in Storages
  PROVE  /\ Len(log[s]) \in Nat /\ Len(log'[s]) \in Nat /\ Len(log[s]) <= Len(log'[s])
         /\ \A id \in 1..Len(log[s]) : log'[s][id] = log[s][id]
<1>1. log \in [Storages -> Seq(Kinds)] /\ log[s] \in Seq(Kinds)
  BY DEF TypeOK
<1>2. CASE UNCHANGED log
  BY <1>1, <1>2
<1>3. CASE \E r \in Storages, n \in 1..MaxBatch : AddRecords(r, n)
  <2>1. PICK r \in Storages, n \in 1..MaxBatch : AddRecords(r, n)
    BY <1>3
  <2>2. PICK ks \in [1..n -> Kinds] : log' = [log EXCEPT ![r] = @ \o ks]
    BY <2>1 DEF AddRecords
  <2>3. ks \in Seq(Kinds)
    OBVIOUS
  <2>4. CASE r = s
    <3>1. log'[s] = log[s] \o ks
      BY <1>1, <2>2, <2>4
    <3>2. QED BY <1>1, <2>3, <3>1
  <2>5. CASE r # s
    BY <1>1, <2>2, <2>5
  <2>6. QED BY <2>4, <2>5
<1>4. UNCHANGED log \/ \E r \in Storages, n \in 1..MaxBatch : AddRecords(r, n)
  BY DEF Next, Loop, Stop, Boot, Tick, CtxDone, Current, NoMatch, Match, EndAction,
         CompileNext, Exit, StopCall, StopLock, StopCancel, StopJoin, Terminating, vars
<1>5. QED BY <1>2, <1>3, <1>4

\* A match is of a record that is there, and records do not go away.
LEMMA MatchedRecordsStay ==
  ASSUME TypeOK, Progress, [Next]_vars, MatchedRecords
  PROVE  MatchedRecords'
<1>1. ASSUME NEW i \in 1..cl
      PROVE  hit[i] \in 1..Len(log'[StorageOf[i]]) /\ log'[StorageOf[i]][hit[i]] = KindOf[i]
  <2>1. StorageOf[i] \in Storages
    BY Bounds, ConstantsAssumption DEF TypeOK
  <2>2. PICK s \in Storages : s = StorageOf[i]
    BY <2>1
  <2>3. hit[i] \in 1..Len(log[s]) /\ log[s][hit[i]] = KindOf[i]
    BY <2>2 DEF MatchedRecords
  <2>4. QED BY <2>2, <2>3, LogsGrow
<1>2. CASE ~Match
  BY <1>1, <1>2, OnlyMatchKeeps DEF MatchedRecords
<1>3. CASE Match
  <2>1. cl \in Nat /\ cl + 1 \in 1..N /\ cl' = cl + 1 /\ UNCHANGED log
    BY <1>3, MatchStep DEF Match
  <2>2. PICK id \in Found(cl + 1) : hit' = [hit EXCEPT ![cl + 1] = id]
    BY <1>3 DEF Match
  <2>3. ASSUME NEW i \in 1..cl PROVE hit'[i] = hit[i]
    BY <2>1, <2>2 DEF TypeOK
  <2>4. hit'[cl + 1] = id
    BY <2>1, <2>2 DEF TypeOK
  <2>5. id \in 1..Len(log[StorageOf[cl + 1]]) /\ log[StorageOf[cl + 1]][id] = KindOf[cl + 1]
    BY DEF Found, Matching
  <2>6. ASSUME NEW i \in 1..(cl + 1)
        PROVE  hit'[i] \in 1..Len(log[StorageOf[i]]) /\ log[StorageOf[i]][hit'[i]] = KindOf[i]
    <3>1. CASE i = cl + 1
      BY <2>4, <2>5, <3>1
    <3>2. CASE i # cl + 1
      BY <2>1, <2>3, <3>2 DEF MatchedRecords
    <3>3. QED BY <3>1, <3>2
  <2>7. QED BY <2>1, <2>6 DEF MatchedRecords
<1>4. QED BY <1>2, <1>3

\* Every condition that has matched has a record of its storage and kind for it.
THEOREM MatchesAreRecords == Spec => []MatchedRecords
<1>1. Init => MatchedRecords
  BY DEF Init, MatchedRecords
<1>2. WatcherInv /\ MatchedRecords /\ [Next]_vars => MatchedRecords'
  BY MatchedRecordsStay DEF WatcherInv
<1>3. QED BY <1>1, <1>2, WatcherInvariant, PTL DEF Spec
=============================================================================
