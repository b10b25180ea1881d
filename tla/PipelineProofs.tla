--------------------------- MODULE PipelineProofs ---------------------------
(* Theorems about Pipeline: its saver is the one of LogSaver and its watcher *)
(* the one of LogWatcher, so what is proved of them holds here.              *)
EXTENDS Pipeline, FiniteSetTheorems, TLAPS

\* The theorems of the two components.
SaverProofs == INSTANCE LogSaverProofs WITH
                  Names <- Nodes \cup {Contest}, NameOf <- [e \in Entries |-> e[1]],
                  Errors <- {}, Malformed <- {}, ExitOnError <- FALSE,
                  pc <- saverPc, stop <- saverStop, faults <- saverFaults

WatcherProofs == INSTANCE LogWatcherProofs WITH
                    StorageOf <- [i \in 1..N |-> "contest"],
                    WithAction <- {i \in 1..N : ActionNode[i] # Nothing},
                    log <- [s \in Storages |-> Collection],
                    pc <- watcherPc, stop <- watcherStop, faults <- watcherFaults

\* They are about the same steps.
LEMMA SameSaver == Saver!Spec => SaverProofs!Spec
<1>1. Saver!Init => SaverProofs!Init
  BY DEF Saver!Init, SaverProofs!Init
<1>2. [Saver!Next]_(Saver!vars) => [SaverProofs!Next]_(SaverProofs!vars)
  BY DEF Saver!Next, SaverProofs!Next, Saver!vars, SaverProofs!vars,
         Saver!Send, SaverProofs!Send, Saver!Receive, SaverProofs!Receive,
         Saver!Tick, SaverProofs!Tick, Saver!AddLogEntries, SaverProofs!AddLogEntries,
         Saver!Sync, SaverProofs!Sync, Saver!SyncsSucceed, SaverProofs!SyncsSucceed,
         Saver!SyncsFail, SaverProofs!SyncsFail, Saver!StreamOf, SaverProofs!StreamOf,
         Saver!FirstNodeError, SaverProofs!FirstNodeError,
         Saver!NodeErrors, SaverProofs!NodeErrors,
         Saver!CtxDone, SaverProofs!CtxDone, Saver!FinalSave, SaverProofs!FinalSave,
         Saver!FinalSync, SaverProofs!FinalSync, Saver!StopCancel, SaverProofs!StopCancel,
         Saver!StopClose, SaverProofs!StopClose, Saver!Fault, SaverProofs!Fault,
         Saver!Terminating, SaverProofs!Terminating
<1>3. QED BY <1>1, <1>2, PTL DEF Saver!Spec, SaverProofs!Spec

\* The watcher of the pipeline, in the names of its proofs.
LEMMA SameWatcher == Watcher!Spec => WatcherProofs!Spec
<1>1. Watcher!Init => WatcherProofs!Init
  BY DEF Watcher!Init, WatcherProofs!Init, Watcher!Unset, WatcherProofs!Unset
<1>2. [Watcher!Next]_(Watcher!vars) => [WatcherProofs!Next]_(WatcherProofs!vars)
  BY DEF Watcher!Next, WatcherProofs!Next, Watcher!vars, WatcherProofs!vars,
         Watcher!loopVars, WatcherProofs!loopVars, Watcher!Unset, WatcherProofs!Unset,
         Watcher!Loop, WatcherProofs!Loop, Watcher!Stop, WatcherProofs!Stop,
         Watcher!Boot, WatcherProofs!Boot, Watcher!Tick, WatcherProofs!Tick,
         Watcher!CtxDone, WatcherProofs!CtxDone, Watcher!Current, WatcherProofs!Current,
         Watcher!NoMatch, WatcherProofs!NoMatch, Watcher!Match, WatcherProofs!Match,
         Watcher!Query, WatcherProofs!Query, Watcher!Matching, WatcherProofs!Matching,
         Watcher!Found, WatcherProofs!Found, Watcher!Fail, WatcherProofs!Fail,
         Watcher!Fault, WatcherProofs!Fault, Watcher!GetStorage, WatcherProofs!GetStorage,
         Watcher!SetRegisters, WatcherProofs!SetRegisters,
         Watcher!EndAction, WatcherProofs!EndAction,
         Watcher!CompileNext, WatcherProofs!CompileNext, Watcher!Exit, WatcherProofs!Exit,
         Watcher!StopCall, WatcherProofs!StopCall, Watcher!StopLock, WatcherProofs!StopLock,
         Watcher!StopCancel, WatcherProofs!StopCancel,
         Watcher!StopJoin, WatcherProofs!StopJoin,
         Watcher!Terminating, WatcherProofs!Terminating,
         Watcher!AddRecords, WatcherProofs!AddRecords
<1>3. QED BY <1>1, <1>2, PTL DEF Watcher!Spec, WatcherProofs!Spec
-----------------------------------------------------------------------------
\* The positions of a concatenation.
LEMMA ConcatParts ==
  ASSUME NEW S, NEW s \in Seq(S), NEW t \in Seq(S)
  PROVE  /\ s \o t \in [1..(Len(s) + Len(t)) -> S]
         /\ \A i \in 1..Len(s) : (s \o t)[i] = s[i]
         /\ \A i \in 1..Len(t) : (s \o t)[Len(s) + i] = t[i]
<1>1. s \o t \in Seq(S) /\ Len(s \o t) = Len(s) + Len(t)
  OBVIOUS
<1>2. s \o t \in [1..(Len(s) + Len(t)) -> S]
  <2>1. \A u \in Seq(S) : u \in [1..Len(u) -> S]
    OBVIOUS
  <2>2. s \o t \in [1..Len(s \o t) -> S]
    BY <1>1, <2>1
  <2>3. QED BY <1>1, <2>2
<1>3. /\ \A i \in 1..Len(s) : (s \o t)[i] = s[i]
      /\ \A i \in 1..Len(t) : (s \o t)[Len(s) + i] = t[i]
  OBVIOUS
<1>4. QED BY <1>2, <1>3

\* The entries: the line of the contest and those of the nodes' files.
LEMMA EntryFacts ==
  ASSUME NEW e \in Entries
  PROVE  /\ e[1] \in Nodes \cup {Contest} /\ e[2] \in Nat /\ KindOfEntry(e) \in Kinds
<1>1. CASE e = Ready
  BY <1>1, PipelineAssumption DEF Ready, KindOfEntry
<1>2. CASE e # Ready
  <2>1. PICK n \in Nodes : e \in {n} \X (1..Len(LineKind[n])) \X (1..N)
    BY <1>2 DEF Entries
  <2>2. /\ e[1] = n /\ e[2] \in 1..Len(LineKind[n])
    BY <2>1
  <2>3. LineKind[n] \in Seq(Kinds)
    BY PipelineAssumption
  <2>4. LineKind[n][e[2]] \in Kinds /\ e[2] \in Nat
    BY <2>2, <2>3
  <2>5. QED BY <1>2, <2>2, <2>4 DEF KindOfEntry
<1>3. QED BY <1>1, <1>2

\* A line that a tail has read is an entry.
LEMMA EntryOfLine ==
  ASSUME NEW n \in Nodes, NEW l \in 1..Len(LineKind[n]), NEW t \in 1..N
  PROVE  <<n, l, t>> \in Entries
BY DEF Entries

\* The values of a function on a finite set are finitely many, ...
LEMMA FiniteImage ==
  ASSUME NEW S, IsFiniteSet(S), NEW f
  PROVE  IsFiniteSet({f[x] : x \in S})
<1> DEFINE T == {f[x] : x \in S}
           g == [x \in S |-> f[x]]
<1>1. g \in Surjection(S, T)
  BY DEF Surjection
<1> HIDE DEF T, g
<1>2. IsFiniteSet(T)
  BY <1>1, FS_Surjection
<1>3. QED BY <1>2 DEF T

\* ... and so are the entries.
LEMMA EntriesFinite == IsFiniteSet(Entries)
<1> DEFINE Of(n) == {n} \X (1..Len(LineKind[n])) \X (1..N)
<1>1. ASSUME NEW n \in Nodes PROVE IsFiniteSet(Of(n))
  <2> DEFINE P == (1..Len(LineKind[n])) \X (1..N)
             f == [p \in P |-> <<n, p[1], p[2]>>]
  <2>1. LineKind[n] \in Seq(Kinds) /\ N \in Nat
    BY PipelineAssumption
  <2>2. IsFiniteSet(1..Len(LineKind[n])) /\ IsFiniteSet(1..N)
    BY <2>1, FS_Interval
  <2>3. IsFiniteSet(P)
    BY <2>2, FS_Product
  <2>4. IsFiniteSet({f[p] : p \in P})
    <3> HIDE DEF P, f
    <3>1. QED BY <2>3, FiniteImage
  <2>5. Of(n) = {f[p] : p \in P}
    <3>1. ASSUME NEW e \in Of(n) PROVE e \in {f[p] : p \in P}
      <4>1. <<e[2], e[3]>> \in P /\ f[<<e[2], e[3]>>] = e
        OBVIOUS
      <4>2. QED BY <4>1
    <3>2. ASSUME NEW p \in P PROVE f[p] \in Of(n)
      OBVIOUS
    <3>3. QED BY <3>1, <3>2
  <2>6. QED BY <2>4, <2>5
<1> DEFINE family == [n \in Nodes |-> Of(n)]
<1>2. IsFiniteSet({family[n] : n \in Nodes}) /\ \A n \in Nodes : IsFiniteSet(family[n])
  <2>1. \A n \in Nodes : IsFiniteSet(family[n])
    <3> HIDE DEF Of
    <3>1. QED BY <1>1
  <2> HIDE DEF family
  <2>2. IsFiniteSet(Nodes)
    BY PipelineAssumption
  <2>3. IsFiniteSet({family[n] : n \in Nodes})
    BY <2>2, FiniteImage
  <2>4. QED BY <2>1, <2>3
<1>3. IsFiniteSet(UNION {family[n] : n \in Nodes})
  <2> HIDE DEF family
  <2>1. QED BY <1>2, FS_UNION
<1>4. IsFiniteSet({Ready})
  BY FS_Singleton
<1>5. Entries = {Ready} \cup UNION {family[n] : n \in Nodes}
  BY DEF Entries
<1>6. QED BY <1>3, <1>4, <1>5, FS_Union

\* The constants are as the components want them.
LEMMA SaverConstants ==
  /\ Contest \in Nodes \cup {Contest}
  /\ [e \in Entries |-> e[1]] \in [Entries -> Nodes \cup {Contest}]
  /\ {} \subseteq Entries /\ Capacity \in Nat \ {0}
  /\ FALSE \in BOOLEAN /\ MaxFaults \in Nat
BY PipelineAssumption, EntryFacts

\* What the saver's proofs say of appending to a sequence and of taking from one.
LEMMA EntryAppended ==
  ASSUME NEW s \in Seq(Entries), NEW e \in Entries
  PROVE  ToSet(Append(s, e)) = ToSet(s) \cup {e}
BY SaverConstants, SaverProofs!ToSetAppend DEF ToSet, SaverProofs!ToSet

\* What is left when an entry is taken off the channel.
LEMMA EntryTaken ==
  ASSUME NEW s \in Seq(Entries), s # <<>>
  PROVE  /\ Head(s) \in Entries /\ Tail(s) \in Seq(Entries)
         /\ ToSet(s) = {Head(s)} \cup ToSet(Tail(s))
BY SaverConstants, SaverProofs!ToSetTail DEF ToSet, SaverProofs!ToSet

\* What LogSaverProofs has proved, of the saver of the pipeline.
LEMMA SaverHolds ==
  Saver!Spec => [](SaverProofs!SaverInv /\ SaverProofs!CopiesInv
                     /\ SaverProofs!PredecessorsFirst)
<1>1. SaverProofs!Spec => []SaverProofs!SaverInv
  BY SaverConstants, SaverProofs!SaverInvariant
<1>2. SaverProofs!Spec => []SaverProofs!CopiesInv
  BY SaverConstants, SaverProofs!CopiesInvariant
<1>3. SaverProofs!Spec => []SaverProofs!PredecessorsFirst
  BY SaverConstants, SaverProofs!PredecessorsComeFirst
<1>4. QED BY <1>1, <1>2, <1>3, SameSaver, PTL

\* What LogWatcherProofs has proved, of the watcher of the pipeline.
LEMMA WatcherHolds ==
  Watcher!Spec => [](WatcherProofs!WatcherInv /\ WatcherProofs!MatchedRecords)
<1>1. WatcherProofs!Spec => []WatcherProofs!WatcherInv
  BY PipelineAssumption, WatcherProofs!WatcherInvariant DEF Storages
<1>2. WatcherProofs!Spec => []WatcherProofs!MatchedRecords
  BY PipelineAssumption, WatcherProofs!MatchesAreRecords DEF Storages
<1>3. QED BY <1>1, <1>2, SameWatcher, PTL
-----------------------------------------------------------------------------
\* The watcher evaluates the condition after the last that has matched.
LEMMA WatcherMoves ==
  ASSUME NodesInv, WatcherStep \/ StopWatcher \/ EndAction \/ ActionFails
  PROVE  /\ cl' \in cl..N /\ cl' \in 0..N
         /\ watcherPc' = "evaluate" => cl' < N
         /\ UNCHANGED <<saverVars, nodeVars>>
<1>1. N \in Nat /\ cl \in 0..N /\ (watcherPc = "evaluate" => cl < N)
  BY PipelineAssumption DEF NodesInv
<1>2. ASSUME Watcher!Match PROVE cl' = cl + 1 /\ cl < N /\ watcherPc' # "evaluate"
  BY <1>1, <1>2 DEF Watcher!Match
<1>3. ASSUME Watcher!Boot \/ Watcher!Tick \/ Watcher!CtxDone \/ Watcher!CompileNext
               \/ Watcher!Exit \/ Watcher!NoMatch \/ Watcher!EndAction
      PROVE  UNCHANGED cl /\ watcherPc' # "evaluate"
  BY <1>3 DEF Watcher!Boot, Watcher!Tick, Watcher!CtxDone, Watcher!CompileNext,
              Watcher!Exit, Watcher!NoMatch, Watcher!EndAction, Watcher!Fail,
              Watcher!loopVars
<1>4. ASSUME Watcher!Current PROVE UNCHANGED cl /\ (watcherPc' = "evaluate" => cl # N)
  BY <1>4 DEF Watcher!Current, Watcher!loopVars
<1>5. ASSUME Watcher!Stop \/ Watcher!StopCall PROVE UNCHANGED <<cl, watcherPc>>
  BY <1>5 DEF Watcher!Stop, Watcher!StopCall, Watcher!StopLock, Watcher!StopCancel,
              Watcher!StopJoin, Watcher!loopVars
<1>6. UNCHANGED <<saverVars, nodeVars>>
  BY DEF WatcherStep, StopWatcher, EndAction, ActionFails
<1>7. \/ Watcher!Match \/ Watcher!Current \/ Watcher!Stop \/ Watcher!StopCall
      \/ Watcher!Boot \/ Watcher!Tick \/ Watcher!CtxDone \/ Watcher!CompileNext
      \/ Watcher!Exit \/ Watcher!NoMatch \/ Watcher!EndAction
  BY DEF WatcherStep, StopWatcher, EndAction, ActionFails
<1>8. CASE Watcher!Match
  BY <1>1, <1>2, <1>6, <1>8
<1>9. CASE Watcher!Current
  BY <1>1, <1>4, <1>6, <1>9
<1>10. CASE Watcher!Stop \/ Watcher!StopCall
  BY <1>1, <1>5, <1>6, <1>10
<1>11. QED BY <1>1, <1>3, <1>6, <1>7, <1>8, <1>9, <1>10

\* The steps of the saver but for the entries sent to it.
LEMMA SaverMoves ==
  ASSUME SaverStep \/ StopSaver
  PROVE  /\ UNCHANGED <<watcherVars, nodeVars>>
         /\ UNCHANGED entries \/ Len(entries') <= MaxBatch
         /\ Saver!Next
<1>1. CASE SaverStep
  BY <1>1 DEF SaverStep, Saver!Next
<1>2. CASE StopSaver
  BY <1>2 DEF StopSaver, Saver!Next, Saver!StopCancel
<1>3. QED BY <1>1, <1>2

\* The nodes, their tails and the actions that open them.
LEMMA NodesKept ==
  ASSUME NodesInv, [Next]_vars
  PROVE  NodesInv'
<1>1. /\ N \in Nat /\ cl \in 0..N /\ begun \in 0..cl /\ MaxBatch \in Nat
      /\ watcherPc = "evaluate" => cl < N
      /\ printed \in [Nodes -> Nat] /\ tails \in [Nodes -> Seq(Nat)]
      /\ \A n \in Nodes : /\ printed[n] <= Len(LineKind[n])
                          /\ Len(tails[n]) <= begun
                          /\ \A t \in 1..Len(tails[n]) : tails[n][t] <= printed[n]
      /\ Len(entries) <= MaxBatch
  BY PipelineAssumption DEF NodesInv
<1>2. CASE WatcherStep \/ StopWatcher \/ EndAction \/ ActionFails
  <2>1. /\ cl' \in cl..N /\ cl' \in 0..N /\ (watcherPc' = "evaluate" => cl' < N)
        /\ UNCHANGED <<entries, printed, tails, begun>>
    BY <1>2, WatcherMoves DEF saverVars, nodeVars
  <2>2. begun' \in 0..cl'
    BY <1>1, <2>1
  <2>3. QED BY <1>1, <2>1, <2>2 DEF NodesInv
<1>3. CASE SaverStep \/ StopSaver
  <2>1. /\ UNCHANGED <<cl, watcherPc, printed, tails, begun>>
        /\ UNCHANGED entries \/ Len(entries') <= MaxBatch
    BY <1>3, SaverMoves DEF watcherVars, nodeVars
  <2>2. QED BY <1>1, <2>1 DEF NodesInv
<1>4. CASE \E n \in Nodes : PrintLine(n)
  <2>1. PICK n \in Nodes : PrintLine(n)
    BY <1>4
  <2>2. /\ UNCHANGED <<cl, watcherPc, entries, tails, begun>>
        /\ printed[n] < Len(LineKind[n])
        /\ printed' = [printed EXCEPT ![n] = @ + 1]
    BY <2>1 DEF PrintLine, watcherVars, saverVars
  <2>3. printed' \in [Nodes -> Nat]
    BY <1>1, <2>2
  <2>4. ASSUME NEW m \in Nodes
        PROVE  printed'[m] <= Len(LineKind[m]) /\ printed[m] <= printed'[m]
    <3>1. LineKind[m] \in Seq(Kinds) /\ LineKind[n] \in Seq(Kinds)
      BY PipelineAssumption
    <3>2. Len(LineKind[m]) \in Nat /\ Len(LineKind[n]) \in Nat
      BY <3>1
    <3>3. QED BY <1>1, <2>2, <3>2
  <2>5. ASSUME NEW m \in Nodes, NEW t \in 1..Len(tails[m]) PROVE tails[m][t] <= printed'[m]
    <3>1. tails[m] \in Seq(Nat)
      BY <1>1
    <3>2. tails[m][t] \in Nat /\ printed[m] \in Nat /\ printed'[m] \in Nat
      BY <1>1, <2>3, <3>1
    <3>3. QED BY <1>1, <2>4, <3>2
  <2>6. QED BY <1>1, <2>2, <2>3, <2>4, <2>5 DEF NodesInv
<1>5. CASE \E n \in Nodes : TailStep(n)
  <2>0. PICK n \in Nodes : TailStep(n)
    BY <1>5
  <2>1. PICK t \in DOMAIN tails[n] : Read(n, t)
    BY <2>0 DEF TailStep
  <2>2. /\ UNCHANGED <<cl, watcherPc, entries, printed, begun>>
        /\ tails[n][t] < printed[n]
        /\ tails' = [tails EXCEPT ![n][t] = @ + 1]
    BY <2>1 DEF Read, watcherVars, Saver!Send
  <2>3. tails[n] \in Seq(Nat) /\ t \in 1..Len(tails[n]) /\ tails[n][t] \in Nat
    BY <1>1, <2>1
  <2>4. [tails[n] EXCEPT ![t] = @ + 1] \in Seq(Nat)
    BY <2>3
  <2>5. tails' = [tails EXCEPT ![n] = [tails[n] EXCEPT ![t] = @ + 1]]
    BY <2>2
  <2>6. tails' \in [Nodes -> Seq(Nat)]
    BY <1>1, <2>4, <2>5
  <2>7. ASSUME NEW m \in Nodes
        PROVE  /\ Len(tails'[m]) = Len(tails[m])
               /\ \A u \in 1..Len(tails[m]) : tails'[m][u] <= printed[m]
    <3>1. CASE m # n
      BY <1>1, <2>5, <3>1
    <3>2. CASE m = n
      <4>1. tails'[m] = [tails[n] EXCEPT ![t] = @ + 1] /\ printed[n] \in Nat
        BY <1>1, <2>5, <3>2
      <4>2. Len(tails'[m]) = Len(tails[n])
        BY <2>3, <4>1
      <4>3. ASSUME NEW u \in 1..Len(tails[n]) PROVE tails'[m][u] <= printed[n]
        <5>1. CASE u = t
          BY <2>2, <2>3, <4>1, <5>1
        <5>2. CASE u # t
          <6>1. tails'[m][u] = tails[n][u]
            BY <2>3, <4>1, <5>2
          <6>2. QED BY <1>1, <6>1
        <5>3. QED BY <5>1, <5>2
      <4>4. QED BY <3>2, <4>2, <4>3
    <3>3. QED BY <3>1, <3>2
  <2>8. QED BY <1>1, <2>2, <2>6, <2>7 DEF NodesInv
<1>6. CASE Begin
  <2> DEFINE n == ActionNode[cl]
  <2>1. /\ begun < cl /\ begun' = cl
        /\ UNCHANGED <<cl, watcherPc, entries, printed>>
        /\ UNCHANGED tails \/ tails' = [tails EXCEPT ![n] = Append(@, 0)]
    BY <1>6 DEF Begin, watcherVars, saverVars
  <2> HIDE DEF n
  <2>2. CASE UNCHANGED tails \/ n \notin Nodes
    <3>1. UNCHANGED tails
      BY <1>1, <2>1, <2>2
    <3>2. ASSUME NEW m \in Nodes PROVE Len(tails[m]) <= begun'
      <4>1. Len(tails[m]) \in Nat
        BY <1>1
      <4>2. QED BY <1>1, <2>1, <4>1
    <3>3. begun' \in 0..cl'
      BY <1>1, <2>1
    <3>4. QED BY <1>1, <2>1, <3>1, <3>2, <3>3 DEF NodesInv
  <2>3. CASE tails' = [tails EXCEPT ![n] = Append(@, 0)] /\ n \in Nodes
    <3>1. tails[n] \in Seq(Nat) /\ tails'[n] = Append(tails[n], 0)
      BY <1>1, <2>3
    <3>2. /\ tails'[n] \in Seq(Nat) /\ Len(tails'[n]) = Len(tails[n]) + 1
          /\ \A t \in 1..Len(tails[n]) : tails'[n][t] = tails[n][t]
          /\ tails'[n][Len(tails[n]) + 1] = 0 /\ Len(tails[n]) \in Nat
      BY <3>1
    <3>3. tails' \in [Nodes -> Seq(Nat)]
      BY <1>1, <2>3, <3>1, <3>2
    <3>4. ASSUME NEW m \in Nodes
          PROVE  /\ Len(tails'[m]) <= begun'
                 /\ \A t \in 1..Len(tails'[m]) : tails'[m][t] <= printed[m]
      <4>1. CASE m = n
        <5>1. Len(tails'[n]) <= begun'
          BY <1>1, <2>1, <2>3, <3>2
        <5>2. ASSUME NEW t \in 1..Len(tails'[n]) PROVE tails'[n][t] <= printed[n]
          <6>1. CASE t = Len(tails[n]) + 1
            BY <1>1, <2>3, <3>2, <6>1
          <6>2. CASE t # Len(tails[n]) + 1
            <7>1. t \in 1..Len(tails[n])
              BY <3>2, <6>2
            <7>2. QED BY <1>1, <2>3, <3>2, <7>1
          <6>3. QED BY <6>1, <6>2
        <5>3. QED BY <4>1, <5>1, <5>2
      <4>2. CASE m # n
        <5>1. tails'[m] = tails[m] /\ Len(tails[m]) \in Nat
          BY <1>1, <2>3, <4>2
        <5>2. QED BY <1>1, <2>1, <5>1
      <4>3. QED BY <4>1, <4>2
    <3>5. begun' \in 0..cl'
      BY <1>1, <2>1
    <3>6. QED BY <1>1, <2>1, <3>3, <3>4, <3>5 DEF NodesInv
  <2>4. QED BY <2>1, <2>2, <2>3
<1>7. CASE UNCHANGED <<cl, begun, watcherPc, printed, tails, entries>>
  BY <1>1, <1>7 DEF NodesInv
<1>8. CASE ContestReady \/ (\E n \in Nodes : NodeEnds(n)) \/ UNCHANGED vars
  <2>1. UNCHANGED <<cl, begun, watcherPc, printed, tails, entries>>
    BY <1>8 DEF ContestReady, NodeEnds, Saver!Send, vars, saverVars, watcherVars, nodeVars
  <2>2. QED BY <1>7, <2>1
<1>9. QED
  BY <1>2, <1>3, <1>4, <1>5, <1>6, <1>8 DEF Next, Terminating

\* A tail is opened by an action, and is never ahead of its node.
THEOREM NodesInvariant == Spec => []NodesInv
<1>1. Init => NodesInv
  <2> SUFFICES ASSUME Init PROVE NodesInv
    OBVIOUS
  <2>1. /\ cl = 0 /\ begun = 0 /\ watcherPc = "boot" /\ entries = <<>>
        /\ printed = [n \in Nodes |-> 0] /\ tails = [n \in Nodes |-> <<>>]
    BY DEF Init, Saver!Init, Watcher!Init
  <2>2. ASSUME NEW n \in Nodes
        PROVE  printed[n] = 0 /\ tails[n] = <<>> /\ Len(LineKind[n]) \in Nat
    BY <2>1, PipelineAssumption
  <2>3. QED BY <2>1, <2>2, PipelineAssumption DEF NodesInv
<1>2. NodesInv /\ [Next]_vars => NodesInv'
  BY NodesKept
<1>3. QED BY <1>1, <1>2, PTL DEF Spec

-----------------------------------------------------------------------------
\* What a tail reads next is an entry.
LEMMA ReadSends ==
  ASSUME NodesInv, NEW n \in Nodes, TailStep(n)
  PROVE  Saver!Next
<1>1. PICK t \in DOMAIN tails[n] : Read(n, t)
  BY DEF TailStep
<1>2. tails[n][t] < printed[n] /\ Saver!Send(<<n, tails[n][t] + 1, t>>)
  BY <1>1 DEF Read
<1>3. tails[n] \in Seq(Nat) /\ LineKind[n] \in Seq(Kinds) /\ printed[n] \in Nat
  BY PipelineAssumption DEF NodesInv
<1>4. t \in 1..N
  BY <1>3, PipelineAssumption DEF NodesInv
<1>5. tails[n][t] \in Nat /\ Len(LineKind[n]) \in Nat
  BY <1>3
<1>6. tails[n][t] + 1 \in 1..Len(LineKind[n])
  BY <1>2, <1>3, <1>5 DEF NodesInv
<1>7. <<n, tails[n][t] + 1, t>> \in Entries
  BY <1>4, <1>6, EntryOfLine
<1>8. QED BY <1>2, <1>7 DEF Saver!Next

\* The saver of the pipeline is the one of LogSaver.
THEOREM PipelineKeepsSaver == Spec => KeepsSaver
<1>1. Init => Saver!Init
  BY DEF Init
<1>2. ASSUME NodesInv, [Next]_vars PROVE [Saver!Next]_(Saver!vars)
  <2>1. CASE UNCHANGED saverVars
    BY <2>1 DEF saverVars, Saver!vars
  <2>2. CASE SaverStep \/ StopSaver
    BY <2>2, SaverMoves
  <2>3. CASE \E n \in Nodes : TailStep(n)
    BY <1>2, <2>3, ReadSends
  <2>4. CASE ContestReady
    <3>1. Ready \in Entries
      BY DEF Entries
    <3>2. QED BY <2>4, <3>1 DEF ContestReady, Saver!Next
  <2>5. CASE \/ WatcherStep \/ StopWatcher \/ EndAction \/ ActionFails \/ Begin
             \/ Terminating \/ UNCHANGED vars \/ \E n \in Nodes : PrintLine(n) \/ NodeEnds(n)
    <3>1. UNCHANGED saverVars
      BY <2>5 DEF WatcherStep, StopWatcher, EndAction, ActionFails, Begin, Terminating,
                  vars, PrintLine, NodeEnds
    <3>2. QED BY <2>1, <3>1
  <2>6. QED BY <1>2, <2>2, <2>3, <2>4, <2>5 DEF Next
<1>3. QED BY <1>1, <1>2, NodesInvariant, PTL DEF Spec, KeepsSaver, Saver!Spec

-----------------------------------------------------------------------------
\* What is known of the saver.
SaverKnown == SaverProofs!SaverInv /\ SaverProofs!CopiesInv /\ SaverProofs!PredecessorsFirst

\* All that is proved of the saver holds in the pipeline.
THEOREM SaverIsKnown == Spec => []SaverKnown
<1>1. SaverProofs!SaverInv /\ SaverProofs!CopiesInv /\ SaverProofs!PredecessorsFirst
        => SaverKnown
  BY DEF SaverKnown
<1>2. QED BY <1>1, SaverHolds, PipelineKeepsSaver, PTL DEF KeepsSaver

\* What the proofs below use of that.
LEMMA SaverFacts ==
  ASSUME SaverKnown
  PROVE  /\ db \in Seq(Entries) /\ entries \in Seq(Entries)
         /\ written \in Seq(Entries) /\ entryChan \in Seq(Entries)
         /\ saverFaults \in 0..MaxFaults /\ sent \subseteq Entries
         /\ IsInjective(written) /\ IsInjective(entryChan)
         /\ ToSet(written) \subseteq sent /\ ToSet(entryChan) \subseteq sent
         /\ ToSet(written) \cap ToSet(entryChan) = {}
         /\ ToSet(db) \subseteq ToSet(written)
<1>1. SaverProofs!TypeOK /\ SaverProofs!SentOnce
  BY DEF SaverKnown, SaverProofs!SaverInv, SaverProofs!CopiesInv
<1>2. ToSet(db) \subseteq ToSet(written)
  <2>1. SaverProofs!ToSet(db) \subseteq SaverProofs!ToSet(written)
    BY <1>1, SaverConstants, SaverProofs!WrittenOnce DEF SaverKnown
  <2>2. QED BY <2>1 DEF SaverProofs!ToSet, ToSet
<1>3. QED
  BY <1>1, <1>2
     DEF SaverProofs!TypeOK, SaverProofs!SentOnce, SaverProofs!ToSet, ToSet,
         SaverProofs!IsInjective, IsInjective

\* Batches for one more fault.
LEMMA OneMore ==
  \A f, b \in Nat : f * b \in Nat /\ (f + 1) * b = f * b + b
OBVIOUS

\* A product grows with its factor.
LEMMA AtMost ==
  ASSUME NEW b \in Nat, NEW g \in Nat, NEW f \in 0..g
  PROVE  f * b <= g * b
<1>1. (g - f) \in Nat /\ g = f + (g - f)
  OBVIOUS
<1>2. \A d \in Nat : d * b >= 0 /\ (f + d) * b = f * b + d * b
  OBVIOUS
<1>3. g * b = f * b + (g - f) * b /\ (g - f) * b >= 0
  BY <1>1, <1>2
<1>4. f * b \in Nat /\ (g - f) * b \in Int
  BY <1>1
<1>5. QED BY <1>3, <1>4

\* A sequence without repetitions is not longer than the set it is made of.
LEMMA InjectiveLength ==
  ASSUME NEW S, IsFiniteSet(S), NEW s \in Seq(S), IsInjective(s)
  PROVE  Len(s) <= Cardinality(S) /\ Cardinality(S) \in Nat
<1>1. DOMAIN s = 1..Len(s) /\ Len(s) \in Nat /\ s \in [1..Len(s) -> S]
  OBVIOUS
<1>2. s \in Injection(1..Len(s), S)
  BY <1>1 DEF IsInjective, Injection
<1>3. Cardinality(1..Len(s)) <= Cardinality(S)
  BY <1>2, FS_Injection
<1>4. Cardinality(1..Len(s)) = Len(s)
  BY <1>1, FS_Interval
<1>5. QED BY <1>3, <1>4, FS_CardinalityType

\* An insert adds what it is asked to insert, or by a fault no more than a batch that
\* is to be inserted again.
LEMMA InsertCounted ==
  ASSUME NodesInv, SaverKnown, DbCounted, saverPc \in {"select", "final"},
         NEW succ \in {"sync", "finalsync"}, NEW fail \in {"select", "failed"},
         Saver!AddLogEntries(succ, fail)
  PROVE  DbCounted'
<1>1. /\ db \in Seq(Entries) /\ entries \in Seq(Entries)
      /\ Len(db) \in Nat /\ Len(entries) \in 0..MaxBatch /\ Len(written) \in Nat
      /\ saverFaults \in Nat /\ MaxBatch \in Nat
  BY SaverFacts, PipelineAssumption DEF NodesInv
<1>2. Len(db) + Len(entries) <= Len(written) + saverFaults * MaxBatch
  BY DEF DbCounted
<1>3. UNCHANGED <<entries, written>>
  BY DEF Saver!AddLogEntries
<1>4. CASE db' = db \o entries /\ saverPc' = succ /\ UNCHANGED saverFaults
  <2>1. Len(db') = Len(db) + Len(entries)
    BY <1>1, <1>4
  <2>2. Len(db') + 0 <= Len(written') + saverFaults' * MaxBatch
    BY <1>1, <1>2, <1>3, <1>4, <2>1
  <2>3. QED BY <1>4, <2>2 DEF DbCounted
<1>5. CASE Saver!Fault /\ saverPc' = fail
           /\ \E n \in 0..Len(entries) : db' = db \o SubSeq(entries, 1, n)
  <2>1. PICK n \in 0..Len(entries) : db' = db \o SubSeq(entries, 1, n)
    BY <1>5
  <2>2. Len(db') = Len(db) + n
    BY <1>1, <2>1
  <2>3. saverFaults' = saverFaults + 1
    BY <1>5 DEF Saver!Fault
  <2>4. /\ saverFaults' * MaxBatch = saverFaults * MaxBatch + MaxBatch
        /\ saverFaults * MaxBatch \in Nat
    BY <1>1, <2>3, OneMore
  <2>5. Len(db') + Len(entries) <= Len(written) + saverFaults' * MaxBatch
    BY <1>1, <1>2, <2>2, <2>4
  <2>6. QED BY <1>3, <1>5, <2>5 DEF DbCounted
<1>6. QED
  BY <1>4, <1>5 DEF Saver!AddLogEntries

\* An insert puts at most a batch in the collection, and takes a fault if it fails.
LEMMA DbCountedKept ==
  ASSUME NodesInv, SaverKnown, DbCounted, [Next]_vars
  PROVE  DbCounted'
<1>1. /\ entryChan \in Seq(Entries) /\ entries \in Seq(Entries) /\ written \in Seq(Entries)
      /\ Len(db) \in Nat /\ Len(entries) \in 0..MaxBatch /\ Len(written) \in Nat
      /\ saverFaults \in Nat /\ MaxBatch \in Nat
  BY SaverFacts, PipelineAssumption DEF NodesInv
<1>2. /\ saverFaults * MaxBatch \in Nat
      /\ (saverFaults + 1) * MaxBatch = saverFaults * MaxBatch + MaxBatch
  BY <1>1, OneMore
<1>3. CASE UNCHANGED <<db, entries, written, saverPc, saverFaults>>
  BY <1>3 DEF DbCounted
<1>4. CASE Saver!Tick
  BY <1>4, InsertCounted DEF Saver!Tick
<1>5. CASE Saver!FinalSave
  <2>1. CASE Saver!AddLogEntries("finalsync", "failed")
    BY <1>5, <2>1, InsertCounted DEF Saver!FinalSave
  <2>2. CASE entries = <<>> /\ UNCHANGED <<db, entries, written, saverFaults>>
    BY <1>1, <2>2 DEF DbCounted
  <2>3. QED BY <1>5, <2>1, <2>2 DEF Saver!FinalSave
<1>6. CASE Saver!Receive
  <2> DEFINE h == Head(entryChan)
  <2>1. /\ saverPc = "select" /\ UNCHANGED <<db, saverPc>> /\ entryChan # <<>>
        /\ \/ /\ written' = Append(written, h) /\ entries' = Append(entries, h)
              /\ UNCHANGED saverFaults
           \/ saverFaults' = saverFaults + 1 /\ UNCHANGED <<written, entries>>
    BY <1>6 DEF Saver!Receive, Saver!Fault
  <2>2. h \in Entries
    BY <1>1, <2>1
  <2> HIDE DEF h
  <2>3. CASE /\ written' = Append(written, h) /\ entries' = Append(entries, h)
             /\ UNCHANGED saverFaults
    <3>1. Len(written') = Len(written) + 1 /\ Len(entries') = Len(entries) + 1
      BY <1>1, <2>2, <2>3
    <3>2. Len(db) + Len(entries) <= Len(written) + saverFaults * MaxBatch
      BY <2>1 DEF DbCounted
    <3>3. Len(db) + Len(entries') <= Len(written') + saverFaults * MaxBatch
      BY <1>1, <1>2, <3>1, <3>2
    <3>4. QED BY <2>1, <2>3, <3>3 DEF DbCounted
  <2>4. CASE saverFaults' = saverFaults + 1 /\ UNCHANGED <<written, entries>>
    BY <1>1, <1>2, <2>1, <2>4 DEF DbCounted
  <2>5. QED BY <2>1, <2>3, <2>4
<1>7. CASE Saver!Sync \/ Saver!FinalSync
  <2>1. /\ saverPc \in {"sync", "finalsync"} /\ UNCHANGED <<db, written>>
        /\ \/ /\ UNCHANGED saverFaults
              /\ entries' = <<>> \/ saverPc' = "done"
           \/ saverFaults' = saverFaults + 1 /\ UNCHANGED entries
    BY <1>7 DEF Saver!Sync, Saver!FinalSync, Saver!SyncsSucceed, Saver!SyncsFail, Saver!Fault
  <2>2. Len(db) <= Len(written) + saverFaults * MaxBatch
    BY <1>1, <1>2, <2>1 DEF DbCounted
  <2>3. CASE UNCHANGED saverFaults /\ (entries' = <<>> \/ saverPc' = "done")
    BY <1>1, <1>2, <2>1, <2>2, <2>3 DEF DbCounted
  <2>4. CASE saverFaults' = saverFaults + 1 /\ UNCHANGED entries
    <3>1. /\ Len(db) + Len(entries) <= Len(written) + (saverFaults + 1) * MaxBatch
          /\ Len(db) <= Len(written) + (saverFaults + 1) * MaxBatch
      BY <1>1, <1>2, <2>2
    <3>2. QED BY <1>1, <2>1, <2>4, <3>1 DEF DbCounted
  <2>5. QED BY <2>1, <2>3, <2>4
<1>8. CASE Saver!CtxDone
  BY <1>8 DEF Saver!CtxDone, DbCounted
<1>9. CASE Saver!StopClose
  <2>1. /\ UNCHANGED <<db, entries, written, saverPc>>
        /\ UNCHANGED saverFaults \/ saverFaults' = saverFaults + 1
    BY <1>9 DEF Saver!StopClose, Saver!Fault
  <2>2. QED BY <1>1, <1>2, <2>1 DEF DbCounted
<1>10. CASE StopSaver \/ ContestReady \/ \E n \in Nodes : TailStep(n)
  <2>1. UNCHANGED <<db, entries, written, saverPc, saverFaults>>
    BY <1>10 DEF StopSaver, Saver!StopCancel, ContestReady, TailStep, Read, Saver!Send
  <2>2. QED BY <1>3, <2>1
<1>11. CASE \/ WatcherStep \/ StopWatcher \/ EndAction \/ ActionFails \/ Begin
            \/ Terminating \/ UNCHANGED vars \/ \E n \in Nodes : PrintLine(n) \/ NodeEnds(n)
  <2>1. UNCHANGED saverVars
    BY <1>11 DEF WatcherStep, StopWatcher, EndAction, ActionFails, Begin, Terminating,
                 vars, PrintLine, NodeEnds
  <2>2. QED BY <1>3, <2>1 DEF saverVars
<1>12. CASE SaverStep
  BY <1>4, <1>5, <1>6, <1>7, <1>8, <1>9, <1>12 DEF SaverStep
<1>13. QED BY <1>10, <1>11, <1>12 DEF Next

\* The collection has room for whatever is inserted.
LEMMA DbFits ==
  ASSUME NodesInv, SaverKnown, DbCounted
  PROVE  Len(db) <= MaxLog
<1>1. /\ Len(db) \in Nat /\ Len(entries) \in Nat /\ Len(written) \in Nat
      /\ saverFaults \in 0..MaxFaults /\ MaxBatch \in Nat /\ MaxFaults \in Nat
  BY SaverFacts, PipelineAssumption
<1>2. Len(written) <= Cardinality(Entries) /\ Cardinality(Entries) \in Nat
  BY SaverFacts, EntriesFinite, InjectiveLength
<1>3. saverFaults * MaxBatch <= MaxFaults * MaxBatch
  BY <1>1, AtMost
<1>4. saverFaults * MaxBatch \in Nat /\ MaxFaults * MaxBatch \in Nat
  BY <1>1, OneMore
<1>5. Len(db) <= Len(written) + saverFaults * MaxBatch
  BY <1>1, <1>4 DEF DbCounted
<1>6. Cardinality(Entries) + MaxFaults * MaxBatch <= MaxLog /\ MaxLog \in Nat
  BY MaxLogIsEnough, PipelineAssumption
<1>7. QED BY <1>1, <1>2, <1>3, <1>4, <1>5, <1>6

\* What has been inserted is counted, so the bound of the collection is never reached.
THEOREM InsertsAreCounted == Spec => []DbCounted
<1>1. Init => DbCounted
  <2> SUFFICES ASSUME Init PROVE DbCounted
    OBVIOUS
  <2>1. db = <<>> /\ entries = <<>> /\ written = <<>> /\ saverFaults = 0
    BY DEF Init, Saver!Init
  <2>2. Len(db) = 0 /\ Len(entries) = 0 /\ Len(written) = 0 /\ MaxBatch \in Nat
    BY <2>1, PipelineAssumption
  <2>3. QED BY <2>1, <2>2 DEF DbCounted
<1>2. NodesInv /\ SaverKnown /\ DbCounted /\ [Next]_vars => DbCounted'
  BY DbCountedKept
<1>3. QED BY <1>1, <1>2, NodesInvariant, SaverIsKnown, PTL DEF Spec

\* The bound of the collection is never reached.
THEOREM CollectionHasRoom == Spec => [](Len(db) <= MaxLog)
<1>1. NodesInv /\ SaverKnown /\ DbCounted => Len(db) <= MaxLog
  BY DbFits
<1>2. QED BY <1>1, InsertsAreCounted, NodesInvariant, SaverIsKnown, PTL

-----------------------------------------------------------------------------
\* What the watcher looks in: a function of what is stored.
LEMMA CollectionType ==
  ASSUME SaverKnown
  PROVE  Collection \in Seq(Kinds) /\ Len(Collection) = Len(db)
<1>1. db \in Seq(Entries) /\ Len(db) \in Nat
  BY SaverFacts
<1>2. \A i \in 1..Len(db) : db[i] \in Entries
  BY <1>1
<1>3. \A i \in 1..Len(db) : KindOfEntry(db[i]) \in Kinds
  BY <1>2, EntryFacts
<1>4. QED BY <1>1, <1>3 DEF Collection

\* Entries that are inserted are records added to it.
LEMMA InsertAddsRecords ==
  ASSUME NodesInv, SaverKnown, Len(db') <= MaxLog, UNCHANGED watcherVars,
         NEW n \in 0..Len(entries), db' = db \o SubSeq(entries, 1, n)
  PROVE  [Watcher!Next]_(Watcher!vars)
<1> DEFINE ks == [i \in 1..n |-> KindOfEntry(entries[i])]
<1>1. /\ db \in Seq(Entries) /\ entries \in Seq(Entries)
      /\ Len(db) \in Nat /\ Len(entries) \in 0..MaxBatch /\ n \in Nat
      /\ MaxBatch \in Nat
  BY SaverFacts, PipelineAssumption DEF NodesInv
<1>2. /\ Len(db') = Len(db) + n
      /\ \A i \in 1..Len(db) : db'[i] = db[i]
      /\ \A i \in 1..n : db'[Len(db) + i] = entries[i]
  BY <1>1
<1>3. CASE n = 0
  <2>1. db' = db
    BY <1>1, <1>3
  <2>2. UNCHANGED Collection
    BY <2>1 DEF Collection
  <2>3. QED BY <2>2 DEF Watcher!vars, watcherVars
<1>4. CASE n # 0
  <2>1. Collection \in Seq(Kinds) /\ Len(Collection) = Len(db)
    BY CollectionType
  <2>2. ks \in [1..n -> Kinds]
    <3>1. \A i \in 1..n : entries[i] \in Entries
      BY <1>1
    <3>2. QED BY <3>1, EntryFacts
  <2>3. Collection' = Collection \o ks
    <3>1. /\ Collection' = [i \in 1..(Len(db) + n) |-> KindOfEntry(db'[i])]
          /\ Collection = [i \in 1..Len(db) |-> KindOfEntry(db[i])]
      BY <1>2 DEF Collection
    <3>2. ks \in Seq(Kinds) /\ Len(ks) = n /\ \A i \in 1..n : ks[i] = KindOfEntry(entries[i])
      BY <1>1, <2>2
    <3> DEFINE u == Collection \o ks
    <3>3. /\ u \in [1..(Len(db) + n) -> Kinds]
          /\ \A i \in 1..Len(db) : u[i] = Collection[i]
          /\ \A i \in 1..n : u[Len(db) + i] = ks[i]
      <4>1. /\ Collection \o ks \in [1..(Len(Collection) + Len(ks)) -> Kinds]
            /\ \A i \in 1..Len(Collection) : (Collection \o ks)[i] = Collection[i]
            /\ \A i \in 1..Len(ks) : (Collection \o ks)[Len(Collection) + i] = ks[i]
        <5>1. Collection \in Seq(Kinds) /\ ks \in Seq(Kinds)
          BY <2>1, <3>2
        <5>2. \A c, k \in Seq(Kinds) :
                 /\ c \o k \in [1..(Len(c) + Len(k)) -> Kinds]
                 /\ \A i \in 1..Len(c) : (c \o k)[i] = c[i]
                 /\ \A i \in 1..Len(k) : (c \o k)[Len(c) + i] = k[i]
          BY ConcatParts
        <5> HIDE DEF ks
        <5>3. QED BY <5>1, <5>2
      <4>2. Len(Collection) = Len(db) /\ Len(ks) = n
        BY <2>1, <3>2
      <4> HIDE DEF ks
      <4>3. QED BY <4>1, <4>2
    <3> HIDE DEF u, ks
    <3>4. ASSUME NEW i \in 1..(Len(db) + n) PROVE u[i] = KindOfEntry(db'[i])
      <4>1. CASE i \in 1..Len(db)
        BY <1>2, <3>1, <3>3, <4>1
      <4>2. CASE i \notin 1..Len(db)
        <5>1. i - Len(db) \in 1..n /\ Len(db) + (i - Len(db)) = i
          BY <1>1, <4>2
        <5>2. u[i] = ks[i - Len(db)] /\ db'[i] = entries[i - Len(db)]
          BY <1>2, <3>3, <5>1
        <5>3. QED BY <3>2, <5>1, <5>2
      <4>3. QED BY <4>1, <4>2
    <3>5. u = [i \in 1..(Len(db) + n) |-> KindOfEntry(db'[i])]
      BY <3>3, <3>4
    <3>6. QED BY <3>1, <3>5 DEF u
  <2> HIDE DEF ks
  <2>4. [s \in Storages |-> Collection]'
          = [[s \in Storages |-> Collection] EXCEPT !["contest"] = @ \o ks]
    BY <2>3 DEF Storages
  <2>5. n \in 1..MaxBatch /\ "contest" \in Storages
    BY <1>1, <1>4 DEF Storages
  <2>6. [s \in Storages |-> Collection]["contest"] = Collection
    BY <2>5
  <2>7. Watcher!AddRecords("contest", n)
    BY <1>2, <2>1, <2>2, <2>4, <2>6 DEF Watcher!AddRecords, Watcher!loopVars, watcherVars
  <2>8. QED BY <2>5, <2>7 DEF Watcher!Next
<1>5. QED BY <1>3, <1>4

\* The watcher of the pipeline is the one of LogWatcher: whatever inserts fail half-way
\* and are repeated, a record of the collection stays where it was.
THEOREM PipelineKeepsWatcher == Spec => KeepsWatcher
<1>1. Init => Watcher!Init
  <2> SUFFICES ASSUME Init PROVE Watcher!Init
    OBVIOUS
  <2>1. QED BY DEF Init
<1>2. ASSUME NodesInv, SaverKnown, (Len(db) <= MaxLog)', [Next]_vars
      PROVE  [Watcher!Next]_(Watcher!vars)
  <2>1. CASE UNCHANGED <<watcherVars, db>>
    <3>1. UNCHANGED Collection
      BY <2>1 DEF Collection
    <3>2. QED BY <2>1, <3>1 DEF Watcher!vars, watcherVars
  <2>2. CASE WatcherStep \/ StopWatcher \/ EndAction \/ ActionFails
    BY <2>2 DEF WatcherStep, StopWatcher, EndAction, ActionFails, Watcher!Next, Watcher!Loop
  <2>3. CASE SaverStep
    <3>1. UNCHANGED watcherVars
      BY <2>3 DEF SaverStep
    <3>2. ASSUME NEW succ, NEW fail, Saver!AddLogEntries(succ, fail)
          PROVE  [Watcher!Next]_(Watcher!vars)
      <4>1. CASE UNCHANGED db
        BY <2>1, <3>1, <4>1
      <4>2. CASE db' = db \o entries
        <5>1. Len(entries) \in 0..Len(entries) /\ SubSeq(entries, 1, Len(entries)) = entries
          <6>1. entries \in Seq(Entries)
            BY <1>2, SaverFacts
          <6>2. QED BY <6>1
        <5>2. QED BY <1>2, <3>1, <4>2, <5>1, InsertAddsRecords
      <4>3. CASE \E n \in 0..Len(entries) : db' = db \o SubSeq(entries, 1, n)
        BY <1>2, <3>1, <4>3, InsertAddsRecords
      <4>4. QED BY <3>2, <4>1, <4>2, <4>3 DEF Saver!AddLogEntries
    <3>3. CASE Saver!Tick \/ (Saver!FinalSave /\ Saver!AddLogEntries("finalsync", "failed"))
      BY <3>2, <3>3 DEF Saver!Tick
    <3>4. UNCHANGED db \/ Saver!Tick
             \/ (Saver!FinalSave /\ Saver!AddLogEntries("finalsync", "failed"))
      BY <2>3 DEF SaverStep, Saver!Receive, Saver!Sync, Saver!CtxDone, Saver!FinalSave,
                  Saver!FinalSync, Saver!StopClose
    <3>5. QED BY <2>1, <3>1, <3>3, <3>4
  <2>4. CASE \/ StopSaver \/ ContestReady \/ Begin \/ Terminating \/ UNCHANGED vars
             \/ \E n \in Nodes : PrintLine(n) \/ NodeEnds(n) \/ TailStep(n)
    <3>1. UNCHANGED <<watcherVars, db>>
      BY <2>4 DEF StopSaver, Saver!StopCancel, ContestReady, Saver!Send, Begin, Terminating,
                  vars, PrintLine, NodeEnds, TailStep, Read, saverVars
    <3>2. QED BY <2>1, <3>1
  <2>5. QED BY <1>2, <2>2, <2>3, <2>4 DEF Next
<1>3. QED
  BY <1>1, <1>2, CollectionHasRoom, NodesInvariant, SaverIsKnown, PTL
     DEF Spec, KeepsWatcher, Watcher!Spec

-----------------------------------------------------------------------------
\* An entry that is later than all before it of its tail may be appended, ...
LEMMA InOrderAppend ==
  ASSUME NEW s \in Seq(Entries), NEW e \in Entries, InOrder(s),
         \A f \in ToSet(s) : SameTail(f, e) => f[2] < e[2]
  PROVE  InOrder(Append(s, e))
<1>1. /\ Len(Append(s, e)) = Len(s) + 1 /\ Len(s) \in Nat /\ DOMAIN s = 1..Len(s)
      /\ \A i \in 1..Len(s) : Append(s, e)[i] = s[i]
      /\ Append(s, e)[Len(s) + 1] = e
  OBVIOUS
<1> SUFFICES ASSUME NEW j \in 1..(Len(s) + 1), NEW i \in 1..(j - 1),
                    SameTail(Append(s, e)[i], Append(s, e)[j])
             PROVE  Append(s, e)[i][2] < Append(s, e)[j][2]
  BY <1>1 DEF InOrder
<1>2. i \in 1..Len(s) /\ Append(s, e)[i] = s[i]
  BY <1>1
<1>3. CASE j = Len(s) + 1
  <2>1. s[i] \in ToSet(s)
    BY <1>1, <1>2 DEF ToSet
  <2>2. QED BY <1>1, <1>2, <1>3, <2>1
<1>4. CASE j # Len(s) + 1
  <2>1. j \in 1..Len(s)
    BY <1>1, <1>4
  <2>2. QED BY <1>1, <1>2, <2>1 DEF InOrder
<1>5. QED BY <1>3, <1>4

\* ... and the first of a sequence is before all the others of its tail.
LEMMA InOrderTail ==
  ASSUME NEW s \in Seq(Entries), s # <<>>, InOrder(s)
  PROVE  /\ InOrder(Tail(s))
         /\ \A f \in ToSet(Tail(s)) : SameTail(Head(s), f) => Head(s)[2] < f[2]
<1>1. /\ Len(Tail(s)) = Len(s) - 1 /\ Len(s) \in Nat \ {0} /\ Head(s) = s[1]
      /\ \A i \in 1..(Len(s) - 1) : Tail(s)[i] = s[i + 1]
      /\ DOMAIN Tail(s) = 1..(Len(s) - 1)
  OBVIOUS
<1>2. ASSUME NEW j \in 1..(Len(s) - 1), NEW i \in 1..(j - 1),
             SameTail(Tail(s)[i], Tail(s)[j])
      PROVE  Tail(s)[i][2] < Tail(s)[j][2]
  <2>1. /\ j + 1 \in 1..Len(s) /\ i + 1 \in 1..((j + 1) - 1)
        /\ Tail(s)[i] = s[i + 1] /\ Tail(s)[j] = s[j + 1]
    BY <1>1
  <2>2. QED BY <1>2, <2>1 DEF InOrder
<1>3. ASSUME NEW j \in 1..(Len(s) - 1), SameTail(Head(s), Tail(s)[j])
      PROVE  Head(s)[2] < Tail(s)[j][2]
  <2>1. j + 1 \in 1..Len(s) /\ 1 \in 1..((j + 1) - 1) /\ Tail(s)[j] = s[j + 1]
    BY <1>1
  <2>2. QED BY <1>1, <1>3, <2>1 DEF InOrder
<1>4. InOrder(Tail(s))
  BY <1>1, <1>2 DEF InOrder
<1>5. QED BY <1>1, <1>3, <1>4 DEF ToSet

\* A tail that has read a line stays and does not go back.
TailsGrow ==
  \A n \in Nodes : /\ Len(tails[n]) <= Len(tails'[n])
                   /\ \A t \in 1..Len(tails[n]) : tails[n][t] <= tails'[n][t]

\* What a tail has read it has read for ever.
LEMMA StillRead ==
  ASSUME NodesInv, NodesInv', TailsGrow, NEW e \in Entries, ReadByTail(e)
  PROVE  ReadByTail(e)'
<1>1. e[1] \in Nodes /\ e[3] \in 1..Len(tails[e[1]]) /\ e[2] <= tails[e[1]][e[3]]
  BY DEF ReadByTail
<1>2. tails[e[1]] \in Seq(Nat) /\ tails'[e[1]] \in Seq(Nat) /\ e[2] \in Nat
  BY <1>1, EntryFacts DEF NodesInv
<1>3. /\ Len(tails[e[1]]) \in Nat /\ Len(tails'[e[1]]) \in Nat
      /\ Len(tails[e[1]]) <= Len(tails'[e[1]])
  BY <1>1, <1>2 DEF TailsGrow
<1>4. e[3] \in 1..Len(tails'[e[1]])
  BY <1>1, <1>3
<1>5. tails[e[1]][e[3]] \in Nat /\ tails'[e[1]][e[3]] \in Nat
  <2>1. \A s \in Seq(Nat) : \A i \in 1..Len(s) : s[i] \in Nat
    OBVIOUS
  <2>2. QED BY <1>1, <1>2, <1>4, <2>1
<1>6. tails[e[1]][e[3]] <= tails'[e[1]][e[3]]
  BY <1>1 DEF TailsGrow
<1>7. e[2] <= tails'[e[1]][e[3]]
  <2>1. \A a, b, c \in Nat : a <= b /\ b <= c => a <= c
    OBVIOUS
  <2>2. QED BY <1>1, <1>2, <1>5, <1>6, <2>1
<1>8. QED BY <1>1, <1>4, <1>7 DEF ReadByTail

\* A tail is never moved back, and none is closed.
LEMMA TailsOnlyGrow ==
  ASSUME NodesInv, [Next]_vars
  PROVE  TailsGrow
<1>1. tails \in [Nodes -> Seq(Nat)]
  BY DEF NodesInv
<1>2. CASE UNCHANGED tails
  <2>1. ASSUME NEW n \in Nodes
        PROVE  /\ Len(tails[n]) \in Nat
               /\ \A t \in 1..Len(tails[n]) : tails[n][t] \in Nat
    <3>1. tails[n] \in Seq(Nat)
      BY <1>1
    <3>2. QED BY <3>1
  <2>2. QED BY <1>2, <2>1 DEF TailsGrow
<1>3. CASE \E n \in Nodes : TailStep(n)
  <2>0. PICK n \in Nodes : TailStep(n)
    BY <1>3
  <2>1. PICK t \in DOMAIN tails[n] : Read(n, t)
    BY <2>0 DEF TailStep
  <2>2. tails' = [tails EXCEPT ![n] = [tails[n] EXCEPT ![t] = @ + 1]]
    BY <2>1 DEF Read
  <2>3. ASSUME NEW m \in Nodes, tails[m] \in Seq(Nat)
        PROVE  /\ Len(tails[m]) <= Len(tails'[m])
               /\ \A u \in 1..Len(tails[m]) : tails[m][u] <= tails'[m][u]
    <3>1. Len(tails[m]) \in Nat /\ \A u \in 1..Len(tails[m]) : tails[m][u] \in Nat
      BY <2>3
    <3>2. CASE m # n
      BY <1>1, <2>2, <3>1, <3>2
    <3>3. CASE m = n
      <4>1. tails'[m] = [tails[m] EXCEPT ![t] = @ + 1]
        BY <1>1, <2>2, <3>3
      <4>2. QED BY <2>3, <3>1, <4>1
    <3>4. QED BY <3>2, <3>3
  <2>4. QED BY <1>1, <2>3 DEF TailsGrow
<1>4. CASE Begin
  <2> DEFINE n == ActionNode[cl]
  <2>1. UNCHANGED tails \/ tails' = [tails EXCEPT ![n] = Append(@, 0)]
    BY <1>4 DEF Begin
  <2> HIDE DEF n
  <2>2. CASE tails' = [tails EXCEPT ![n] = Append(@, 0)]
    <3>1. ASSUME NEW m \in Nodes, tails[m] \in Seq(Nat)
          PROVE  /\ Len(tails[m]) <= Len(tails'[m])
                 /\ \A u \in 1..Len(tails[m]) : tails[m][u] <= tails'[m][u]
      <4>1. Len(tails[m]) \in Nat /\ \A u \in 1..Len(tails[m]) : tails[m][u] \in Nat
        BY <3>1
      <4>2. tails'[m] \in {tails[m], Append(tails[m], 0)}
        BY <1>1, <2>2
      <4>3. /\ Len(Append(tails[m], 0)) = Len(tails[m]) + 1
            /\ \A u \in 1..Len(tails[m]) : Append(tails[m], 0)[u] = tails[m][u]
        BY <3>1
      <4>4. QED BY <4>1, <4>2, <4>3
    <3>2. QED BY <1>1, <3>1 DEF TailsGrow
  <2>3. QED BY <1>2, <2>1, <2>2
<1>5. CASE \/ WatcherStep \/ StopWatcher \/ EndAction \/ ActionFails \/ Terminating
           \/ UNCHANGED vars \/ SaverStep \/ StopSaver \/ ContestReady
           \/ \E n \in Nodes : PrintLine(n) \/ NodeEnds(n)
  <2>1. UNCHANGED tails
    BY <1>5 DEF WatcherStep, StopWatcher, EndAction, ActionFails, Terminating, vars,
                SaverStep, StopSaver, ContestReady, PrintLine, NodeEnds, nodeVars
  <2>2. QED BY <1>2, <2>1
<1>6. QED BY <1>3, <1>4, <1>5 DEF Next

\* An entry that is sent is new, and later than all before it of its tail.
LEMMA SendKeepsOrder ==
  ASSUME NodesInv, NodesInv', TailsGrow, SaverKnown, ReadInOrder,
         NEW e \in Entries, Saver!Send(e), e = Ready \/ ReadByTail(e)',
         \A f \in sent : SameTail(f, e) => f[2] < e[2]
  PROVE  ReadInOrder'
<1>1. /\ entryChan \in Seq(Entries) /\ sent \subseteq Entries
      /\ ToSet(entryChan) \subseteq sent /\ ToSet(written) \subseteq sent
  BY SaverFacts
<1>2. /\ sent' = sent \cup {e} /\ entryChan' = Append(entryChan, e)
      /\ UNCHANGED written
  BY DEF Saver!Send
<1>3. ToSet(entryChan') = ToSet(entryChan) \cup {e}
  BY <1>1, <1>2, EntryAppended
<1>4. ASSUME NEW f \in sent' PROVE f = Ready \/ ReadByTail(f)'
  <2>1. CASE f = e
    BY <2>1
  <2>2. CASE f # e
    <3>1. f \in sent /\ f \in Entries
      BY <1>1, <1>2, <2>2
    <3>2. f = Ready \/ ReadByTail(f)
      BY <3>1 DEF ReadInOrder
    <3>3. QED BY <3>1, <3>2, StillRead
  <2>3. QED BY <2>1, <2>2
<1>5. InOrder(entryChan')
  <2>1. InOrder(entryChan)
    BY DEF ReadInOrder
  <2>2. QED BY <1>1, <1>2, <2>1, InOrderAppend
<1>6. InOrder(written')
  BY <1>2 DEF ReadInOrder
<1>7. ASSUME NEW f \in ToSet(written'), NEW g \in ToSet(entryChan'), SameTail(f, g)
      PROVE  f[2] < g[2]
  <2>1. f \in ToSet(written) /\ f \in sent
    BY <1>1, <1>2
  <2>2. QED BY <1>3, <1>7, <2>1 DEF ReadInOrder
<1>8. QED BY <1>4, <1>5, <1>6, <1>7 DEF ReadInOrder

\* The saver takes what comes first.
LEMMA ReceiveKeepsOrder ==
  ASSUME NodesInv, NodesInv', TailsGrow, SaverKnown, ReadInOrder, Saver!Receive
  PROVE  ReadInOrder'
<1> DEFINE h == Head(entryChan)
<1>1. /\ entryChan \in Seq(Entries) /\ written \in Seq(Entries) /\ sent \subseteq Entries
      /\ entryChan # <<>> /\ entryChan' = Tail(entryChan) /\ UNCHANGED sent
      /\ written' = Append(written, h) \/ UNCHANGED written
  BY SaverFacts DEF Saver!Receive
<1>2. h \in Entries /\ h \in ToSet(entryChan) /\ ToSet(entryChan') \subseteq ToSet(entryChan)
  BY <1>1, EntryTaken
<1>3. /\ InOrder(entryChan')
      /\ \A f \in ToSet(entryChan') : SameTail(h, f) => h[2] < f[2]
  BY <1>1, InOrderTail DEF ReadInOrder
<1> HIDE DEF h
<1>4. /\ InOrder(written)
      /\ \A e \in ToSet(written), f \in ToSet(entryChan) : SameTail(e, f) => e[2] < f[2]
  BY DEF ReadInOrder
<1>5. ASSUME NEW f \in sent' PROVE f = Ready \/ ReadByTail(f)'
  <2>1. f \in sent /\ f \in Entries
    BY <1>1
  <2>2. f = Ready \/ ReadByTail(f)
    BY <2>1 DEF ReadInOrder
  <2>3. QED BY <2>1, <2>2, StillRead
<1>6. CASE UNCHANGED written
  BY <1>2, <1>3, <1>4, <1>5, <1>6 DEF ReadInOrder
<1>7. CASE written' = Append(written, h)
  <2>1. ToSet(written') = ToSet(written) \cup {h}
    <3>1. ToSet(Append(written, h)) = ToSet(written) \cup {h}
      BY <1>1, <1>2, EntryAppended
    <3>2. QED BY <1>7, <3>1
  <2>2. InOrder(written')
    BY <1>1, <1>2, <1>4, <1>7, InOrderAppend
  <2>3. \A e \in ToSet(written'), f \in ToSet(entryChan') : SameTail(e, f) => e[2] < f[2]
    BY <1>2, <1>3, <1>4, <2>1
  <2>4. QED BY <1>3, <1>5, <2>2, <2>3 DEF ReadInOrder
<1>8. QED BY <1>1, <1>6, <1>7

\* The order of the lines of a tail is kept by every step.
LEMMA ReadInOrderKept ==
  ASSUME NodesInv, NodesInv', SaverKnown, ReadInOrder, [Next]_vars
  PROVE  ReadInOrder'
<1>1. TailsGrow /\ sent \subseteq Entries
  BY TailsOnlyGrow, SaverFacts
<1>2. \A f \in sent : f = Ready \/ ReadByTail(f)
  BY DEF ReadInOrder
<1>3. CASE UNCHANGED <<sent, written, entryChan>>
  <2>1. \A f \in sent : f = Ready \/ ReadByTail(f)'
    BY <1>1, <1>2, StillRead
  <2>2. QED BY <1>3, <2>1 DEF ReadInOrder
<1>4. CASE \E n \in Nodes : TailStep(n)
  <2>1. PICK n \in Nodes : TailStep(n)
    BY <1>4
  <2>2. PICK t \in DOMAIN tails[n] : Read(n, t)
    BY <2>1 DEF TailStep
  <2>3. /\ Saver!Send(<<n, tails[n][t] + 1, t>>) /\ tails[n][t] < printed[n]
        /\ tails' = [tails EXCEPT ![n] = [tails[n] EXCEPT ![t] = @ + 1]]
    BY <2>2 DEF Read
  <2>4. /\ tails \in [Nodes -> Seq(Nat)] /\ tails[n] \in Seq(Nat)
        /\ LineKind[n] \in Seq(Kinds) /\ printed[n] \in Nat
        /\ printed[n] <= Len(LineKind[n])
    BY PipelineAssumption DEF NodesInv
  <2>5. t \in 1..Len(tails[n]) /\ t \in 1..N /\ tails[n][t] \in Nat
    <3>1. t \in 1..Len(tails[n]) /\ Len(tails[n]) \in Nat /\ tails[n][t] \in Nat
      BY <2>4
    <3>2. QED BY <3>1, PipelineAssumption DEF NodesInv
  <2>6. PICK e \in Entries : e = <<n, tails[n][t] + 1, t>>
    <3>1. Len(LineKind[n]) \in Nat
      BY <2>4
    <3>2. tails[n][t] + 1 \in 1..Len(LineKind[n])
      BY <2>3, <2>4, <2>5, <3>1
    <3>3. QED BY <2>5, <3>2, EntryOfLine
  <2>7. e[1] = n /\ e[2] = tails[n][t] + 1 /\ e[3] = t
    BY <2>6
  <2>8. ReadByTail(e)'
    <3>1. tails'[n] = [tails[n] EXCEPT ![t] = @ + 1]
      BY <2>3, <2>4
    <3>2. Len(tails'[n]) = Len(tails[n]) /\ tails'[n][t] = tails[n][t] + 1
      BY <2>4, <2>5, <3>1
    <3>3. e[2] <= tails'[n][t]
      BY <2>5, <2>7, <3>2
    <3>4. QED BY <2>5, <2>7, <3>2, <3>3 DEF ReadByTail
  <2>9. ASSUME NEW f \in sent, SameTail(f, e) PROVE f[2] < e[2]
    <3>1. f[1] = n /\ f[3] = t
      BY <2>7, <2>9 DEF SameTail
    <3>2. f # Ready
      BY <3>1, PipelineAssumption DEF Ready
    <3>3. f[2] <= tails[n][t]
      BY <1>2, <3>1, <3>2 DEF ReadByTail
    <3>4. f[2] \in Nat
      BY <1>1, EntryFacts
    <3>5. QED BY <2>5, <2>7, <3>3, <3>4
  <2>10. Saver!Send(e)
    BY <2>3, <2>6
  <2>11. QED BY <1>1, <2>8, <2>9, <2>10, SendKeepsOrder
<1>5. CASE ContestReady
  <2>1. Ready \in Entries /\ Saver!Send(Ready) /\ Ready \notin sent
    BY <1>5 DEF Entries, ContestReady, Saver!Send
  <2>2. ASSUME NEW f \in sent, SameTail(f, Ready) PROVE f[2] < Ready[2]
    <3>1. f[1] = Contest
      BY <2>2 DEF SameTail, Ready
    <3>2. ~ReadByTail(f)
      BY <3>1, PipelineAssumption DEF ReadByTail
    <3>3. QED BY <1>2, <2>1, <3>2
  <2>3. QED BY <1>1, <2>1, <2>2, SendKeepsOrder
<1>6. CASE Saver!Receive
  BY <1>1, <1>6, ReceiveKeepsOrder
<1>7. CASE SaverStep /\ ~Saver!Receive
  <2>1. UNCHANGED <<sent, written, entryChan>>
    BY <1>7 DEF SaverStep, Saver!Tick, Saver!Sync, Saver!CtxDone, Saver!FinalSave,
                Saver!FinalSync, Saver!StopClose, Saver!AddLogEntries
  <2>2. QED BY <1>3, <2>1
<1>8. CASE \/ WatcherStep \/ StopWatcher \/ EndAction \/ ActionFails \/ Begin
           \/ Terminating \/ UNCHANGED vars \/ StopSaver
           \/ \E n \in Nodes : PrintLine(n) \/ NodeEnds(n)
  <2>1. UNCHANGED <<sent, written, entryChan>>
    BY <1>8 DEF WatcherStep, StopWatcher, EndAction, ActionFails, Begin, Terminating, vars,
                StopSaver, Saver!StopCancel, PrintLine, NodeEnds, saverVars
  <2>2. QED BY <1>3, <2>1
<1>9. QED BY <1>4, <1>5, <1>6, <1>7, <1>8 DEF Next, SaverStep

\* The lines of a tail pass in order, whatever the tails of other nodes and older ones
\* of the node do.
THEOREM LinesPassInOrder == Spec => []ReadInOrder
<1>1. Init => ReadInOrder
  <2> SUFFICES ASSUME Init PROVE ReadInOrder
    OBVIOUS
  <2>1. sent = {} /\ written = <<>> /\ entryChan = <<>>
    BY DEF Init, Saver!Init
  <2>2. ToSet(written) = {} /\ Len(written) = 0 /\ Len(entryChan) = 0
    BY <2>1 DEF ToSet
  <2>3. QED BY <2>1, <2>2 DEF ReadInOrder, InOrder
<1>2. NodesInv /\ NodesInv' /\ SaverKnown /\ ReadInOrder /\ [Next]_vars => ReadInOrder'
  BY ReadInOrderKept
<1>3. QED BY <1>1, <1>2, NodesInvariant, SaverIsKnown, PTL DEF Spec

-----------------------------------------------------------------------------
\* An entry of which there is one copy is nowhere else.
LEMMA OneCopy ==
  ASSUME NEW e, Copies(e) = 1, Len(db) \in Nat,
         NEW p \in 1..Len(db), NEW q \in 1..Len(db), db[p] = e, db[q] = e
  PROVE  p = q
<1> DEFINE S == {i \in 1..Len(db) : db[i] = e}
<1>1. IsFiniteSet(S)
  <2>1. IsFiniteSet(1..Len(db))
    BY FS_Interval
  <2>2. QED BY <2>1, FS_Subset
<1>2. Cardinality(S) = 1 /\ p \in S /\ q \in S
  BY DEF Copies
<1> HIDE DEF S
<1>3. PICK x : S = {x}
  BY <1>1, <1>2, FS_Singleton
<1>4. QED BY <1>2, <1>3

\* Of two lines of a tail, the one at the greater _id is the later one, if there is one
\* copy of it: all that was written before the other has a copy before the other.
LEMMA GreaterIsLater ==
  ASSUME SaverKnown, ReadInOrder,
         NEW p \in 1..Len(db), NEW q \in 1..Len(db), p < q,
         SameTail(db[p], db[q]), Copies(db[q]) = 1
  PROVE  db[p][2] < db[q][2]
<1>1. /\ db \in Seq(Entries) /\ written \in Seq(Entries) /\ Len(db) \in Nat
      /\ Len(written) \in Nat /\ DOMAIN db = 1..Len(db) /\ DOMAIN written = 1..Len(written)
      /\ ToSet(db) \subseteq ToSet(written)
  BY SaverFacts
<1>2. db[p] \in ToSet(written) /\ db[q] \in ToSet(written)
  BY <1>1 DEF ToSet
<1>3. PICK k \in 1..Len(written) : written[k] = db[p]
  BY <1>1, <1>2 DEF ToSet
<1>4. PICK l \in 1..Len(written) : written[l] = db[q]
  BY <1>1, <1>2 DEF ToSet
<1>5. CASE k < l
  <2>1. k \in 1..(l - 1)
    BY <1>1, <1>5
  <2>2. QED BY <1>3, <1>4, <2>1 DEF ReadInOrder, InOrder
<1>6. CASE k >= l
  <2>1. l \in 1..k
    BY <1>1, <1>6
  <2>2. SaverProofs!PredecessorsFirst
    BY DEF SaverKnown
  <2>3. PICK r \in 1..p : db[r] = written[l]
    BY <1>3, <2>1, <2>2 DEF SaverProofs!PredecessorsFirst
  <2>4. r \in 1..Len(db) /\ r # q
    BY <1>1
  <2>5. r = q
    BY <1>1, <1>4, <2>3, <2>4, OneCopy
  <2>6. QED BY <2>4, <2>5
<1>7. QED BY <1>1, <1>5, <1>6

\* A condition that names a register matches a later line of the node, if the same tail
\* has read both and the line was inserted once.
THEOREM LaterIdsAreLaterLines == Spec => []MatchIsLater
<1> DEFINE WatcherKnown == WatcherProofs!WatcherInv /\ WatcherProofs!MatchedRecords
<1>1. SaverKnown /\ ReadInOrder /\ WatcherKnown => MatchIsLater
  <2> SUFFICES ASSUME SaverKnown, ReadInOrder, WatcherKnown,
                      NEW i \in 1..cl, NEW j \in 1..(i - 1),
                      Watcher!SetsFor(j, i), SameTail(LineOf(j), LineOf(i)),
                      Copies(LineOf(i)) = 1
               PROVE  LineOf(j)[2] < LineOf(i)[2]
    BY DEF MatchIsLater, SameTail
  <2>1. hit[j] < hit[i]
    <3>1. WatcherProofs!MatchesAfterRegister /\ WatcherProofs!TypeOK
      BY DEF WatcherProofs!WatcherInv
    <3>2. WatcherProofs!SetsFor(j, i)
      BY DEF Watcher!SetsFor, WatcherProofs!SetsFor
    <3>3. hit \in [1..N -> Nat] /\ cl \in 0..N /\ N \in Nat
      BY <3>1, PipelineAssumption DEF WatcherProofs!TypeOK
    <3>4. hit[i] > hit[j]
      BY <3>1, <3>2 DEF WatcherProofs!MatchesAfterRegister
    <3>5. i \in 1..N /\ j \in 1..N
      BY <3>3
    <3>6. QED BY <3>3, <3>4, <3>5
  <2>2. \A k \in 1..cl : hit[k] \in 1..Len(db)
    <3>1. Len(Collection) = Len(db) /\ cl \in 0..N /\ N \in Nat
      BY CollectionType, PipelineAssumption DEF WatcherProofs!WatcherInv, WatcherProofs!TypeOK
    <3>2. ASSUME NEW k \in 1..cl PROVE hit[k] \in 1..Len(Collection)
      <4>1. /\ [m \in 1..N |-> "contest"][k] = "contest"
            /\ [s \in Storages |-> Collection]["contest"] = Collection
        BY <3>1 DEF Storages
      <4> HIDE DEF Collection
      <4>2. QED BY <4>1 DEF WatcherProofs!MatchedRecords
    <3>3. QED BY <3>1, <3>2
  <2>3. i \in 1..cl /\ j \in 1..cl
    BY PipelineAssumption DEF WatcherProofs!WatcherInv, WatcherProofs!TypeOK
  <2>4. QED BY <2>1, <2>2, <2>3, GreaterIsLater DEF LineOf
<1>2. Spec => []WatcherKnown
  BY WatcherHolds, PipelineKeepsWatcher, PTL DEF KeepsWatcher
<1>3. QED BY <1>1, <1>2, SaverIsKnown, LinesPassInOrder, PTL
=============================================================================
