----------------------------- MODULE LogWatcher -----------------------------
(***************************************************************************)
(* host.LogWatcher (src/host/log_watcher.go) with the conditions and       *)
(* registers it works on (condition.go, sequence.go): a goroutine that, on *)
(* a ticker, looks in a storage for a record that matches the condition of *)
(* the current sequence, keeps the record in registers, runs the action    *)
(* and compiles the query of the next condition; and Stop, which takes the *)
(* same lock.                                                              *)
(*                                                                         *)
(* A record is an entry of a storage's log, its place there is its _id, and *)
(* a condition asks for the records of a kind, of a greater _id than the   *)
(* record in a register or of any.  A fault is a failed connection, query  *)
(* or action.                                                              *)
(***************************************************************************)
EXTENDS Integers, Sequences

CONSTANTS N,            (* number of sequences                                *)
          Storages,     (* uris of the storages conditions look in            *)
          Kinds,        (* what tells records apart to the conditions         *)
          Registers,    (* names of registers, LastMatch among them           *)
          LastMatch,    (* Register.last_match, which every match sets        *)
          Nothing,      (* no register                                        *)
          StorageOf, KindOf, (* of the condition of each sequence             *)
          AfterReg,     (* the register a condition names, or Nothing         *)
          ToReg,        (* the register a sequence sets, or Nothing           *)
          WithAction,   (* the sequences whose action is not a NullAction     *)
          StopJoins,    (* {TRUE} if ContextDaemon.Stop waits for its         *)
                        (*   callback, {FALSE} if not, both for either        *)
          MaxLog,       (* bound on the length of a storage's log             *)
          MaxBatch,     (* bound on the records one insert adds               *)
          MaxFaults     (* bound on faults                                    *)

ASSUME ConstantsAssumption ==
    /\ N \in Nat \ {0}                    \* NewLogWatcher refuses an empty list
    /\ LastMatch \in Registers /\ Nothing \notin Registers
    /\ StorageOf \in [1..N -> Storages] /\ KindOf \in [1..N -> Kinds]
    /\ AfterReg \in [1..N -> Registers \cup {Nothing}]
    /\ ToReg \in [1..N -> Registers \cup {Nothing}]
    /\ WithAction \subseteq 1..N
    /\ StopJoins \in (SUBSET BOOLEAN) \ {{}}
    /\ MaxLog \in Nat /\ MaxBatch \in Nat /\ MaxFaults \in Nat

VARIABLES log,          (* the records of each storage                        *)
          cl,           (* lw.cl: sequences matched                           *)
          regs,         (* vars Register.*: the _id kept, or Unset            *)
          compiled,     (* co.query of each condition: the _id it compares    *)
                        (*   with, or Unset while it is nil                   *)
          pool,         (* lw.storagePool                                     *)
          lock,         (* lw.RWMutex: "free", or who holds it for writing    *)
          pc,           (* where the goroutine is                             *)
          err,          (* its stopError is not nil                           *)
          verdict,      (* what it sent to exitChan                           *)
          cancelled,    (* its context                                        *)
          stop,         (* where Stop is                                      *)
          hit,          (* history: the _id each condition matched            *)
          ran,          (* history: sequences done with, action included        *)
          faults

loopVars == <<cl, regs, compiled, err, verdict, hit, ran>>
vars == <<log, cl, regs, compiled, pool, lock, pc, err, verdict, cancelled, stop,
          hit, ran, faults>>

PCs == {"boot", "select", "current", "evaluate", "action", "next", "exit", "done"}
Stops == {"no", "called", "locked", "joining", "returned"}
Unset == -1

Fault == faults < MaxFaults /\ faults' = faults + 1

Init == /\ log = [s \in Storages |-> <<>>]
        /\ cl = 0
        /\ regs = [r \in Registers |-> Unset]
        /\ compiled = [i \in 1..N |-> Unset]
        /\ pool = [s \in Storages |-> "none"]
        /\ lock = "free" /\ pc = "boot" /\ err = FALSE /\ verdict = "none"
        /\ cancelled = FALSE /\ stop = "no"
        /\ hit = [i \in 1..N |-> 0] /\ ran = 0 /\ faults = 0

\* The nodes and the log saver insert n records while the goroutine works.
AddRecords(s, n) ==
    /\ Len(log[s]) + n <= MaxLog
    /\ \E ks \in [1..n -> Kinds] : log' = [log EXCEPT ![s] = @ \o ks]
    /\ UNCHANGED <<pool, lock, pc, cancelled, stop, faults>> /\ UNCHANGED loopVars
-----------------------------------------------------------------------------
(* The goroutine.                                                          *)

\* The first lw.Current(), whose read lock waits for a writer.
Boot == /\ pc = "boot" /\ lock = "free" /\ pc' = "select"
        /\ UNCHANGED <<log, pool, lock, cancelled, stop, faults>> /\ UNCHANGED loopVars

Tick == /\ pc = "select" /\ pc' = "current"
        /\ UNCHANGED <<log, pool, lock, cancelled, stop, faults>> /\ UNCHANGED loopVars

CtxDone == /\ pc = "select" /\ cancelled /\ pc' = "exit"
           /\ UNCHANGED <<log, pool, lock, cancelled, stop, faults>> /\ UNCHANGED loopVars

\* sq, found := lw.Current()
Current == /\ pc = "current" /\ lock = "free"
           /\ pc' = IF cl = N THEN "select" ELSE "evaluate"
           /\ UNCHANGED <<log, pool, lock, cancelled, stop, faults>> /\ UNCHANGED loopVars

\* Condition.Query: the cached query, or the template compiled with the
\* registers as they are; a register that is not set makes it fail (Unset).
Query(i) == IF compiled[i] # Unset THEN compiled[i]
            ELSE IF AfterReg[i] = Nothing THEN 0 ELSE regs[AfterReg[i]]

\* (Slips: asking for >= instead of >; looking at the newest record only.)
MatchingFrom(i) == {id \in 1..Len(log[StorageOf[i]]) :
                       log[StorageOf[i]][id] = KindOf[i] /\ id >= Query(i)}
MatchingNewest(i) == {id \in {Len(log[StorageOf[i]])} \ {0} :
                         log[StorageOf[i]][id] = KindOf[i] /\ id > Query(i)}

\* What Mongodb.Find may return for condition i: the record of the greatest _id.
Matching(i) == {id \in 1..Len(log[StorageOf[i]]) :
                   log[StorageOf[i]][id] = KindOf[i] /\ id > Query(i)}
Found(i) == {id \in Matching(i) : \A x \in Matching(i) : x <= id}

Fail == /\ pc' = "exit" /\ err' = TRUE
        /\ UNCHANGED <<cl, regs, verdict, hit>>

\* getStorage: a storage is connected once and kept in the pool.
GetStorage(s) == pool' = [pool EXCEPT ![s] = IF @ = "none" THEN "open" ELSE @]

\* evaluate, first part: no match, or an error, ends it and frees the lock.
NoMatch ==
    LET i == cl + 1
        s == StorageOf[i] IN
    /\ pc = "evaluate" /\ lock = "free"
    /\ \/ /\ pool[s] = "none" /\ Fault /\ Fail            \* getStorage fails
          /\ UNCHANGED <<pool, compiled>>
       \/ /\ GetStorage(s)
          /\ compiled' = [compiled EXCEPT ![i] = Query(i)]
          /\ \/ /\ Query(i) = Unset \/ cancelled \/ pool[s] = "closed"
                /\ Fail /\ UNCHANGED faults
             \/ Fault /\ Fail                              \* Find fails
             \/ /\ Query(i) # Unset /\ ~cancelled /\ pool[s] # "closed"
                /\ Found(i) = {} /\ pc' = "select"
                /\ UNCHANGED <<cl, regs, err, verdict, hit, faults>>
    /\ UNCHANGED <<log, lock, cancelled, stop, ran>>

SetRegisters(i, id) ==
    regs' = [r \in Registers |-> IF r \in {LastMatch, ToReg[i]} THEN id ELSE regs[r]]

\* (A slip: looking without the context of the goroutine.)
MatchCancelled ==
    LET i == cl + 1
        s == StorageOf[i] IN
    /\ pc = "evaluate" /\ lock = "free" /\ Query(i) # Unset
    /\ compiled' = [compiled EXCEPT ![i] = Query(i)]
    /\ \E id \in Found(i) : SetRegisters(i, id) /\ hit' = [hit EXCEPT ![i] = id]
    /\ cl' = i /\ lock' = "loop" /\ pc' = "next"
    /\ UNCHANGED <<log, pool, err, verdict, cancelled, stop, ran, faults>>

\* evaluate, first part: a match; the lock is kept for the rest.
Match ==
    LET i == cl + 1
        s == StorageOf[i] IN
    /\ pc = "evaluate" /\ lock = "free"
    /\ Query(i) # Unset /\ ~cancelled /\ pool[s] # "closed"
    /\ GetStorage(s)
    /\ compiled' = [compiled EXCEPT ![i] = Query(i)]
    /\ \E id \in Found(i) : SetRegisters(i, id) /\ hit' = [hit EXCEPT ![i] = id]
    /\ cl' = i
    /\ lock' = "loop"
    /\ pc' = IF i \in WithAction THEN "action" ELSE "next"
    /\ UNCHANGED <<log, err, verdict, cancelled, stop, ran, faults>>

\* (Slips: an action that fails returns no error; it returns with the lock held.)
EndActionWith(failure) ==
    /\ pc = "action"
    /\ \/ pc' = "next" /\ UNCHANGED <<lock, cl, regs, err, verdict, hit, faults>>
       \/ Fault /\ failure
    /\ UNCHANGED <<log, compiled, pool, cancelled, stop, ran>>

EndActionSilent == EndActionWith(/\ pc' = "exit" /\ lock' = "free"
                                 /\ UNCHANGED <<cl, regs, err, verdict, hit>>)
EndActionLocked == EndActionWith(Fail /\ UNCHANGED lock)

\* evaluate: the action of the sequence comes to its end.
EndAction ==
    /\ pc = "action"
    /\ \/ /\ pc' = "next"
          /\ UNCHANGED <<lock, cl, regs, err, verdict, hit, faults>>
       \/ Fault /\ Fail /\ lock' = "free"
    /\ UNCHANGED <<log, compiled, pool, cancelled, stop, ran>>

\* (A slip: the queries of all conditions to come are compiled.)
CompileAll ==
    /\ pc = "next" /\ lock' = "free" /\ ran' = cl
    /\ pc' = (IF cl = N THEN "exit" ELSE "select")
    /\ compiled' = [i \in 1..N |-> IF i > cl THEN Query(i) ELSE compiled[i]]
    /\ UNCHANGED <<cl, regs, err, verdict, hit, log, pool, cancelled, stop, faults>>

\* evaluate, last part: the query of the next condition is compiled.
CompileNext ==
    /\ pc = "next" /\ lock' = "free" /\ ran' = cl
    /\ IF cl = N
       THEN pc' = "exit" /\ UNCHANGED <<compiled, cl, regs, err, verdict, hit>>
       ELSE /\ compiled' = [compiled EXCEPT ![cl + 1] = Query(cl + 1)]
            /\ IF Query(cl + 1) = Unset
               THEN Fail
               ELSE pc' = "select" /\ UNCHANGED <<cl, regs, err, verdict, hit>>
    /\ UNCHANGED <<log, pool, cancelled, stop, faults>>

\* lw.exitChan <- stopError; nil as well when the context was cancelled.
Exit == /\ pc = "exit" /\ pc' = "done"
        /\ verdict' = IF err THEN "error" ELSE "ok"
        /\ UNCHANGED <<log, cl, regs, compiled, pool, lock, err, cancelled, stop,
                       hit, ran, faults>>
-----------------------------------------------------------------------------
(* Stop.                                                                   *)

StopCall == /\ stop = "no" /\ stop' = "called"
            /\ UNCHANGED <<log, pool, lock, pc, cancelled, faults>> /\ UNCHANGED loopVars

\* lw.Lock(), then the storages of the pool are closed.
StopLock == /\ stop = "called" /\ lock = "free"
            /\ stop' = "locked" /\ lock' = "stop"
            /\ pool' = [s \in Storages |-> IF pool[s] = "open" THEN "closed" ELSE pool[s]]
            /\ UNCHANGED <<log, pc, cancelled, faults>> /\ UNCHANGED loopVars

\* lw.ContextDaemon.Stop() with the lock held, unless the callback is over.
StopCancel == /\ stop = "locked"
              /\ cancelled' = (pc # "done")
              /\ \/ /\ TRUE \in StopJoins /\ pc # "done"
                    /\ stop' = "joining" /\ UNCHANGED lock
                 \/ /\ FALSE \in StopJoins \/ pc = "done"
                    /\ stop' = "returned" /\ lock' = "free"
              /\ UNCHANGED <<log, pool, pc, faults>> /\ UNCHANGED loopVars

StopJoin == /\ stop = "joining" /\ pc = "done"
            /\ stop' = "returned" /\ lock' = "free"
            /\ UNCHANGED <<log, pool, pc, cancelled, faults>> /\ UNCHANGED loopVars

Terminating == pc = "done" /\ stop = "returned" /\ UNCHANGED vars

Loop == Boot \/ Tick \/ CtxDone \/ Current \/ NoMatch \/ Match \/ EndAction
        \/ CompileNext \/ Exit
Stop == StopLock \/ StopCancel \/ StopJoin

Next == Loop \/ StopCall \/ Stop \/ Terminating
        \/ \E s \in Storages, n \in 1..MaxBatch : AddRecords(s, n)

Spec == Init /\ [][Next]_vars

\* The goroutine and Stop run when they can and actions come to an end.  A select
\* with both cases ready takes either, and a writer that waits for a Go RWMutex
\* gets it though the reader comes back: strong fairness.
Fairness == /\ WF_vars(Boot) /\ WF_vars(Tick) /\ WF_vars(Current)
            /\ WF_vars(NoMatch \/ Match) /\ WF_vars(EndAction)
            /\ WF_vars(CompileNext) /\ WF_vars(Exit)
            /\ SF_vars(CtxDone) /\ SF_vars(StopLock)
            /\ WF_vars(StopCancel) /\ WF_vars(StopJoin)

FairSpec == Spec /\ Fairness
-----------------------------------------------------------------------------
\* Every variable has its type.
TypeOK ==
    /\ log \in [Storages -> Seq(Kinds)]
    /\ cl \in 0..N /\ ran \in 0..N
    /\ regs \in [Registers -> Nat \cup {Unset}]
    /\ compiled \in [1..N -> Nat \cup {Unset}]
    /\ pool \in [Storages -> {"none", "open", "closed"}]
    /\ lock \in {"free", "loop", "stop"}
    /\ pc \in PCs /\ err \in BOOLEAN /\ verdict \in {"none", "ok", "error"}
    /\ cancelled \in BOOLEAN /\ stop \in Stops
    /\ hit \in [1..N -> Nat] /\ faults \in 0..MaxFaults
-----------------------------------------------------------------------------
\* A query is compiled once and cached for good (condition.go:81), but the one
\* the goroutine asks with always agrees with the registers as they are now.
FreshQuery ==
    cl < N /\ compiled[cl + 1] # Unset =>
        compiled[cl + 1] = IF AfterReg[cl + 1] = Nothing THEN 0
                           ELSE regs[AfterReg[cl + 1]]

\* Sequence j is the last before i to have set the register that i names.
SetsFor(j, i) ==
    LET Setters == {k \in 1..(i - 1) : AfterReg[i] \in {LastMatch, ToReg[k]} \ {Nothing}}
    IN j \in Setters /\ \A k \in Setters : k <= j

\* A condition that names a register matches a record later than the one the
\* last sequence to set that register matched.
MatchesAfterRegister ==
    \A i \in 1..cl : \A j \in 1..(i - 1) : SetsFor(j, i) => hit[i] > hit[j]

\* A writer at a time: Stop never closes the pool under a running evaluation.
LockProtectsEvaluation ==
    /\ pc \in {"action", "next"} <=> lock = "loop"
    /\ stop \in {"locked", "joining"} <=> lock = "stop"

\* Once the context is cancelled nothing is matched, kept or run any more.
NothingAfterCancel == [][cancelled => UNCHANGED <<cl, regs, ran, hit>>]_vars

Outcome == CASE verdict = "none"                -> "running"
             [] verdict = "ok" /\ ~cancelled    -> "ok"
             [] verdict = "ok" /\ cancelled     -> "stopped"
             [] verdict = "error"               -> "error"

Promise == INSTANCE Scenario WITH matched <- cl, outcome <- Outcome

\* The watcher keeps what Scenario promises; a nil on exitChan that is not
\* because of Stop means that the whole scenario went through.
ImplementsScenario == Promise!Spec

\* A record that matches the current condition moves the scenario on.
MatchAdvances ==
    \A i \in 1..N : (cl = i - 1 /\ Query(i) # Unset /\ Found(i) # {})
                        ~> (cl >= i \/ stop # "no" \/ pc \in {"exit", "done"})

\* A called Stop returns and the goroutine ends.  The only way it does not is when
\* ContextDaemon.Stop waits, with the lock held, for the goroutine that has come to
\* Current or to evaluate and waits for the lock (log_watcher.go:103).
StopReturns == stop = "called" ~> \/ stop = "returned" /\ pc = "done"
                                  \/ stop = "joining" /\ pc \in {"boot", "current", "evaluate"}
=============================================================================
