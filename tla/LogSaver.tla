------------------------------ MODULE LogSaver ------------------------------
(***************************************************************************)
(* host.LogSaver (src/host/log_saver.go): one goroutine takes log entries  *)
(* from a buffered channel, appends each to a log file at once, collects   *)
(* them in a batch, and on a ticker inserts the batch into mongodb, syncs  *)
(* the files and reports the first stderr line of a node.                  *)
(*                                                                         *)
(* An element of Entries is one occurrence of a line: a line that is read  *)
(* twice is two entries, so an entry is sent at most once.  A fault is a   *)
(* failed write, sync or insert; MaxFaults bounds them.                    *)
(***************************************************************************)
EXTENDS Integers, FiniteSets, SequencesExt

CONSTANTS Entries,      (* log entries                                        *)
          Names,        (* aliases of the log files: the nodes and "contest"  *)
          Contest,      (* ContestLogName, the alias of the tool's own lines  *)
          NameOf,       (* the alias of an entry                              *)
          Errors,       (* the entries whose IsError() is true                *)
          Malformed,    (* entries that BSON marshalling rejects              *)
          Capacity,     (* of entryChan; 100 in the code                      *)
          ExitOnError,  (* the flag exit-on-error                             *)
          MaxFaults     (* bound on failed writes, syncs and inserts          *)

ASSUME ConstantsAssumption ==
    /\ Contest \in Names
    /\ NameOf \in [Entries -> Names]
    /\ Errors \subseteq Entries
    /\ Malformed \subseteq Entries
    /\ Capacity \in Nat \ {0}
    /\ ExitOnError \in BOOLEAN
    /\ MaxFaults \in Nat

\* Only the lines of nodes are NodeLogEntry values.
NodeErrors == {e \in Errors : NameOf[e] # Contest}

\* A line goes to the stdout or to the stderr file of its alias.
StreamOf(e) == <<NameOf[e], e \in Errors>>

VARIABLES sent,         (* entries some sender has put on the channel         *)
          entryChan,    (* the channel                                        *)
          entries,      (* local of start: the batch not yet saved            *)
          updated,      (* local of start: aliases with entries in the batch  *)
          written,      (* history: entries written to files, in order        *)
          dropped,      (* history: entries whose write failed                *)
          unsynced,     (* written entries not known to be on disk            *)
          db,           (* the collection, in order of _id                    *)
          reports,      (* entries handed to exitChan as NodeStderrError      *)
          pc,           (* where the goroutine is                             *)
          stop,         (* progress of Stop()                                 *)
          faults

vars == <<sent, entryChan, entries, updated, written, dropped, unsynced, db,
          reports, pc, stop, faults>>

PCs == {"select", "sync", "final", "finalsync", "done", "failed"}
Stops == {"no", "cancelled", "closed", "failed"}

Fault == faults < MaxFaults /\ faults' = faults + 1

Init == /\ sent = {} /\ entryChan = <<>>
        /\ entries = <<>> /\ updated = {}
        /\ written = <<>> /\ dropped = {} /\ unsynced = {}
        /\ db = <<>> /\ reports = {}
        /\ pc = "select" /\ stop = "no" /\ faults = 0
-----------------------------------------------------------------------------
(* The senders: tails of container logs, actions and the log watcher.      *)

Send(e) == /\ e \notin sent
           /\ Len(entryChan) < Capacity
           /\ sent' = sent \cup {e}
           /\ entryChan' = Append(entryChan, e)
           /\ UNCHANGED <<entries, updated, written, dropped, unsynced, db,
                          reports, pc, stop, faults>>
-----------------------------------------------------------------------------
(* The goroutine.                                                          *)

\* (A slip: telling of an error line as it comes.)
TakeEntry ==
    /\ pc = "select" /\ entryChan # <<>>
    /\ entryChan' = Tail(entryChan)
    /\ written' = Append(written, Head(entryChan))
    /\ unsynced' = unsynced \cup {Head(entryChan)}
    /\ updated' = updated \cup {NameOf[Head(entryChan)]}
    /\ entries' = Append(entries, Head(entryChan))
    /\ UNCHANGED <<sent, dropped, db, pc, stop, faults>>

ReceiveReports == /\ TakeEntry
                  /\ reports' = reports \cup ({Head(entryChan)} \cap NodeErrors)

\* case entry := <-ls.entryChan.  An entry whose write fails is forgotten.
Receive ==
    /\ pc = "select" /\ entryChan # <<>>
    /\ entryChan' = Tail(entryChan)
    /\ LET e == Head(entryChan) IN
       \/ /\ written' = Append(written, e)
          /\ unsynced' = unsynced \cup {e}
          /\ updated' = updated \cup {NameOf[e]}
          /\ entries' = Append(entries, e)
          /\ UNCHANGED <<dropped, faults>>
       \/ /\ Fault
          /\ dropped' = dropped \cup {e}
          /\ UNCHANGED <<written, unsynced, updated, entries>>
    /\ UNCHANGED <<sent, db, reports, pc, stop>>

\* (Slips: forgetting a batch that fails; taking back a write that fails, by the
\* names of the nodes; an unordered bulk write; leaving out the documents that
\* cannot be marshalled.)
AddLogEntriesForget(succ, fail) ==
    /\ \/ db' = db \o entries /\ pc' = succ /\ UNCHANGED <<entries, updated, faults>>
       \/ Fault /\ db' = db /\ pc' = fail /\ entries' = <<>> /\ updated' = {}
    /\ UNCHANGED <<sent, entryChan, written, dropped, unsynced, reports, stop>>

AddLogEntriesUndo(succ, fail) ==
    /\ \/ db' = db \o entries /\ pc' = succ /\ UNCHANGED faults
       \/ /\ Fault /\ pc' = fail
          /\ db' = SelectSeq(db, LAMBDA e : NameOf[e] \notin updated)
    /\ UNCHANGED <<sent, entryChan, entries, updated, written, dropped,
                   unsynced, reports, stop>>

AddLogEntriesUnordered(succ, fail) ==
    /\ \/ db' = db \o entries /\ pc' = succ /\ UNCHANGED faults
       \/ /\ Fault /\ pc' = fail
          /\ \E n \in 1..(Len(entries) + 1) : db' = db \o SubSeq(entries, n, Len(entries))
    /\ UNCHANGED <<sent, entryChan, entries, updated, written, dropped,
                   unsynced, reports, stop>>

AddLogEntriesSkip(succ, fail) ==
    /\ db' = db \o SelectSeq(entries, LAMBDA e : e \notin Malformed) /\ pc' = succ
    /\ UNCHANGED <<sent, entryChan, entries, updated, written, dropped,
                   unsynced, reports, stop, faults>>

\* An ordered bulk write of the batch: all of it or, by a fault, a prefix.
\* A document that cannot be marshalled fails the whole call beforehand.
AddLogEntries(succ, fail) ==
    /\ \/ /\ ToSet(entries) \cap Malformed = {}
          /\ \/ db' = db \o entries /\ pc' = succ /\ UNCHANGED faults
             \/ /\ Fault
                /\ \E n \in 0..Len(entries) : db' = db \o SubSeq(entries, 1, n)
                /\ pc' = fail
       \/ /\ ToSet(entries) \cap Malformed # {}
          /\ pc' = fail
          /\ UNCHANGED <<db, faults>>
    /\ UNCHANGED <<sent, entryChan, entries, updated, written, dropped,
                   unsynced, reports, stop>>

\* (A slip: waiting for a batch of two.)
TickWhenFull == pc = "select" /\ Len(entries) > 1 /\ AddLogEntries("sync", "select")

\* case <-ticker.C, up to the insert; a batch that fails is kept.
Tick == pc = "select" /\ entries # <<>> /\ AddLogEntries("sync", "select")

\* (A slip: looking at the first line only.)
HeadNodeError(s) == {s[i] : i \in {j \in {1} : s[j] \in NodeErrors}}

\* The first stderr line of a node in the batch, if there is one.
FirstNodeError(s) ==
    {s[i] : i \in {j \in 1..Len(s) : /\ s[j] \in NodeErrors
                                     /\ \A k \in 1..(j - 1) : s[k] \notin NodeErrors}}

SyncsSucceed == /\ unsynced' = {e \in unsynced : NameOf[e] \notin updated}
                /\ reports' = IF ExitOnError
                              THEN reports \cup FirstNodeError(entries)
                              ELSE reports

\* Some of the streams of the updated aliases are synced before one fails.
SyncsFail == /\ Fault
             /\ \E S \in SUBSET (updated \X BOOLEAN) :
                    unsynced' = {e \in unsynced : StreamOf(e) \notin S}
             /\ UNCHANGED reports

\* (Slips: after a failed sync the names are forgotten; after a good one the batch is
\* kept.)
SyncThen(good, bad) ==
    /\ pc = "sync" /\ pc' = "select"
    /\ \/ SyncsSucceed /\ good /\ UNCHANGED faults
       \/ SyncsFail /\ bad
    /\ UNCHANGED <<sent, entryChan, written, dropped, db, stop>>

Forget == entries' = <<>> /\ updated' = {}
SyncForgetsNames == SyncThen(Forget, updated' = {} /\ UNCHANGED entries)
SyncKeepsBatch   == SyncThen(UNCHANGED <<entries, updated>>, UNCHANGED <<entries, updated>>)

\* case <-ticker.C, from ls.syncs on: on success the batch is forgotten.
Sync ==
    /\ pc = "sync" /\ pc' = "select"
    /\ \/ /\ SyncsSucceed
          /\ entries' = <<>> /\ updated' = {}
          /\ UNCHANGED faults
       \/ /\ SyncsFail
          /\ UNCHANGED <<entries, updated>>
    /\ UNCHANGED <<sent, entryChan, written, dropped, db, stop>>

\* case <-ctx.Done(): leave the loop, whatever is still in the channel.
CtxDone == /\ pc = "select" /\ stop # "no"
           /\ pc' = "final"
           /\ UNCHANGED <<sent, entryChan, entries, updated, written, dropped,
                          unsynced, db, reports, stop, faults>>

\* (A slip: no way out of the final save with nothing to save.)
FinalSaveSome == pc = "final" /\ entries # <<>> /\ AddLogEntries("finalsync", "failed")

\* return ls.saveEntries(entries, updated, 1)
FinalSave ==
    /\ pc = "final"
    /\ \/ entries # <<>> /\ AddLogEntries("finalsync", "failed")
       \/ /\ entries = <<>> /\ pc' = "done"
          /\ UNCHANGED <<sent, entryChan, entries, updated, written, dropped,
                         unsynced, db, reports, stop, faults>>

FinalSync ==
    /\ pc = "finalsync"
    /\ \/ SyncsSucceed /\ pc' = "done" /\ UNCHANGED faults
       \/ SyncsFail /\ pc' = "failed"
    /\ UNCHANGED <<sent, entryChan, entries, updated, written, dropped, db, stop>>
-----------------------------------------------------------------------------
(* Stop(): cancel the goroutine and wait for it, then close the files.     *)

StopCancel == /\ stop = "no" /\ stop' = "cancelled"
              /\ UNCHANGED <<sent, entryChan, entries, updated, written, dropped,
                             unsynced, db, reports, pc, faults>>

\* (A slip: the files are closed without waiting for the goroutine.)
StopCloseEarly == /\ stop = "cancelled" /\ stop' = "closed"
                  /\ UNCHANGED <<sent, entryChan, entries, updated, written, dropped,
                                 unsynced, db, reports, pc, faults>>

StopClose == /\ stop = "cancelled" /\ pc \in {"done", "failed"}
             /\ \/ stop' = "closed" /\ UNCHANGED faults
                \/ stop' = "failed" /\ Fault
             /\ UNCHANGED <<sent, entryChan, entries, updated, written, dropped,
                            unsynced, db, reports, pc>>

Terminating == stop \in {"closed", "failed"} /\ UNCHANGED vars

Next == \/ \E e \in Entries : Send(e)
        \/ Receive \/ Tick \/ Sync \/ CtxDone \/ FinalSave \/ FinalSync
        \/ StopCancel \/ StopClose \/ Terminating

Spec == Init /\ [][Next]_vars

\* The goroutine runs when it can and so does Stop.  Go's select takes a ready
\* case at random, so a case that is ready again and again is taken: SF.
Fairness == /\ WF_vars(Sync) /\ WF_vars(FinalSave) /\ WF_vars(FinalSync)
            /\ SF_vars(Receive) /\ SF_vars(Tick) /\ SF_vars(CtxDone)
            /\ WF_vars(StopClose)

FairSpec == Spec /\ Fairness
-----------------------------------------------------------------------------
\* Every variable has its type.
TypeOK ==
    /\ sent \subseteq Entries
    /\ entryChan \in Seq(Entries) /\ Len(entryChan) <= Capacity
    /\ entries \in Seq(Entries)
    /\ updated \subseteq Names
    /\ written \in Seq(Entries)
    /\ dropped \subseteq Entries
    /\ unsynced \subseteq Entries
    /\ db \in Seq(Entries)
    /\ reports \subseteq Entries
    /\ pc \in PCs /\ stop \in Stops
    /\ faults \in 0..MaxFaults

-----------------------------------------------------------------------------
(* Safety.                                                                  *)

\* An entry that reached its log file is in the database, or still in the batch
\* the next tick (or the final flush) saves: no failure of an insert or of a sync
\* makes the saver forget it.
NothingLost == ToSet(written) \subseteq ToSet(db) \cup ToSet(entries)

FirstWritten(k) == {written[i] : i \in 1..k}

\* The entries to be found in the database are an initial segment of the
\* written ones: the log watcher never finds an event whose predecessors in the
\* log files cannot be found, whatever partial inserts and retries came before.
StoredInArrivalOrder == \E k \in 0..Len(written) : ToSet(db) = FirstWritten(k)

\* An entry leaves the batch only when it is stored and its file is synced.
SavedIsSynced == unsynced \subseteq ToSet(entries)

Copies(e) == Cardinality({i \in 1..Len(db) : db[i] = e})

\* A retry inserts the entries of a batch again (AddLogEntries has no
\* identity for an entry), but only once for each failure.
DuplicatesOnlyByFaults == \A e \in Entries : Copies(e) <= 1 + faults

EarliestError(i) == /\ written[i] \in NodeErrors
                    /\ \A j \in 1..(i - 1) : written[j] \notin NodeErrors

\* With exit-on-error no error line leaves the batch before the run has been
\* told of it or of an earlier one: isLogEntriesStderr stops at the first of a
\* batch, so a later one of the batch may stay unreported.
EarliestErrorReported ==
    ExitOnError => \A i \in 1..Len(written) :
                      EarliestError(i) => written[i] \in reports \cup ToSet(entries)

\* Once Stop has closed the files, everything that was written is stored and on
\* disk, unless the final flush, of which Stop ignores the error, failed.
FlushedAtStop ==
    stop = "closed" /\ pc # "failed" =>
        /\ ToSet(written) \subseteq ToSet(db)
        /\ unsynced = {}

\* The inductive invariant.  The batch is the end of the written entries; the
\* stored ones reach at least up to the batch and, once the insert is over, up to
\* its end; the batch covers what a sync has still to do, and `updated` names it;
\* an error line outside the batch has been reported if none came before it.
Saved == Len(written) - Len(entries)

BatchIsSuffix == /\ Saved \in Nat
                 /\ \A i \in 1..Len(entries) : entries[i] = written[Saved + i]

StoredUpToBatch == \E k \in Saved..Len(written) : ToSet(db) = FirstWritten(k)

AllStoredAfterInsert ==
    pc \in {"sync", "finalsync", "done"} => ToSet(db) = FirstWritten(Len(written))

BatchIsUpdated == \A e \in ToSet(entries) : NameOf[e] \in updated

EarliestSavedErrorReported ==
    ExitOnError => \A i \in 1..Saved : EarliestError(i) => written[i] \in reports

SaverInv == /\ TypeOK
            /\ BatchIsSuffix /\ StoredUpToBatch /\ AllStoredAfterInsert
            /\ BatchIsUpdated /\ SavedIsSynced
            /\ EarliestSavedErrorReported
            /\ reports \subseteq ToSet(db)
            /\ pc = "done" => unsynced = {}
            /\ stop = "closed" => pc \in {"done", "failed"}

\* A malformed line is never stored, and neither is any entry written after it:
\* the batch that holds it fails at every tick.
NothingStoredAfterMalformed ==
    \A i \in 1..Len(written) : written[i] \in Malformed =>
        \A j \in i..Len(written) : written[j] \notin ToSet(db)

\* The rest of the inductive invariant: an entry is sent, and so written, once.  There
\* is a copy in the database for each failure so far, and one more of an entry that
\* will not be inserted again before another failure.
SentOnce ==
    /\ IsInjective(written) /\ IsInjective(entryChan)
    /\ ToSet(written) \cap ToSet(entryChan) = {}
    /\ ToSet(written) \cup ToSet(entryChan) \subseteq sent

ToBeInserted == IF pc \in {"select", "final", "failed"} THEN ToSet(entries) ELSE {}

CopiesCounted == \A e \in Entries : Copies(e) <= faults + (IF e \in ToBeInserted THEN 0 ELSE 1)

CopiesInv == SentOnce /\ CopiesCounted /\ NothingStoredAfterMalformed

\* However often a batch is inserted again, each copy of an entry in the collection has
\* all that was written before the entry at smaller _ids.
PredecessorsFirst ==
    \A p \in 1..Len(db) : \A k \in 1..Len(written) : db[p] = written[k] =>
        \A j \in 1..k : \E q \in 1..p : db[q] = written[j]

\* An entry on the channel ends up in the database, unless its write failed or the
\* saver was stopped first, or a malformed line has come before it.
StoredEventually ==
    \A e \in Entries :
        e \in sent ~> \/ e \in ToSet(db) \cup dropped
                      \/ pc \in {"done", "failed"}
                      \/ ToSet(entries) \cap Malformed # {}

\* Stop returns.
StopTerminates == stop = "cancelled" ~> stop \in {"closed", "failed"}

Promise == INSTANCE LogStore WITH log <- written, stored <- ToSet(db),
                                  reported <- reports

\* The saver keeps what LogStore promises: written entries are accepted, inserts
\* make the stored initial segment longer or leave it, and a NodeStderrError is
\* handed to exitChan only for a line that is in the database.
ImplementsLogStore == Promise!Spec
=============================================================================
