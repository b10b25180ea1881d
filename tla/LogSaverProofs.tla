--------------------------- MODULE LogSaverProofs ---------------------------
(* Theorems about LogSaver, for every set of entries, channel capacity and   *)
(* number of faults.                                                         *)
EXTENDS LogSaver, FiniteSetTheorems, TLAPS
-----------------------------------------------------------------------------
(* Sequences: the set of the elements, and repetitions.                      *)

\* Appending an element adds it to the set of elements and moves no other.
LEMMA ToSetAppend ==
  ASSUME NEW S, NEW s \in Seq(S), NEW e \in S
  PROVE  /\ Append(s, e) \in Seq(S)
         /\ Len(Append(s, e)) = Len(s) + 1
         /\ \A i \in 1..Len(s) : Append(s, e)[i] = s[i]
         /\ Append(s, e)[Len(s) + 1] = e
         /\ ToSet(Append(s, e)) = ToSet(s) \cup {e}
<1>1. /\ Append(s, e) \in Seq(S)
      /\ Len(Append(s, e)) = Len(s) + 1
      /\ \A i \in 1..Len(s) : Append(s, e)[i] = s[i]
      /\ Append(s, e)[Len(s) + 1] = e
      /\ DOMAIN s = 1..Len(s)
      /\ DOMAIN Append(s, e) = 1..(Len(s) + 1)
      /\ Len(s) \in Nat
  OBVIOUS
<1>2. ToSet(Append(s, e)) = ToSet(s) \cup {e}
  <2>1. ASSUME NEW x \in ToSet(Append(s, e)) PROVE x \in ToSet(s) \cup {e}
    BY <1>1 DEF ToSet
  <2>2. ASSUME NEW x \in ToSet(s) \cup {e} PROVE x \in ToSet(Append(s, e))
    <3>1. CASE x = e
      BY <3>1, <1>1 DEF ToSet
    <3>2. CASE x \in ToSet(s)
      <4>1. PICK i \in 1..Len(s) : x = s[i]
        BY <3>2, <1>1 DEF ToSet
      <4>2. i \in 1..(Len(s) + 1) /\ Append(s, e)[i] = x
        BY <4>1, <1>1
      <4>3. QED BY <4>2, <1>1 DEF ToSet
    <3>3. QED BY <2>2, <3>1, <3>2
  <2>3. QED BY <2>1, <2>2
<1>3. QED BY <1>1, <1>2

\* The elements of a nonempty sequence are its head and those of its tail.
LEMMA ToSetTail ==
  ASSUME NEW S, NEW s \in Seq(S), s # <<>>
  PROVE  /\ Head(s) \in S
         /\ Tail(s) \in Seq(S)
         /\ Len(Tail(s)) = Len(s) - 1
         /\ ToSet(s) = {Head(s)} \cup ToSet(Tail(s))
<1>1. /\ Head(s) \in S /\ Head(s) = s[1]
      /\ Tail(s) \in Seq(S)
      /\ Len(Tail(s)) = Len(s) - 1
      /\ \A i \in 1..(Len(s) - 1) : Tail(s)[i] = s[i + 1]
      /\ DOMAIN s = 1..Len(s)
      /\ DOMAIN Tail(s) = 1..(Len(s) - 1)
      /\ Len(s) \in Nat \ {0}
  OBVIOUS
<1>2. ASSUME NEW x \in ToSet(s) PROVE x \in {Head(s)} \cup ToSet(Tail(s))
  <2>1. PICK i \in 1..Len(s) : x = s[i]
    BY <1>1 DEF ToSet
  <2>2. CASE i = 1
    BY <2>1, <2>2, <1>1
  <2>3. CASE i # 1
    <3>1. i - 1 \in 1..(Len(s) - 1) /\ Tail(s)[i - 1] = x
      BY <2>1, <2>3, <1>1
    <3>2. QED BY <3>1, <1>1 DEF ToSet
  <2>4. QED BY <2>2, <2>3
<1>3. ASSUME NEW x \in {Head(s)} \cup ToSet(Tail(s)) PROVE x \in ToSet(s)
  <2>1. CASE x = Head(s)
    BY <2>1, <1>1 DEF ToSet
  <2>2. CASE x \in ToSet(Tail(s))
    <3>1. PICK i \in 1..(Len(s) - 1) : x = Tail(s)[i]
      BY <2>2, <1>1 DEF ToSet
    <3>2. i + 1 \in 1..Len(s) /\ s[i + 1] = x
      BY <3>1, <1>1
    <3>3. QED BY <3>2, <1>1 DEF ToSet
  <2>3. QED BY <1>3, <2>1, <2>2
<1>4. QED BY <1>1, <1>2, <1>3

\* Concatenating a prefix of t adds the elements of that prefix.
LEMMA ToSetConcatPrefix ==
  ASSUME NEW S, NEW s \in Seq(S), NEW t \in Seq(S), NEW n \in 0..Len(t)
  PROVE  /\ s \o SubSeq(t, 1, n) \in Seq(S)
         /\ ToSet(s \o SubSeq(t, 1, n)) = ToSet(s) \cup {t[i] : i \in 1..n}
<1> DEFINE u == SubSeq(t, 1, n)
<1>1. /\ u \in Seq(S) /\ Len(u) = n
      /\ \A i \in 1..n : u[i] = t[i]
  OBVIOUS
<1>2. /\ s \o u \in Seq(S)
      /\ Len(s \o u) = Len(s) + n
      /\ \A i \in 1..Len(s) : (s \o u)[i] = s[i]
      /\ \A i \in 1..n : (s \o u)[Len(s) + i] = u[i]
      /\ DOMAIN s = 1..Len(s)
      /\ DOMAIN (s \o u) = 1..(Len(s) + n)
      /\ Len(s) \in Nat
  BY <1>1
<1> HIDE DEF u
<1>3. ASSUME NEW x \in ToSet(s \o u) PROVE x \in ToSet(s) \cup {t[i] : i \in 1..n}
  <2>1. PICK i \in 1..(Len(s) + n) : x = (s \o u)[i]
    BY <1>2 DEF ToSet
  <2>2. CASE i \in 1..Len(s)
    BY <2>1, <2>2, <1>2 DEF ToSet
  <2>3. CASE i \notin 1..Len(s)
    <3>1. i - Len(s) \in 1..n /\ i = Len(s) + (i - Len(s))
      BY <2>1, <2>3, <1>2
    <3>2. x = t[i - Len(s)]
      BY <2>1, <3>1, <1>1, <1>2
    <3>3. QED BY <3>1, <3>2
  <2>4. QED BY <2>2, <2>3
<1>4. ASSUME NEW x \in ToSet(s) \cup {t[i] : i \in 1..n} PROVE x \in ToSet(s \o u)
  <2>1. CASE x \in ToSet(s)
    <3>1. PICK i \in 1..Len(s) : x = s[i]
      BY <2>1, <1>2 DEF ToSet
    <3>2. i \in 1..(Len(s) + n) /\ (s \o u)[i] = x
      BY <3>1, <1>2
    <3>3. QED BY <3>2, <1>2 DEF ToSet
  <2>2. CASE x \in {t[i] : i \in 1..n}
    <3>1. PICK i \in 1..n : x = t[i]
      BY <2>2
    <3>2. Len(s) + i \in 1..(Len(s) + n) /\ (s \o u)[Len(s) + i] = x
      BY <3>1, <1>1, <1>2
    <3>3. QED BY <3>2, <1>2 DEF ToSet
  <2>3. QED BY <1>4, <2>1, <2>2
<1>5. QED BY <1>2, <1>3, <1>4 DEF u

\* A sequence without repetitions keeps none when a new element is appended, ...
LEMMA InjectiveAppend ==
  ASSUME NEW S, NEW s \in Seq(S), NEW e \in S, IsInjective(s), e \notin ToSet(s)
  PROVE  IsInjective(Append(s, e))
<1>1. /\ Len(Append(s, e)) = Len(s) + 1 /\ Len(s) \in Nat
      /\ \A i \in 1..Len(s) : Append(s, e)[i] = s[i] /\ s[i] # e
      /\ Append(s, e)[Len(s) + 1] = e
      /\ DOMAIN Append(s, e) = 1..(Len(s) + 1)
  BY DEF ToSet
<1>2. \A i, j \in 1..Len(s) : s[i] = s[j] => i = j
  BY DEF IsInjective
<1> SUFFICES ASSUME NEW i \in 1..(Len(s) + 1), NEW j \in 1..(Len(s) + 1),
                    Append(s, e)[i] = Append(s, e)[j]
             PROVE  i = j
  BY <1>1 DEF IsInjective
<1>3. CASE i = Len(s) + 1 /\ j # Len(s) + 1
  BY <1>1, <1>3
<1>4. CASE j = Len(s) + 1 /\ i # Len(s) + 1
  BY <1>1, <1>4
<1>5. CASE i \in 1..Len(s) /\ j \in 1..Len(s)
  BY <1>1, <1>2, <1>5
<1>6. QED BY <1>1, <1>3, <1>4, <1>5

\* ... and its head is not in its tail.
LEMMA InjectiveTail ==
  ASSUME NEW S, NEW s \in Seq(S), s # <<>>, IsInjective(s)
  PROVE  IsInjective(Tail(s)) /\ Head(s) \notin ToSet(Tail(s))
<1>1. /\ Tail(s) \in Seq(S) /\ Len(s) \in Nat \ {0} /\ Head(s) = s[1]
      /\ DOMAIN Tail(s) = 1..(Len(s) - 1)
      /\ \A i \in 1..(Len(s) - 1) : Tail(s)[i] = s[i + 1]
  OBVIOUS
<1>2. \A i, j \in 1..Len(s) : s[i] = s[j] => i = j
  BY DEF IsInjective
<1>3. ASSUME NEW i \in 1..(Len(s) - 1), NEW j \in 1..(Len(s) - 1), Tail(s)[i] = Tail(s)[j]
      PROVE  i = j
  <2>1. i + 1 \in 1..Len(s) /\ j + 1 \in 1..Len(s) /\ s[i + 1] = s[j + 1]
    BY <1>1, <1>3
  <2>2. i + 1 = j + 1
    BY <1>2, <2>1
  <2>3. QED BY <2>2
<1>4. ASSUME NEW i \in 1..(Len(s) - 1) PROVE Tail(s)[i] # Head(s)
  <2>1. i + 1 \in 1..Len(s) /\ 1 \in 1..Len(s) /\ i + 1 # 1
    BY <1>1
  <2>2. s[i + 1] # s[1]
    BY <1>2, <2>1
  <2>3. QED BY <1>1, <2>2
<1>5. IsInjective(Tail(s))
  BY <1>1, <1>3 DEF IsInjective
<1>6. QED BY <1>1, <1>4, <1>5 DEF ToSet
-----------------------------------------------------------------------------
(* The saver.                                                                *)

\* The inductive invariant survives each action that changes the batch, the
\* database or the files; all the other actions leave its variables alone.

\* What an insert does to the database, whatever its outcome.
LEMMA InsertedPrefix ==
  ASSUME SaverInv, NEW n \in 0..Len(entries)
  PROVE  /\ db \o SubSeq(entries, 1, n) \in Seq(Entries)
         /\ \E k \in Saved..Len(written) :
               /\ ToSet(db \o SubSeq(entries, 1, n)) = FirstWritten(k)
               /\ n = Len(entries) => k = Len(written)
         /\ ToSet(db) \subseteq ToSet(db \o SubSeq(entries, 1, n))
<1>1. /\ db \in Seq(Entries) /\ entries \in Seq(Entries) /\ written \in Seq(Entries)
      /\ Len(entries) \in Nat /\ Len(written) \in Nat
      /\ Saved \in Nat
      /\ Saved + Len(entries) = Len(written)
  BY DEF SaverInv, TypeOK, BatchIsSuffix, Saved
<1>2. /\ db \o SubSeq(entries, 1, n) \in Seq(Entries)
      /\ ToSet(db \o SubSeq(entries, 1, n)) = ToSet(db) \cup {entries[i] : i \in 1..n}
  BY <1>1, ToSetConcatPrefix
<1>3. PICK k \in Saved..Len(written) : ToSet(db) = FirstWritten(k)
  BY DEF SaverInv, StoredUpToBatch
<1>4. PICK m \in Saved..Len(written) :
         /\ m >= k /\ m >= Saved + n /\ (m = k \/ m = Saved + n)
         /\ n = Len(entries) => m = Len(written)
  <2>1. CASE k >= Saved + n
    BY <1>1, <1>3, <2>1
  <2>2. CASE ~(k >= Saved + n)
    <3>1. Saved + n \in Saved..Len(written)
      BY <1>1
    <3>2. QED BY <1>1, <1>3, <2>2, <3>1
  <2>3. QED BY <2>1, <2>2
<1>5. {entries[i] : i \in 1..n} = {written[Saved + i] : i \in 1..n}
  <2>1. \A i \in 1..n : entries[i] = written[Saved + i]
    BY <1>1 DEF SaverInv, BatchIsSuffix
  <2>2. QED BY <2>1
<1>6. FirstWritten(k) \cup {written[Saved + i] : i \in 1..n} = FirstWritten(m)
  <2>1. ASSUME NEW x \in FirstWritten(m)
        PROVE  x \in FirstWritten(k) \cup {written[Saved + i] : i \in 1..n}
    <3>1. PICK j \in 1..m : x = written[j]
      BY DEF FirstWritten
    <3>2. CASE j <= k
      BY <3>1, <3>2, <1>3, <1>1 DEF FirstWritten
    <3>3. CASE ~(j <= k)
      <4>1. j - Saved \in 1..n /\ Saved + (j - Saved) = j
        BY <3>1, <3>3, <1>1, <1>3, <1>4
      <4>2. QED BY <3>1, <4>1
    <3>4. QED BY <3>2, <3>3
  <2>2. ASSUME NEW x \in FirstWritten(k) PROVE x \in FirstWritten(m)
    BY <1>1, <1>3, <1>4 DEF FirstWritten
  <2>3. ASSUME NEW x \in {written[Saved + i] : i \in 1..n} PROVE x \in FirstWritten(m)
    BY <1>1, <1>4 DEF FirstWritten
  <2>4. QED BY <2>1, <2>2, <2>3
<1>7. QED BY <1>2, <1>3, <1>4, <1>5, <1>6

\* The same for the insert that succeeds.
LEMMA InsertedAll ==
  ASSUME SaverInv
  PROVE  /\ db \o entries \in Seq(Entries)
         /\ ToSet(db \o entries) = FirstWritten(Len(written))
         /\ ToSet(db) \subseteq ToSet(db \o entries)
<1>1. entries \in Seq(Entries) /\ Len(entries) \in 0..Len(entries)
  BY DEF SaverInv, TypeOK
<1>2. SubSeq(entries, 1, Len(entries)) = entries
  BY <1>1
<1>3. QED BY <1>1, <1>2, InsertedPrefix

\* The types are kept: what the proofs below need of each variable.
THEOREM TypeCorrect == Spec => []TypeOK
<1>1. Init => TypeOK
  BY ConstantsAssumption DEF Init, TypeOK, PCs, Stops
<1>2. ASSUME TypeOK, [Next]_vars PROVE TypeOK'
  <2> USE ConstantsAssumption DEF TypeOK, PCs, Stops
  <2>1. ASSUME NEW e \in Entries, Send(e) PROVE TypeOK'
    BY <1>2, <2>1, ToSetAppend DEF Send
  <2>2. CASE Receive
    <3>1. /\ Head(entryChan) \in Entries
          /\ Tail(entryChan) \in Seq(Entries)
          /\ Len(Tail(entryChan)) = Len(entryChan) - 1
      BY <1>2, <2>2, ToSetTail DEF Receive
    <3>2. NameOf[Head(entryChan)] \in Names
      BY <3>1
    <3>3. /\ Append(written, Head(entryChan)) \in Seq(Entries)
          /\ Append(entries, Head(entryChan)) \in Seq(Entries)
      BY <1>2, <3>1
    <3>4. Len(entryChan) \in Nat
      BY <1>2
    <3>5. CASE Fault /\ dropped' = dropped \cup {Head(entryChan)}
                     /\ UNCHANGED <<written, unsynced, updated, entries>>
      BY <1>2, <2>2, <3>1, <3>4, <3>5 DEF Receive, Fault
    <3>6. CASE /\ written' = Append(written, Head(entryChan))
               /\ unsynced' = unsynced \cup {Head(entryChan)}
               /\ updated' = updated \cup {NameOf[Head(entryChan)]}
               /\ entries' = Append(entries, Head(entryChan))
               /\ UNCHANGED <<dropped, faults>>
      BY <1>2, <2>2, <3>1, <3>2, <3>3, <3>4, <3>6 DEF Receive
    <3>7. QED BY <2>2, <3>5, <3>6 DEF Receive
  <2>3. ASSUME NEW s \in PCs, NEW f \in PCs, AddLogEntries(s, f), pc' \in PCs
        PROVE TypeOK'
    <3>1. db' \in Seq(Entries)
      <4>1. CASE db' = db \o entries
        BY <1>2, <4>1
      <4>2. CASE \E n \in 0..Len(entries) : db' = db \o SubSeq(entries, 1, n)
        BY <1>2, <4>2, ToSetConcatPrefix
      <4>3. CASE db' = db
        BY <1>2, <4>3
      <4>4. QED BY <2>3, <4>1, <4>2, <4>3 DEF AddLogEntries
    <3>2. faults' \in 0..MaxFaults
      BY <1>2, <2>3 DEF AddLogEntries, Fault
    <3>3. QED BY <1>2, <2>3, <3>1, <3>2 DEF AddLogEntries
  <2>4. CASE Tick
    <3>1. AddLogEntries("sync", "select")
      BY <2>4 DEF Tick
    <3>2. pc' \in {"sync", "select"}
      BY <3>1 DEF AddLogEntries
    <3>3. QED BY <2>3, <3>1, <3>2
  <2>5. ASSUME SyncsSucceed \/ SyncsFail
        PROVE  unsynced' \subseteq Entries /\ reports' \subseteq Entries
    <3>1. FirstNodeError(entries) \subseteq Entries
      BY <1>2 DEF FirstNodeError
    <3>2. CASE SyncsSucceed
      BY <1>2, <3>1, <3>2 DEF SyncsSucceed
    <3>3. CASE SyncsFail
      BY <1>2, <3>3 DEF SyncsFail
    <3>4. QED BY <2>5, <3>2, <3>3
  <2>6. CASE Sync
    <3>1. entries' \in Seq(Entries) /\ updated' \subseteq Names
      <4>1. \/ entries' = <<>> /\ updated' = {}
            \/ entries' = entries /\ updated' = updated
        BY <2>6 DEF Sync
      <4>2. <<>> \in Seq(Entries)
        OBVIOUS
      <4>3. QED BY <1>2, <4>1, <4>2
    <3>2. faults' \in 0..MaxFaults
      BY <1>2, <2>6 DEF Sync, SyncsFail, Fault
    <3>3. QED BY <1>2, <2>5, <2>6, <3>1, <3>2 DEF Sync
  <2>7. CASE CtxDone
    BY <1>2, <2>7 DEF CtxDone
  <2>8. CASE FinalSave
    <3>1. CASE AddLogEntries("finalsync", "failed")
      <4>1. pc' \in {"finalsync", "failed"}
        BY <3>1 DEF AddLogEntries
      <4>2. QED BY <2>3, <3>1, <4>1
    <3>2. CASE ~AddLogEntries("finalsync", "failed")
      BY <1>2, <2>8, <3>2 DEF FinalSave
    <3>3. QED BY <3>1, <3>2
  <2>9. CASE FinalSync
    <3>1. faults' \in 0..MaxFaults
      BY <1>2, <2>9 DEF FinalSync, SyncsFail, Fault
    <3>2. QED BY <1>2, <2>5, <2>9, <3>1 DEF FinalSync
  <2>10. CASE StopCancel
    BY <1>2, <2>10 DEF StopCancel
  <2>11. CASE StopClose
    BY <1>2, <2>11 DEF StopClose, Fault
  <2>12. CASE UNCHANGED vars
    BY <1>2, <2>12 DEF vars
  <2>13. QED
    BY <1>2, <2>1, <2>2, <2>4, <2>6, <2>7, <2>8, <2>9, <2>10, <2>11, <2>12
       DEF Next, Terminating
<1>3. QED BY <1>1, <1>2, PTL DEF Spec

\* Steps that keep the batch, and lose nothing of the database and the reports,
\* keep the rest of the invariant too.
LEMMA BatchKept ==
  ASSUME SaverInv, TypeOK',
         written' = written, entries' = entries, updated' = updated,
         unsynced' \subseteq unsynced,
         StoredUpToBatch', AllStoredAfterInsert',
         reports \subseteq reports', reports' \subseteq ToSet(db'),
         pc' = "done" => unsynced' = {},
         stop' = "closed" => pc' \in {"done", "failed"}
  PROVE  SaverInv'
<1>1. BatchIsSuffix'
  BY DEF SaverInv, BatchIsSuffix, Saved
<1>2. BatchIsUpdated' /\ SavedIsSynced'
  BY DEF SaverInv, BatchIsUpdated, SavedIsSynced
<1>3. EarliestSavedErrorReported'
  BY DEF SaverInv, EarliestSavedErrorReported, EarliestError, Saved
<1>4. QED BY <1>1, <1>2, <1>3 DEF SaverInv

\* What successful syncs achieve: no file of the batch is left to sync, and the
\* earliest error of all that was written has been reported.
LEMMA SyncsDone ==
  ASSUME SaverInv, pc \in {"sync", "finalsync"}, SyncsSucceed
  PROVE  /\ unsynced' = {}
         /\ reports \subseteq reports' /\ reports' \subseteq ToSet(db)
         /\ ExitOnError => \A i \in 1..Len(written) :
                              EarliestError(i) => written[i] \in reports'
<1>1. /\ entries \in Seq(Entries) /\ written \in Seq(Entries)
      /\ Len(entries) \in Nat /\ Len(written) \in Nat
      /\ Saved \in Nat /\ Saved + Len(entries) = Len(written)
      /\ \A i \in 1..Len(entries) : entries[i] = written[Saved + i]
  BY DEF SaverInv, TypeOK, BatchIsSuffix, Saved
<1>2. unsynced' = {}
  BY DEF SaverInv, SavedIsSynced, BatchIsUpdated, SyncsSucceed
<1>3. reports \subseteq reports'
  BY DEF SyncsSucceed
<1>4. reports' \subseteq ToSet(db)
  <2>1. ASSUME NEW x \in FirstNodeError(entries) PROVE x \in ToSet(db)
    <3>1. PICK i \in 1..Len(entries) : x = entries[i]
      BY DEF FirstNodeError
    <3>2. x = written[Saved + i] /\ Saved + i \in 1..Len(written)
      BY <1>1, <3>1
    <3>3. QED BY <3>2 DEF SaverInv, AllStoredAfterInsert, FirstWritten
  <2>2. QED BY <2>1 DEF SaverInv, SyncsSucceed
<1>5. ASSUME ExitOnError, NEW i \in 1..Len(written), EarliestError(i)
      PROVE  written[i] \in reports'
  <2>1. CASE i \in 1..Saved
    BY <1>3, <1>5, <2>1 DEF SaverInv, EarliestSavedErrorReported
  <2>2. CASE i \notin 1..Saved
    <3>1. i - Saved \in 1..Len(entries) /\ entries[i - Saved] = written[i]
      BY <1>1, <2>2
    <3>2. \A k \in 1..(i - Saved - 1) : entries[k] \notin NodeErrors
      <4>1. ASSUME NEW k \in 1..(i - Saved - 1) PROVE entries[k] \notin NodeErrors
        <5>1. k \in 1..Len(entries) /\ Saved + k \in 1..(i - 1)
          BY <1>1, <3>1
        <5>2. QED BY <1>1, <1>5, <5>1 DEF EarliestError
      <4>2. QED BY <4>1
    <3>3. written[i] \in FirstNodeError(entries)
      BY <1>5, <3>1, <3>2 DEF FirstNodeError, EarliestError
    <3>4. QED BY <1>5, <3>3 DEF SyncsSucceed
  <2>3. QED BY <2>1, <2>2
<1>6. QED BY <1>2, <1>3, <1>4, <1>5

\* An insert keeps the invariant, whether it succeeds, fails or is refused.
LEMMA InsertKeepsInv ==
  ASSUME SaverInv, TypeOK', NEW s \in {"sync", "finalsync"},
         NEW f \in {"select", "failed"}, AddLogEntries(s, f),
         pc \in {"select", "final"}
  PROVE  SaverInv'
<1>1. /\ written' = written /\ entries' = entries /\ updated' = updated
      /\ unsynced' = unsynced /\ reports' = reports /\ stop' = stop
      /\ pc' \in {s, f}
  BY DEF AddLogEntries
<1>2. Saved' = Saved /\ \A k : FirstWritten(k)' = FirstWritten(k)
  BY <1>1 DEF Saved, FirstWritten
<1>3. CASE pc' = f
  <2>1. PICK n \in 0..Len(entries) : db' = db \o SubSeq(entries, 1, n) \/ db' = db
    <3>1. 0 \in 0..Len(entries)
      BY DEF SaverInv, TypeOK
    <3>2. f # s
      OBVIOUS
    <3>3. QED BY <1>3, <3>1, <3>2 DEF AddLogEntries
  <2>2. CASE db' = db
    <3>1. StoredUpToBatch'
      BY <1>1, <1>2, <2>2 DEF SaverInv, StoredUpToBatch
    <3>2. AllStoredAfterInsert'
      BY <1>3 DEF AllStoredAfterInsert
    <3>3. QED BY <1>1, <1>3, <2>2, <3>1, <3>2, BatchKept DEF SaverInv
  <2>3. CASE db' = db \o SubSeq(entries, 1, n)
    <3>1. StoredUpToBatch'
      BY <1>1, <1>2, <2>3, InsertedPrefix DEF StoredUpToBatch
    <3>2. AllStoredAfterInsert'
      BY <1>3 DEF AllStoredAfterInsert
    <3>3. reports' \subseteq ToSet(db')
      BY <1>1, <2>3, InsertedPrefix DEF SaverInv
    <3>4. QED BY <1>1, <1>3, <3>1, <3>2, <3>3, BatchKept DEF SaverInv
  <2>4. QED BY <2>1, <2>2, <2>3
<1>4. CASE pc' = s
  <2>1. db' = db \o entries
    <3>1. f # s
      OBVIOUS
    <3>2. QED BY <1>4, <3>1 DEF AddLogEntries
  <2>2. ToSet(db') = FirstWritten(Len(written)) /\ ToSet(db) \subseteq ToSet(db')
    BY <2>1, InsertedAll
  <2>3. AllStoredAfterInsert'
    BY <1>1, <1>2, <2>2 DEF AllStoredAfterInsert
  <2>4. Len(written) \in Saved..Len(written)
    BY DEF SaverInv, TypeOK, BatchIsSuffix, Saved
  <2>5. StoredUpToBatch'
    BY <1>1, <1>2, <2>2, <2>4 DEF StoredUpToBatch
  <2>6. reports' \subseteq ToSet(db')
    BY <1>1, <2>2 DEF SaverInv
  <2>7. stop # "closed"
    BY DEF SaverInv
  <2>8. QED BY <1>1, <1>4, <2>3, <2>5, <2>6, <2>7, BatchKept
<1>5. QED BY <1>1, <1>3, <1>4

\* Receiving an entry makes the batch and the written entries longer by the same
\* element, so everything the invariant says of the rest stays.
LEMMA ReceiveKeepsInv ==
  ASSUME SaverInv, TypeOK', Receive
  PROVE  SaverInv'
<1> DEFINE e == Head(entryChan)
<1>1. /\ entries \in Seq(Entries) /\ written \in Seq(Entries)
      /\ Len(entries) \in Nat /\ Len(written) \in Nat
      /\ Saved \in Nat /\ Saved + Len(entries) = Len(written)
      /\ e \in Entries
  BY ToSetTail DEF SaverInv, TypeOK, BatchIsSuffix, Saved, Receive
<1>2. /\ db' = db /\ reports' = reports /\ stop' = stop /\ pc' = pc
      /\ pc = "select"
  BY DEF Receive
<1>3. AllStoredAfterInsert'
  BY <1>2 DEF AllStoredAfterInsert
<1>4. CASE UNCHANGED <<written, unsynced, updated, entries>>
  <2>1. StoredUpToBatch'
    BY <1>2, <1>4 DEF SaverInv, StoredUpToBatch, Saved, FirstWritten
  <2>2. QED BY <1>2, <1>3, <1>4, <2>1, BatchKept DEF SaverInv
<1>5. CASE /\ written' = Append(written, e)
           /\ unsynced' = unsynced \cup {e}
           /\ updated' = updated \cup {NameOf[e]}
           /\ entries' = Append(entries, e)
  <2> HIDE DEF e
  <2>1. /\ Len(written') = Len(written) + 1
        /\ \A i \in 1..Len(written) : written'[i] = written[i]
        /\ written'[Len(written) + 1] = e
    BY <1>1, <1>5, ToSetAppend
  <2>2. /\ Len(entries') = Len(entries) + 1
        /\ \A i \in 1..Len(entries) : entries'[i] = entries[i]
        /\ entries'[Len(entries) + 1] = e
        /\ ToSet(entries') = ToSet(entries) \cup {e}
    BY <1>1, <1>5, ToSetAppend
  <2>3. Saved' = Saved
    BY <1>1, <2>1, <2>2 DEF Saved
  <2>4. BatchIsSuffix'
    <3>1. ASSUME NEW i \in 1..Len(entries')
          PROVE  entries'[i] = written'[Saved + i]
      <4>1. CASE i \in 1..Len(entries)
        <5>1. Saved + i \in 1..Len(written)
          BY <1>1, <4>1
        <5>2. entries[i] = written[Saved + i]
          BY <4>1 DEF SaverInv, BatchIsSuffix
        <5>3. QED BY <2>1, <2>2, <4>1, <5>1, <5>2
      <4>2. CASE i \notin 1..Len(entries)
        <5>1. i = Len(entries) + 1 /\ Saved + i = Len(written) + 1
          BY <1>1, <2>2, <4>2
        <5>2. QED BY <2>1, <2>2, <5>1
      <4>3. QED BY <4>1, <4>2
    <3>2. QED BY <1>1, <2>3, <3>1 DEF BatchIsSuffix
  <2>5. StoredUpToBatch'
    <3>1. PICK k \in Saved..Len(written) : ToSet(db) = FirstWritten(k)
      BY DEF SaverInv, StoredUpToBatch
    <3>2. \A i \in 1..k : i \in 1..Len(written)
      BY <1>1, <3>1
    <3>3. FirstWritten(k) = {written'[i] : i \in 1..k}
      BY <2>1, <3>2 DEF FirstWritten
    <3>4. k \in Saved'..Len(written')
      BY <1>1, <2>1, <2>3, <3>1
    <3>5. QED BY <1>2, <3>1, <3>3, <3>4 DEF StoredUpToBatch, FirstWritten
  <2>6. BatchIsUpdated' /\ SavedIsSynced'
    BY <1>5, <2>2 DEF SaverInv, BatchIsUpdated, SavedIsSynced
  <2>7. EarliestSavedErrorReported'
    <3>1. ASSUME ExitOnError, NEW i \in 1..Saved, EarliestError(i)'
          PROVE  written'[i] \in reports'
      <4>1. i \in 1..Len(written) /\ \A j \in 1..(i - 1) : j \in 1..Len(written)
        BY <1>1
      <4>2. EarliestError(i)
        BY <2>1, <3>1, <4>1 DEF EarliestError
      <4>3. QED BY <1>2, <2>1, <3>1, <4>1, <4>2
                   DEF SaverInv, EarliestSavedErrorReported
    <3>2. QED BY <2>3, <3>1 DEF EarliestSavedErrorReported
  <2>8. QED BY <1>2, <1>3, <2>4, <2>5, <2>6, <2>7 DEF SaverInv
<1>6. QED BY <1>4, <1>5 DEF Receive

\* Every reachable state satisfies the inductive invariant.
THEOREM SaverInvariant == Spec => []SaverInv
<1>1. Init => SaverInv
  <2> SUFFICES ASSUME Init PROVE SaverInv
    OBVIOUS
  <2>1. TypeOK
    BY ConstantsAssumption DEF Init, TypeOK, PCs, Stops
  <2>2. /\ Len(written) = 0 /\ Len(entries) = 0 /\ Saved = 0
        /\ ToSet(entries) = {} /\ ToSet(db) = {}
    BY DEF Init, Saved, ToSet
  <2>3. BatchIsSuffix /\ BatchIsUpdated /\ EarliestSavedErrorReported
    BY <2>2 DEF BatchIsSuffix, BatchIsUpdated, EarliestSavedErrorReported
  <2>4. FirstWritten(0) = {}
    BY DEF FirstWritten
  <2>5. StoredUpToBatch
    BY <2>2, <2>4 DEF StoredUpToBatch
  <2>6. QED BY <2>1, <2>2, <2>3, <2>5
               DEF Init, SaverInv, AllStoredAfterInsert, SavedIsSynced
<1>2. ASSUME SaverInv, TypeOK', [Next]_vars PROVE SaverInv'
  <2>1. ASSUME UNCHANGED <<written, entries, updated, unsynced, db, reports>>,
               pc' \in {"sync", "finalsync", "done"} => pc' = pc,
               stop' = "closed" => pc' \in {"done", "failed"}
        PROVE  SaverInv'
    <3>1. StoredUpToBatch' /\ AllStoredAfterInsert'
      <4>1. StoredUpToBatch'
        BY <1>2, <2>1 DEF SaverInv, StoredUpToBatch, Saved, FirstWritten
      <4>2. AllStoredAfterInsert'
        BY <1>2, <2>1 DEF SaverInv, AllStoredAfterInsert, FirstWritten
      <4>3. QED BY <4>1, <4>2
    <3>2. reports' \subseteq ToSet(db')
      BY <1>2, <2>1 DEF SaverInv
    <3>3. pc' = "done" => unsynced' = {}
      BY <1>2, <2>1 DEF SaverInv
    <3>4. QED BY <1>2, <2>1, <3>1, <3>2, <3>3, BatchKept
  <2>2. stop = "closed" => pc \in {"done", "failed"}
    BY <1>2 DEF SaverInv
  <2>3. ASSUME NEW e \in Entries, Send(e) PROVE SaverInv'
    BY <2>1, <2>2, <2>3 DEF Send
  <2>4. CASE Receive
    BY <1>2, <2>4, ReceiveKeepsInv
  <2>5. CASE Tick
    BY <1>2, <2>5, InsertKeepsInv DEF Tick
  <2>6. CASE Sync
    <3>1. /\ pc = "sync" /\ pc' = "select" /\ stop' = stop
          /\ written' = written /\ db' = db
      BY <2>6 DEF Sync
    <3>2. AllStoredAfterInsert'
      BY <3>1 DEF AllStoredAfterInsert
    <3>3. ToSet(db) = FirstWritten(Len(written)) /\ stop # "closed"
      BY <1>2, <3>1 DEF SaverInv, AllStoredAfterInsert
    <3>4. CASE SyncsSucceed /\ entries' = <<>> /\ updated' = {}
      <4>1. /\ Saved' = Len(written) /\ Len(written) \in Nat
            /\ Len(entries') = 0 /\ ToSet(entries') = {}
        BY <1>2, <3>1, <3>4 DEF SaverInv, TypeOK, Saved, ToSet
      <4>2. BatchIsSuffix' /\ BatchIsUpdated'
        BY <4>1 DEF BatchIsSuffix, BatchIsUpdated
      <4>3. StoredUpToBatch'
        <5>1. Len(written) \in Saved'..Len(written')
          BY <3>1, <4>1
        <5>2. QED BY <3>1, <3>3, <5>1 DEF StoredUpToBatch, FirstWritten
      <4>4. /\ unsynced' = {} /\ reports' \subseteq ToSet(db)
            /\ ExitOnError => \A i \in 1..Len(written) :
                                EarliestError(i) => written[i] \in reports'
        BY <1>2, <3>1, <3>4, SyncsDone
      <4>5. EarliestSavedErrorReported'
        BY <3>1, <4>1, <4>4 DEF EarliestSavedErrorReported, EarliestError
      <4>6. QED BY <1>2, <3>1, <3>2, <3>3, <4>2, <4>3, <4>4, <4>5
                   DEF SaverInv, SavedIsSynced
    <3>5. CASE SyncsFail /\ UNCHANGED <<entries, updated>>
      <4>1. unsynced' \subseteq unsynced /\ reports' = reports
        BY <3>5 DEF SyncsFail
      <4>2. StoredUpToBatch'
        BY <1>2, <3>1, <3>5 DEF SaverInv, StoredUpToBatch, Saved, FirstWritten
      <4>3. QED BY <1>2, <3>1, <3>2, <3>3, <3>5, <4>1, <4>2, BatchKept DEF SaverInv
    <3>6. QED BY <2>6, <3>4, <3>5 DEF Sync
  <2>7. CASE CtxDone
    BY <1>2, <2>1, <2>2, <2>7 DEF CtxDone
  <2>8. CASE FinalSave
    <3>1. CASE AddLogEntries("finalsync", "failed")
      BY <1>2, <2>8, <3>1, InsertKeepsInv DEF FinalSave
    <3>2. CASE /\ pc = "final" /\ entries = <<>> /\ pc' = "done" /\ stop' = stop
               /\ UNCHANGED <<entries, updated, written, unsynced, db, reports>>
      <4>1. Saved = Len(written) /\ ToSet(entries) = {} /\ Len(written) \in Nat
        BY <1>2, <3>2 DEF SaverInv, TypeOK, Saved, ToSet
      <4>2. ToSet(db) = FirstWritten(Len(written))
        BY <1>2, <4>1 DEF SaverInv, StoredUpToBatch
      <4>3. StoredUpToBatch' /\ AllStoredAfterInsert'
        <5>1. StoredUpToBatch'
          BY <1>2, <3>2 DEF SaverInv, StoredUpToBatch, Saved, FirstWritten
        <5>2. AllStoredAfterInsert'
          BY <3>2, <4>2 DEF AllStoredAfterInsert, FirstWritten
        <5>3. QED BY <5>1, <5>2
      <4>4. unsynced' = {}
        BY <1>2, <3>2, <4>1 DEF SaverInv, SavedIsSynced
      <4>5. QED BY <1>2, <3>2, <4>3, <4>4, BatchKept DEF SaverInv
    <3>3. QED BY <2>8, <3>1, <3>2 DEF FinalSave
  <2>9. CASE FinalSync
    <3>1. /\ pc = "finalsync" /\ stop' = stop
          /\ UNCHANGED <<written, entries, updated, db>>
          /\ pc' \in {"done", "failed"}
      BY <2>9 DEF FinalSync
    <3>2. StoredUpToBatch' /\ AllStoredAfterInsert'
      <4>1. StoredUpToBatch'
        BY <1>2, <3>1 DEF SaverInv, StoredUpToBatch, Saved, FirstWritten
      <4>2. AllStoredAfterInsert'
        BY <1>2, <3>1 DEF SaverInv, AllStoredAfterInsert, FirstWritten
      <4>3. QED BY <4>1, <4>2
    <3>3. CASE SyncsSucceed
      BY <1>2, <3>1, <3>2, <3>3, SyncsDone, BatchKept DEF SaverInv
    <3>4. CASE SyncsFail /\ pc' = "failed"
      <4>1. unsynced' \subseteq unsynced /\ reports' = reports
        BY <3>4 DEF SyncsFail
      <4>2. QED BY <1>2, <3>1, <3>2, <3>4, <4>1, BatchKept DEF SaverInv
    <3>5. QED BY <2>9, <3>3, <3>4 DEF FinalSync
  <2>10. CASE StopCancel
    BY <2>1, <2>10 DEF StopCancel
  <2>11. CASE StopClose
    BY <2>1, <2>11 DEF StopClose
  <2>12. CASE UNCHANGED vars
    BY <2>1, <2>2, <2>12 DEF vars
  <2>13. QED
    BY <1>2, <2>3, <2>4, <2>5, <2>6, <2>7, <2>8, <2>9, <2>10, <2>11, <2>12
       DEF Next, Terminating
<1>3. QED BY <1>1, <1>2, TypeCorrect, PTL DEF Spec
-----------------------------------------------------------------------------
(* What the invariant gives.                                                 *)

\* No entry that reached its log file is forgotten before it is stored.
THEOREM NothingIsLost == Spec => []NothingLost
<1>1. SaverInv => NothingLost
  <2> SUFFICES ASSUME SaverInv, NEW x \in ToSet(written)
               PROVE  x \in ToSet(db) \cup ToSet(entries)
    BY DEF NothingLost
  <2>1. /\ entries \in Seq(Entries) /\ written \in Seq(Entries)
        /\ Len(entries) \in Nat /\ Len(written) \in Nat
        /\ Saved \in Nat /\ Saved + Len(entries) = Len(written)
        /\ DOMAIN entries = 1..Len(entries) /\ DOMAIN written = 1..Len(written)
    BY DEF SaverInv, TypeOK, BatchIsSuffix, Saved
  <2>2. PICK i \in 1..Len(written) : x = written[i]
    BY <2>1 DEF ToSet
  <2>3. CASE i \in 1..Saved
    BY <2>1, <2>2, <2>3 DEF SaverInv, StoredUpToBatch, FirstWritten
  <2>4. CASE i \notin 1..Saved
    <3>1. i - Saved \in 1..Len(entries) /\ Saved + (i - Saved) = i
      BY <2>1, <2>4
    <3>2. entries[i - Saved] = x
      BY <2>2, <3>1 DEF SaverInv, BatchIsSuffix
    <3>3. QED BY <2>1, <3>1, <3>2 DEF ToSet
  <2>5. QED BY <2>3, <2>4
<1>2. QED BY <1>1, SaverInvariant, PTL

\* Only an initial segment of the log files is to be found in the database.
THEOREM ArrivalOrder == Spec => []StoredInArrivalOrder
<1>1. SaverInv => StoredInArrivalOrder
  <2> SUFFICES ASSUME SaverInv PROVE StoredInArrivalOrder
    OBVIOUS
  <2>1. PICK k \in Saved..Len(written) : ToSet(db) = FirstWritten(k)
    BY DEF SaverInv, StoredUpToBatch
  <2>2. k \in 0..Len(written)
    BY <2>1 DEF SaverInv, TypeOK, BatchIsSuffix
  <2>3. QED BY <2>1, <2>2 DEF StoredInArrivalOrder
<1>2. QED BY <1>1, SaverInvariant, PTL

\* What left the batch is on disk.
THEOREM SavedEntriesAreSynced == Spec => []SavedIsSynced
<1>1. SaverInv => SavedIsSynced
  BY DEF SaverInv
<1>2. QED BY <1>1, SaverInvariant, PTL

\* With exit-on-error the run is told of the earliest error line.
THEOREM EarliestErrorIsReported == Spec => []EarliestErrorReported
<1>1. SaverInv => EarliestErrorReported
  <2> SUFFICES ASSUME SaverInv, ExitOnError, NEW i \in 1..Len(written),
                      EarliestError(i)
               PROVE  written[i] \in reports \cup ToSet(entries)
    BY DEF EarliestErrorReported
  <2>1. /\ entries \in Seq(Entries) /\ Len(entries) \in Nat
        /\ Saved \in Nat /\ Saved + Len(entries) = Len(written)
        /\ DOMAIN entries = 1..Len(entries) /\ Len(written) \in Nat
    BY DEF SaverInv, TypeOK, BatchIsSuffix, Saved
  <2>2. CASE i \in 1..Saved
    BY <2>2 DEF SaverInv, EarliestSavedErrorReported
  <2>3. CASE i \notin 1..Saved
    <3>1. i - Saved \in 1..Len(entries) /\ Saved + (i - Saved) = i
      BY <2>1, <2>3
    <3>2. entries[i - Saved] = written[i]
      BY <3>1 DEF SaverInv, BatchIsSuffix
    <3>3. QED BY <2>1, <3>1, <3>2 DEF ToSet
  <2>4. QED BY <2>2, <2>3
<1>2. QED BY <1>1, SaverInvariant, PTL

\* After Stop has closed the files nothing that was written is missing, unless
\* the final flush failed.
THEOREM StopFlushes == Spec => []FlushedAtStop
<1>1. SaverInv => FlushedAtStop
  <2> SUFFICES ASSUME SaverInv, stop = "closed", pc # "failed"
               PROVE  ToSet(written) \subseteq ToSet(db) /\ unsynced = {}
    BY DEF FlushedAtStop
  <2>1. pc = "done"
    BY DEF SaverInv
  <2>2. ToSet(db) = FirstWritten(Len(written)) /\ unsynced = {}
    BY <2>1 DEF SaverInv, AllStoredAfterInsert
  <2>3. DOMAIN written = 1..Len(written)
    BY DEF SaverInv, TypeOK
  <2>4. QED BY <2>2, <2>3 DEF ToSet, FirstWritten
<1>2. QED BY <1>1, SaverInvariant, PTL

\* The saver implements LogStore: each step of it accepts an entry, extends the
\* stored initial segment, reports a stored error line, or shows nothing.
THEOREM SaverImplementsLogStore == Spec => ImplementsLogStore
<1>1. Init => Promise!Init
  BY DEF Init, Promise!Init, ToSet
<1>2. ASSUME SaverInv, SaverInv', [Next]_vars PROVE [Promise!Next]_(Promise!vars)
  <2> USE DEF Promise!vars
  <2>1. ASSUME written' = written, reports' = reports PROVE [Promise!Next]_(Promise!vars)
    <3>1. PICK k \in Saved'..Len(written) : ToSet(db') = FirstWritten(k)
      BY <1>2, <2>1 DEF SaverInv, StoredUpToBatch, FirstWritten
    <3>2. k \in 0..Len(written)
      BY <1>2, <2>1, <3>1 DEF SaverInv, TypeOK, BatchIsSuffix
    <3>3. CASE ToSet(db) \subseteq ToSet(db')
      BY <2>1, <3>1, <3>2, <3>3
         DEF Promise!Next, Promise!Store, Promise!Initial, FirstWritten
    <3>4. CASE db' = db
      BY <3>3, <3>4
    <3>5. CASE \E s \in PCs, f \in PCs : AddLogEntries(s, f)
      <4>1. \/ db' = db
            \/ db' = db \o entries
            \/ \E n \in 0..Len(entries) : db' = db \o SubSeq(entries, 1, n)
        BY <3>5 DEF AddLogEntries
      <4>2. ToSet(db) \subseteq ToSet(db')
        BY <1>2, <4>1, InsertedAll, InsertedPrefix
      <4>3. QED BY <3>3, <4>2
    <3>6. db' = db \/ \E s \in PCs, f \in PCs : AddLogEntries(s, f)
      <4>1. "select" \in PCs /\ "sync" \in PCs /\ "finalsync" \in PCs /\ "failed" \in PCs
        BY DEF PCs
      <4>2. CASE Tick \/ FinalSave
        BY <4>1, <4>2 DEF Tick, FinalSave
      <4>3. CASE ~(Tick \/ FinalSave)
        BY <1>2, <4>3 DEF Next, vars, Send, Receive, Sync, CtxDone, FinalSync,
                          StopCancel, StopClose, Terminating
      <4>4. QED BY <4>2, <4>3
    <3>7. QED BY <3>4, <3>5, <3>6
  <2>2. CASE Receive
    <3>1. db' = db /\ reports' = reports /\ Head(entryChan) \in Entries
      BY <1>2, <2>2, ToSetTail DEF Receive, SaverInv, TypeOK
    <3>2. CASE written' = Append(written, Head(entryChan))
      BY <3>1, <3>2 DEF Promise!Next, Promise!Accept
    <3>3. CASE written' = written
      BY <3>1, <3>3
    <3>4. QED BY <2>2, <3>2, <3>3 DEF Receive
  <2>3. CASE Sync \/ FinalSync
    <3>1. /\ pc \in {"sync", "finalsync"} /\ written' = written /\ db' = db
          /\ SyncsSucceed \/ reports' = reports
      BY <2>3 DEF Sync, FinalSync, SyncsFail
    <3>2. CASE reports' # reports
      <4>1. /\ SyncsSucceed /\ reports' \subseteq ToSet(db)
            /\ reports' = reports \cup FirstNodeError(entries)
        BY <1>2, <3>1, <3>2, SyncsDone DEF SyncsSucceed
      <4>2. PICK x \in FirstNodeError(entries) : TRUE
        BY <3>2, <4>1
      <4>3. \A y \in FirstNodeError(entries) : y = x
        <5>1. \A i, j \in 1..Len(entries) : i = j \/ i \in 1..(j - 1) \/ j \in 1..(i - 1)
          BY <1>2 DEF SaverInv, TypeOK
        <5>2. QED BY <4>2, <5>1 DEF FirstNodeError
      <4>4. x \in NodeErrors /\ x \in Entries
        BY <1>2, <4>2 DEF FirstNodeError, SaverInv, TypeOK
      <4>5. reports' = reports \cup {x} /\ x \in ToSet(db)
        BY <4>1, <4>2, <4>3
      <4>6. QED BY <3>1, <4>4, <4>5 DEF Promise!Next, Promise!Report
    <3>3. QED BY <2>1, <3>1, <3>2
  <2>4. ASSUME ~Receive, ~(Sync \/ FinalSync)
        PROVE  written' = written /\ reports' = reports
    BY <1>2, <2>4 DEF Next, vars, Send, Tick, AddLogEntries, CtxDone, FinalSave,
                      StopCancel, StopClose, Terminating
  <2>5. QED BY <2>1, <2>2, <2>3, <2>4
<1>3. QED
  BY <1>1, <1>2, SaverInvariant, PTL DEF Spec, ImplementsLogStore, Promise!Spec
-----------------------------------------------------------------------------
(* Retries and malformed lines.                                              *)

CopiesOf(s, e) == Cardinality({i \in 1..Len(s) : s[i] = e})

\* Concatenating a prefix of a sequence without repetitions adds at most one copy of
\* an element, and none of one it does not have.
LEMMA CopiesConcat ==
  ASSUME NEW S, NEW s \in Seq(S), NEW t \in Seq(S), IsInjective(t), NEW n \in 0..Len(t),
         NEW e \in S
  PROVE  /\ CopiesOf(s, e) \in Nat /\ CopiesOf(s \o SubSeq(t, 1, n), e) \in Nat
         /\ CopiesOf(s \o SubSeq(t, 1, n), e)
                <= CopiesOf(s, e) + (IF e \in ToSet(t) THEN 1 ELSE 0)
<1> DEFINE u == s \o SubSeq(t, 1, n)
           A == {i \in 1..Len(s) : s[i] = e}
           B == {i \in 1..Len(u) : u[i] = e}
<1> SUFFICES /\ Cardinality(A) \in Nat /\ Cardinality(B) \in Nat
             /\ Cardinality(B) <= Cardinality(A) + (IF e \in ToSet(t) THEN 1 ELSE 0)
  BY DEF CopiesOf
<1>1. /\ Len(u) = Len(s) + n /\ Len(s) \in Nat /\ Len(t) \in Nat /\ n \in Nat
      /\ \A i \in 1..Len(s) : u[i] = s[i]
      /\ \A i \in 1..n : u[Len(s) + i] = t[i]
  OBVIOUS
<1>2. \A i, j \in 1..Len(t) : t[i] = t[j] => i = j
  BY DEF IsInjective
<1>3. \A i \in 1..n : t[i] = e => e \in ToSet(t)
  BY <1>1 DEF ToSet
<1> HIDE DEF u
<1>4. IsFiniteSet(A) /\ Cardinality(A) \in Nat
  <2>1. IsFiniteSet(1..Len(s))
    BY <1>1, FS_Interval
  <2>2. IsFiniteSet(A)
    BY <2>1, FS_Subset
  <2>3. QED BY <2>2, FS_CardinalityType
<1>5. CASE \E k \in 1..n : t[k] = e
  <2>1. PICK k \in 1..n : t[k] = e
    BY <1>5
  <2>2. B = A \cup {Len(s) + k}
    <3>1. ASSUME NEW i \in B PROVE i \in A \cup {Len(s) + k}
      <4>1. CASE i <= Len(s)
        BY <1>1, <4>1
      <4>2. CASE i > Len(s)
        <5>1. i - Len(s) \in 1..n /\ i - Len(s) \in 1..Len(t) /\ k \in 1..Len(t)
          BY <1>1, <4>2
        <5>2. Len(s) + (i - Len(s)) = i
          BY <1>1, <4>2
        <5>3. t[i - Len(s)] = e
          BY <1>1, <5>1, <5>2
        <5>4. i - Len(s) = k
          BY <1>2, <2>1, <5>1, <5>3
        <5>5. QED BY <1>1, <5>4
      <4>3. QED BY <1>1, <4>1, <4>2
    <3>2. Len(s) + k \in B
      BY <1>1, <2>1
    <3>3. A \subseteq B
      BY <1>1
    <3>4. QED BY <3>1, <3>2, <3>3
  <2> HIDE DEF A, B
  <2>3. Cardinality(B) \in {Cardinality(A), Cardinality(A) + 1}
    BY <1>4, <2>2, FS_AddElement
  <2>4. e \in ToSet(t) /\ Cardinality(A) \in Nat
    BY <1>3, <1>4, <2>1 DEF A
  <2>5. QED BY <2>3, <2>4
<1>6. CASE ~\E k \in 1..n : t[k] = e
  <2>1. B = A
    <3>1. ASSUME NEW i \in B PROVE i \in A
      <4>1. CASE i <= Len(s)
        BY <1>1, <4>1
      <4>2. CASE i > Len(s)
        <5>1. i - Len(s) \in 1..n /\ Len(s) + (i - Len(s)) = i
          BY <1>1, <4>2
        <5>2. QED BY <1>1, <1>6, <5>1
      <4>3. QED BY <1>1, <4>1, <4>2
    <3>2. QED BY <1>1, <3>1
  <2> HIDE DEF B
  <2>2. QED BY <1>4, <2>1
<1>7. QED BY <1>5, <1>6

\* What is stored has been written, and the batch has no entry twice.
LEMMA WrittenOnce ==
  ASSUME SaverInv, SentOnce
  PROVE  ToSet(db) \subseteq ToSet(written) /\ IsInjective(entries)
<1>1. /\ written \in Seq(Entries) /\ entries \in Seq(Entries)
      /\ Saved \in Nat /\ Saved + Len(entries) = Len(written)
      /\ \A i \in 1..Len(entries) : entries[i] = written[Saved + i]
  BY DEF SaverInv, TypeOK, BatchIsSuffix, Saved
<1>2. PICK k \in Saved..Len(written) : ToSet(db) = FirstWritten(k)
  BY DEF SaverInv, StoredUpToBatch
<1>3. ToSet(db) \subseteq ToSet(written)
  <2>1. k \in 0..Len(written) /\ DOMAIN written = 1..Len(written)
    BY <1>1, <1>2
  <2>2. QED BY <1>2, <2>1 DEF FirstWritten, ToSet
<1>4. ASSUME NEW i \in 1..Len(entries), NEW j \in 1..Len(entries), entries[i] = entries[j]
      PROVE  i = j
  <2>1. Saved + i \in 1..Len(written) /\ Saved + j \in 1..Len(written)
    BY <1>1
  <2>2. \A m, n \in 1..Len(written) : written[m] = written[n] => m = n
    <3>1. IsInjective(written) /\ DOMAIN written = 1..Len(written)
      BY <1>1 DEF SentOnce
    <3>2. QED BY <3>1 DEF IsInjective
  <2>3. written[Saved + i] = written[Saved + j]
    BY <1>1, <1>4
  <2>4. Saved + i = Saved + j
    BY <2>1, <2>2, <2>3
  <2>5. QED BY <1>1, <2>4
<1>5. DOMAIN entries = 1..Len(entries)
  BY <1>1
<1>6. QED BY <1>3, <1>4, <1>5 DEF IsInjective

\* An entry is on its way once.
LEMMA SentOnceKept ==
  ASSUME TypeOK, SentOnce, [Next]_vars
  PROVE  SentOnce'
<1>1. /\ written \in Seq(Entries) /\ entryChan \in Seq(Entries)
      /\ IsInjective(written) /\ IsInjective(entryChan)
      /\ ToSet(written) \cap ToSet(entryChan) = {}
      /\ ToSet(written) \cup ToSet(entryChan) \subseteq sent
  BY DEF TypeOK, SentOnce
<1>2. ASSUME NEW e \in Entries, Send(e) PROVE SentOnce'
  <2>1. /\ e \notin sent /\ sent' = sent \cup {e} /\ entryChan' = Append(entryChan, e)
        /\ written' = written
    BY <1>2 DEF Send
  <2>2. IsInjective(entryChan')
    BY <1>1, <2>1, InjectiveAppend
  <2>3. ToSet(entryChan') = ToSet(entryChan) \cup {e}
    BY <1>1, <2>1, ToSetAppend
  <2>4. QED BY <1>1, <2>1, <2>2, <2>3 DEF SentOnce
<1>3. CASE Receive
  <2> DEFINE h == Head(entryChan)
  <2>1. /\ entryChan # <<>> /\ entryChan' = Tail(entryChan) /\ UNCHANGED sent
        /\ written' = Append(written, h) \/ UNCHANGED written
    BY <1>3 DEF Receive
  <2>2. /\ h \in Entries /\ h \notin ToSet(entryChan')
        /\ ToSet(entryChan) = {h} \cup ToSet(entryChan')
        /\ IsInjective(entryChan')
    BY <1>1, <2>1, ToSetTail, InjectiveTail
  <2> HIDE DEF h
  <2>3. CASE UNCHANGED written
    BY <1>1, <2>1, <2>2, <2>3 DEF SentOnce
  <2>4. CASE written' = Append(written, h)
    <3>1. IsInjective(written')
      BY <1>1, <2>2, <2>4, InjectiveAppend
    <3>2. ToSet(written') = ToSet(written) \cup {h}
      BY <1>1, <2>2, <2>4, ToSetAppend
    <3>3. QED BY <1>1, <2>1, <2>2, <3>1, <3>2 DEF SentOnce
  <2>5. QED BY <2>1, <2>3, <2>4
<1>4. CASE UNCHANGED <<written, entryChan, sent>>
  BY <1>4 DEF SentOnce
<1>5. QED
  BY <1>2, <1>3, <1>4
     DEF Next, vars, Tick, Sync, CtxDone, FinalSave, FinalSync, AddLogEntries, StopCancel,
         StopClose, Terminating

\* Each failure is worth one more copy.
LEMMA CopiesKept ==
  ASSUME SaverInv, SentOnce, CopiesCounted, [Next]_vars
  PROVE  CopiesCounted'
<1>1. /\ db \in Seq(Entries) /\ entries \in Seq(Entries) /\ IsInjective(entries)
      /\ faults \in Nat
  BY WrittenOnce DEF SaverInv, TypeOK
<1>2. \A e : Copies(e) = CopiesOf(db, e) /\ Copies(e)' = CopiesOf(db', e)
  BY DEF Copies, CopiesOf
<1>3. \A e \in Entries : CopiesOf(db, e) \in Nat
  <2> SUFFICES ASSUME NEW e \in Entries PROVE CopiesOf(db, e) \in Nat
    OBVIOUS
  <2>1. Len(entries) \in Nat /\ 0 \in 0..Len(entries)
    BY <1>1
  <2>2. QED BY <1>1, <2>1, CopiesConcat
<1>4. \A e \in Entries :
         CopiesOf(db, e) <= faults + (IF e \in ToBeInserted THEN 0 ELSE 1)
  BY <1>2 DEF CopiesCounted
<1>5. faults' = faults \/ faults' = faults + 1
  BY DEF Next, vars, Send, Receive, Tick, Sync, SyncsFail, CtxDone, FinalSave, FinalSync,
         AddLogEntries, StopCancel, StopClose, Terminating, Fault
<1> SUFFICES ASSUME NEW e \in Entries
             PROVE  CopiesOf(db', e) <= faults' + (IF e \in ToBeInserted' THEN 0 ELSE 1)
  BY <1>2 DEF CopiesCounted
<1>6. CASE UNCHANGED db /\ (e \in ToBeInserted' => e \in ToBeInserted \/ faults' = faults + 1)
  BY <1>1, <1>3, <1>4, <1>5, <1>6
<1>7. ASSUME NEW succ \in {"sync", "finalsync"}, NEW fail \in {"select", "failed"},
             AddLogEntries(succ, fail), pc \in {"select", "final"}
      PROVE  CopiesOf(db', e) <= faults' + (IF e \in ToBeInserted' THEN 0 ELSE 1)
  <2>1. UNCHANGED entries /\ ToBeInserted = ToSet(entries)
    BY <1>7 DEF AddLogEntries, ToBeInserted
  <2>2. CASE UNCHANGED db
    <3>1. e \in ToBeInserted' => e \in ToBeInserted
      BY <2>1 DEF ToBeInserted
    <3>2. QED BY <1>6, <2>2, <3>1
  <2>3. ASSUME NEW n \in 0..Len(entries), db' = db \o SubSeq(entries, 1, n)
        PROVE  /\ CopiesOf(db', e) <= CopiesOf(db, e) + (IF e \in ToBeInserted THEN 1 ELSE 0)
               /\ CopiesOf(db', e) \in Nat
    BY <1>1, <2>1, <2>3, CopiesConcat
  <2>4. CASE db' = db \o entries /\ pc' = succ
    <3>1. Len(entries) \in 0..Len(entries) /\ SubSeq(entries, 1, Len(entries)) = entries
      BY <1>1
    <3>2. /\ CopiesOf(db', e) <= CopiesOf(db, e) + (IF e \in ToBeInserted THEN 1 ELSE 0)
          /\ CopiesOf(db', e) \in Nat
      BY <2>3, <2>4, <3>1
    <3>3. e \notin ToBeInserted'
      BY <1>7, <2>4 DEF ToBeInserted
    <3>4. QED BY <1>1, <1>3, <1>4, <1>5, <3>2, <3>3
  <2>5. CASE Fault /\ \E n \in 0..Len(entries) : db' = db \o SubSeq(entries, 1, n)
    <3>1. /\ CopiesOf(db', e) <= CopiesOf(db, e) + (IF e \in ToBeInserted THEN 1 ELSE 0)
          /\ CopiesOf(db', e) \in Nat /\ faults' = faults + 1
      BY <2>3, <2>5 DEF Fault
    <3>2. e \in ToBeInserted' => e \in ToBeInserted
      BY <2>1 DEF ToBeInserted
    <3>3. QED BY <1>1, <1>3, <1>4, <3>1, <3>2
  <2>6. QED BY <1>7, <2>2, <2>4, <2>5 DEF AddLogEntries
<1>8. CASE Tick \/ (FinalSave /\ AddLogEntries("finalsync", "failed"))
  BY <1>7, <1>8 DEF Tick, FinalSave
<1>9. CASE FinalSave /\ ~AddLogEntries("finalsync", "failed")
  <2>1. UNCHANGED <<db, faults, entries>> /\ pc' = "done"
    BY <1>9 DEF FinalSave
  <2>2. QED BY <1>6, <2>1 DEF ToBeInserted
<1>10. CASE Receive
  <2>1. UNCHANGED <<db, pc>> /\ pc = "select" /\ entryChan # <<>>
    BY <1>10 DEF Receive
  <2>2. CASE UNCHANGED entries
    BY <1>6, <2>1, <2>2 DEF ToBeInserted
  <2>3. CASE entries' = Append(entries, Head(entryChan))
    <3>1. /\ Head(entryChan) \in Entries /\ Head(entryChan) \in ToSet(entryChan)
          /\ ToSet(entries') = ToSet(entries) \cup {Head(entryChan)}
      <4>1. entryChan \in Seq(Entries)
        BY DEF SaverInv, TypeOK
      <4>2. Head(entryChan) \in Entries /\ Head(entryChan) \in ToSet(entryChan)
        BY <2>1, <4>1, ToSetTail
      <4>3. QED BY <1>1, <2>3, <4>2, ToSetAppend
    <3>2. Head(entryChan) \notin ToSet(db)
      BY <3>1, WrittenOnce DEF SentOnce
    <3>3. CASE e = Head(entryChan)
      <4>1. {i \in 1..Len(db) : db[i] = e} = {}
        BY <1>1, <3>2, <3>3 DEF ToSet
      <4>2. CopiesOf(db, e) = 0
        BY <4>1, FS_EmptySet DEF CopiesOf
      <4>3. QED BY <1>1, <1>5, <2>1, <4>2
    <3>4. CASE e # Head(entryChan)
      <4>1. e \in ToBeInserted' => e \in ToBeInserted
        BY <2>1, <3>1, <3>4 DEF ToBeInserted
      <4>2. QED BY <1>6, <2>1, <4>1
    <3>5. QED BY <3>3, <3>4
  <2>4. QED BY <1>10, <2>2, <2>3 DEF Receive
<1>11. CASE Sync \/ FinalSync
  <2>1. UNCHANGED db
    BY <1>11 DEF Sync, FinalSync
  <2>2. CASE SyncsFail
    BY <1>6, <2>1, <2>2 DEF SyncsFail, Fault
  <2>3. CASE Sync /\ entries' = <<>>
    BY <1>6, <2>1, <2>3 DEF ToBeInserted, ToSet
  <2>4. CASE FinalSync /\ pc' = "done"
    BY <1>6, <2>1, <2>4 DEF ToBeInserted
  <2>5. QED BY <1>11, <2>2, <2>3, <2>4 DEF Sync, FinalSync
<1>12. CASE UNCHANGED <<db, entries>> /\ (UNCHANGED pc \/ CtxDone)
  BY <1>6, <1>12 DEF ToBeInserted, CtxDone
<1>13. QED
  BY <1>8, <1>9, <1>10, <1>11, <1>12
     DEF Next, vars, Send, CtxDone, StopCancel, StopClose, Terminating

\* What is written after a malformed line stays in the batch with it.
LEMMA MalformedKept ==
  ASSUME SaverInv, SentOnce, NothingStoredAfterMalformed, [Next]_vars
  PROVE  NothingStoredAfterMalformed'
<1>1. /\ db \in Seq(Entries) /\ entries \in Seq(Entries) /\ written \in Seq(Entries)
      /\ Saved \in Nat /\ Saved + Len(entries) = Len(written)
      /\ \A i \in 1..Len(entries) : entries[i] = written[Saved + i]
      /\ Len(written) \in Nat /\ Len(entries) \in Nat
      /\ ToSet(db) \subseteq ToSet(written)
  BY WrittenOnce DEF SaverInv, TypeOK, BatchIsSuffix, Saved
<1>2. \A i \in 1..Len(written) : written[i] \in Malformed =>
         \A j \in i..Len(written) : written[j] \notin ToSet(db)
  BY DEF NothingStoredAfterMalformed
<1>3. ASSUME NEW i \in 1..Len(written), written[i] \in Malformed
      PROVE  written[i] \in ToSet(entries)
  <2>1. PICK k \in Saved..Len(written) : ToSet(db) = FirstWritten(k)
    BY DEF SaverInv, StoredUpToBatch
  <2>2. i \in i..Len(written) /\ written[i] \notin FirstWritten(k)
    BY <1>1, <1>2, <1>3, <2>1
  <2>3. i > Saved
    BY <1>1, <2>1, <2>2 DEF FirstWritten
  <2>4. i - Saved \in 1..Len(entries) /\ Saved + (i - Saved) = i
    BY <1>1, <2>3
  <2>5. entries[i - Saved] = written[i]
    BY <1>1, <2>4
  <2>6. DOMAIN entries = 1..Len(entries)
    BY <1>1
  <2>7. QED BY <2>4, <2>5, <2>6 DEF ToSet
<1>4. ASSUME NEW succ, NEW fail, AddLogEntries(succ, fail) PROVE NothingStoredAfterMalformed'
  <2>1. UNCHANGED written
    BY <1>4 DEF AddLogEntries
  <2>2. CASE ToSet(entries) \cap Malformed = {}
    BY <1>3, <2>1, <2>2 DEF NothingStoredAfterMalformed
  <2>3. CASE UNCHANGED db
    BY <1>2, <2>1, <2>3 DEF NothingStoredAfterMalformed
  <2>4. QED BY <1>4, <2>2, <2>3 DEF AddLogEntries
<1>5. CASE Receive
  <2> DEFINE h == Head(entryChan)
  <2>1. /\ entryChan # <<>> /\ UNCHANGED db
        /\ written' = Append(written, h) \/ UNCHANGED written
    BY <1>5 DEF Receive
  <2>2. h \in Entries /\ h \notin ToSet(db)
    <3>1. entryChan \in Seq(Entries)
      BY DEF SaverInv, TypeOK
    <3>2. h \in Entries /\ h \in ToSet(entryChan)
      BY <2>1, <3>1, ToSetTail
    <3>3. QED BY <1>1, <3>2 DEF SentOnce
  <2> HIDE DEF h
  <2>3. CASE UNCHANGED written
    BY <1>2, <2>1, <2>3 DEF NothingStoredAfterMalformed
  <2>4. CASE written' = Append(written, h)
    <3>1. /\ Len(written') = Len(written) + 1
          /\ \A i \in 1..Len(written) : written'[i] = written[i]
          /\ written'[Len(written) + 1] = h
      BY <1>1, <2>2, <2>4
    <3>2. ASSUME NEW i \in 1..Len(written'), written'[i] \in Malformed,
                 NEW j \in i..Len(written')
          PROVE  written'[j] \notin ToSet(db)
      <4>1. CASE j = Len(written) + 1
        BY <2>2, <3>1, <4>1
      <4>2. CASE j # Len(written) + 1
        <5>1. i \in 1..Len(written) /\ j \in i..Len(written) /\ j \in 1..Len(written)
          BY <1>1, <3>1, <3>2, <4>2
        <5>2. QED BY <1>2, <3>1, <3>2, <5>1
      <4>3. QED BY <4>1, <4>2
    <3>3. QED BY <2>1, <3>2 DEF NothingStoredAfterMalformed
  <2>5. QED BY <2>1, <2>3, <2>4
<1>6. CASE UNCHANGED <<written, db>>
  BY <1>2, <1>6 DEF NothingStoredAfterMalformed
<1>7. CASE Tick \/ (FinalSave /\ AddLogEntries("finalsync", "failed"))
  BY <1>4, <1>7 DEF Tick
<1>8. QED
  BY <1>5, <1>6, <1>7
     DEF Next, vars, Send, Sync, CtxDone, FinalSave, FinalSync, StopCancel, StopClose,
         Terminating

\* An entry is written once, copied at most once for each failure, and kept out of the
\* database by a malformed one before it.
THEOREM CopiesInvariant == Spec => []CopiesInv
<1>1. Init => CopiesInv
  <2> SUFFICES ASSUME Init PROVE CopiesInv
    OBVIOUS
  <2>1. ToSet(written) = {} /\ ToSet(entryChan) = {} /\ ToSet(entries) = {}
    BY DEF Init, ToSet
  <2>2. SentOnce
    BY <2>1 DEF Init, SentOnce, IsInjective
  <2>3. CopiesCounted
    <3>1. ASSUME NEW e PROVE Copies(e) = 0
      <4>1. {i \in 1..Len(db) : db[i] = e} = {}
        BY DEF Init
      <4>2. QED BY <4>1, FS_EmptySet DEF Copies
    <3>2. QED BY <3>1 DEF Init, CopiesCounted
  <2>4. NothingStoredAfterMalformed
    BY DEF Init, NothingStoredAfterMalformed
  <2>5. QED BY <2>2, <2>3, <2>4 DEF CopiesInv
<1>2. SaverInv /\ CopiesInv /\ [Next]_vars => CopiesInv'
  <2> SUFFICES ASSUME SaverInv, CopiesInv, [Next]_vars PROVE CopiesInv'
    OBVIOUS
  <2>1. SentOnce'
    BY SentOnceKept DEF CopiesInv, SaverInv
  <2>2. CopiesCounted'
    BY CopiesKept DEF CopiesInv
  <2>3. NothingStoredAfterMalformed'
    BY MalformedKept DEF CopiesInv
  <2>4. QED BY <2>1, <2>2, <2>3 DEF CopiesInv
<1>3. QED BY <1>1, <1>2, SaverInvariant, PTL DEF Spec

\* A retry inserts the entries of a batch again, but only once for each failure.
THEOREM FaultsMakeDuplicates == Spec => []DuplicatesOnlyByFaults
<1>1. SaverInv /\ CopiesInv => DuplicatesOnlyByFaults
  <2> SUFFICES ASSUME SaverInv, CopiesInv, NEW e \in Entries
               PROVE  Copies(e) <= 1 + faults
    BY DEF DuplicatesOnlyByFaults
  <2>1. Copies(e) <= faults + (IF e \in ToBeInserted THEN 0 ELSE 1) /\ faults \in Nat
    BY DEF CopiesInv, CopiesCounted, SaverInv, TypeOK
  <2>2. Copies(e) \in Nat
    <3>1. db \in Seq(Entries) /\ entries \in Seq(Entries) /\ IsInjective(entries)
      BY WrittenOnce DEF SaverInv, TypeOK, CopiesInv
    <3>2. Len(entries) \in Nat /\ 0 \in 0..Len(entries)
      BY <3>1
    <3>3. CopiesOf(db, e) \in Nat
      BY <3>1, <3>2, CopiesConcat
    <3>4. QED BY <3>3 DEF Copies, CopiesOf
  <2>3. QED BY <2>1, <2>2
<1>2. QED BY <1>1, CopiesInvariant, SaverInvariant, PTL

\* A malformed line and all that is written after it are not stored.
THEOREM NothingAfterMalformed == Spec => []NothingStoredAfterMalformed
<1>1. CopiesInv => NothingStoredAfterMalformed
  BY DEF CopiesInv
<1>2. QED BY <1>1, CopiesInvariant, PTL

-----------------------------------------------------------------------------
\* An insert, of the whole batch or of its beginning, leaves what was stored where it
\* was and puts the entries of the batch after it.
LEMMA InsertKeepsPredecessors ==
  ASSUME SaverInv, SentOnce, PredecessorsFirst, written' = written,
         NEW n \in 0..Len(entries), db' = db \o SubSeq(entries, 1, n)
  PROVE  PredecessorsFirst'
<1>1. /\ db \in Seq(Entries) /\ entries \in Seq(Entries) /\ written \in Seq(Entries)
      /\ Saved \in Nat /\ Saved + Len(entries) = Len(written)
      /\ \A i \in 1..Len(entries) : entries[i] = written[Saved + i]
      /\ Len(written) \in Nat /\ Len(entries) \in Nat /\ Len(db) \in Nat
  BY DEF SaverInv, TypeOK, BatchIsSuffix, Saved
<1>2. /\ Len(db') = Len(db) + n
      /\ \A p \in 1..Len(db) : db'[p] = db[p]
      /\ \A m \in 1..n : db'[Len(db) + m] = entries[m]
  BY <1>1
<1>3. \A i, j \in 1..Len(written) : written[i] = written[j] => i = j
  <2>1. IsInjective(written) /\ DOMAIN written = 1..Len(written)
    BY <1>1 DEF SentOnce
  <2>2. QED BY <2>1 DEF IsInjective
<1>4. \A j \in 1..Saved : \E q \in 1..Len(db) : db[q] = written[j]
  <2>1. PICK k \in Saved..Len(written) : ToSet(db) = FirstWritten(k)
    BY DEF SaverInv, StoredUpToBatch
  <2>2. \A j \in 1..Saved : written[j] \in ToSet(db)
    BY <1>1, <2>1 DEF FirstWritten
  <2>3. DOMAIN db = 1..Len(db)
    BY <1>1
  <2>4. QED BY <2>2, <2>3 DEF ToSet
<1> SUFFICES ASSUME NEW p \in 1..Len(db'), NEW k \in 1..Len(written'),
                    db'[p] = written'[k], NEW j \in 1..k
             PROVE  \E q \in 1..p : db'[q] = written'[j]
  BY DEF PredecessorsFirst
<1> SUFFICES \E q \in 1..p : db'[q] = written[j]
  OBVIOUS
<1>0. k \in 1..Len(written) /\ db'[p] = written[k]
  OBVIOUS
<1>5. CASE p \in 1..Len(db)
  <2>1. PICK q \in 1..p : db[q] = written[j]
    BY <1>0, <1>2, <1>5 DEF PredecessorsFirst
  <2>2. q \in 1..Len(db)
    BY <1>1, <1>5
  <2>3. QED BY <1>2, <2>1, <2>2
<1>6. CASE p \notin 1..Len(db)
  <2>1. PICK m \in 1..n : p = Len(db) + m
    <3>1. p - Len(db) \in 1..n /\ p = Len(db) + (p - Len(db))
      BY <1>1, <1>2, <1>6
    <3>2. QED BY <3>1
  <2>2. m \in 1..Len(entries) /\ Saved + m \in 1..Len(written)
    BY <1>1, <2>1
  <2>3. written[k] = written[Saved + m]
    BY <1>0, <1>1, <1>2, <2>1, <2>2
  <2>4. k = Saved + m
    BY <1>0, <1>3, <2>2, <2>3
  <2>5. CASE j <= Saved
    <3>1. PICK q \in 1..Len(db) : db[q] = written[j]
      BY <1>1, <1>4, <2>5
    <3>2. q \in 1..p /\ db'[q] = db[q]
      BY <1>1, <1>2, <2>1
    <3>3. QED BY <3>1, <3>2
  <2>6. CASE j > Saved
    <3>1. j - Saved \in 1..n /\ j - Saved \in 1..Len(entries) /\ Saved + (j - Saved) = j
      BY <1>1, <2>1, <2>4, <2>6
    <3>2. db'[Len(db) + (j - Saved)] = written[j]
      BY <1>1, <1>2, <3>1
    <3>3. Len(db) + (j - Saved) \in 1..p
      BY <1>1, <2>1, <2>4, <3>1
    <3>4. QED BY <3>2, <3>3
  <2>7. QED BY <1>1, <2>5, <2>6
<1>7. QED BY <1>5, <1>6

\* A line that is received comes after everything stored.
LEMMA PredecessorsKept ==
  ASSUME SaverInv, SentOnce, PredecessorsFirst, [Next]_vars
  PROVE  PredecessorsFirst'
<1>1. /\ db \in Seq(Entries) /\ entries \in Seq(Entries) /\ written \in Seq(Entries)
      /\ Len(written) \in Nat /\ Len(entries) \in Nat
      /\ DOMAIN db = 1..Len(db)
      /\ ToSet(db) \subseteq ToSet(written)
  BY WrittenOnce DEF SaverInv, TypeOK
<1>2. ASSUME NEW succ, NEW fail, AddLogEntries(succ, fail) PROVE PredecessorsFirst'
  <2>1. UNCHANGED written
    BY <1>2 DEF AddLogEntries
  <2>2. CASE UNCHANGED db
    BY <2>1, <2>2 DEF PredecessorsFirst
  <2>3. CASE db' = db \o entries
    <3>1. Len(entries) \in 0..Len(entries) /\ SubSeq(entries, 1, Len(entries)) = entries
      BY <1>1
    <3>2. QED BY <2>1, <2>3, <3>1, InsertKeepsPredecessors
  <2>4. CASE \E n \in 0..Len(entries) : db' = db \o SubSeq(entries, 1, n)
    BY <2>1, <2>4, InsertKeepsPredecessors
  <2>5. QED BY <1>2, <2>2, <2>3, <2>4 DEF AddLogEntries
<1>3. CASE Receive
  <2> DEFINE h == Head(entryChan)
  <2>1. /\ entryChan # <<>> /\ UNCHANGED db
        /\ written' = Append(written, h) \/ UNCHANGED written
    BY <1>3 DEF Receive
  <2>2. h \in Entries /\ h \notin ToSet(db)
    <3>1. entryChan \in Seq(Entries)
      BY DEF SaverInv, TypeOK
    <3>2. h \in Entries /\ h \in ToSet(entryChan)
      BY <2>1, <3>1, ToSetTail
    <3>3. QED BY <1>1, <3>2 DEF SentOnce
  <2> HIDE DEF h
  <2>3. CASE UNCHANGED written
    BY <2>1, <2>3 DEF PredecessorsFirst
  <2>4. CASE written' = Append(written, h)
    <3>1. /\ Len(written') = Len(written) + 1
          /\ \A i \in 1..Len(written) : written'[i] = written[i]
          /\ written'[Len(written) + 1] = h
      BY <1>1, <2>2, <2>4
    <3> SUFFICES ASSUME NEW p \in 1..Len(db), NEW k \in 1..Len(written'),
                        db[p] = written'[k], NEW j \in 1..k
                 PROVE  \E q \in 1..p : db[q] = written'[j]
      BY <2>1 DEF PredecessorsFirst
    <3>2. db[p] \in ToSet(db)
      BY <1>1 DEF ToSet
    <3>3. k \in 1..Len(written) /\ j \in 1..Len(written)
      BY <1>1, <2>2, <3>1, <3>2
    <3>4. QED BY <3>1, <3>3 DEF PredecessorsFirst
  <2>5. QED BY <2>1, <2>3, <2>4
<1>4. CASE UNCHANGED <<written, db>>
  BY <1>4 DEF PredecessorsFirst
<1>5. CASE Tick \/ (FinalSave /\ AddLogEntries("finalsync", "failed"))
  BY <1>2, <1>5 DEF Tick
<1>6. QED
  BY <1>3, <1>4, <1>5
     DEF Next, vars, Send, Sync, CtxDone, FinalSave, FinalSync, StopCancel, StopClose,
         Terminating

\* However often a batch is inserted again, each copy of an entry in the collection has
\* all that was written before the entry at smaller _ids.
THEOREM PredecessorsComeFirst == Spec => []PredecessorsFirst
<1>1. Init => PredecessorsFirst
  BY DEF Init, PredecessorsFirst
<1>2. SaverInv /\ CopiesInv /\ PredecessorsFirst /\ [Next]_vars => PredecessorsFirst'
  BY PredecessorsKept DEF CopiesInv
<1>3. QED BY <1>1, <1>2, SaverInvariant, CopiesInvariant, PTL DEF Spec
=============================================================================
