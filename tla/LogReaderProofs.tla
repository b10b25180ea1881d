--------------------------- MODULE LogReaderProofs ---------------------------
(* Theorems about LogReader, for every number of lines and their times, and  *)
(* every number of faults and of frames that are cut.                        *)
EXTENDS LogReader, WellFoundedInduction, TLAPS

\* A set of natural numbers has a least one.
LEMMA LeastNatural ==
  ASSUME NEW T \in SUBSET Nat, T # {}
  PROVE  \E m \in T : \A k \in T : m <= k
<1> DEFINE R == OpToRel(<, Nat)
<1>1. IsWellFoundedOn(R, Nat)
  BY NatLessThanWellFounded
<1>2. PICK m \in T : \A k \in T : <<k, m>> \notin R
  BY <1>1, WFMin
<1>3. \A k \in T : k < m => <<k, m>> \in R
  BY DEF OpToRel
<1>4. \A k \in T : ~(k < m)
  BY <1>2, <1>3
<1>5. \A k \in T : k < m \/ m <= k
  OBVIOUS
<1>6. QED BY <1>4, <1>5

\* The times of the lines are positive and do not decrease.
LEMMA StampFacts ==
  /\ Len(Stamp) \in Nat
  /\ \A k \in 1..Len(Stamp) : Stamp[k] \in Nat \ {0}
  /\ \A j, k \in 1..Len(Stamp) : j <= k => Stamp[j] <= Stamp[k]
BY StampsAssumption

\* What is not older than a time begins with FirstFrom.
LEMMA FirstFromFacts ==
  ASSUME NEW t \in Nat
  PROVE  /\ FirstFrom(t) \in 1..(Len(Stamp) + 1)
         /\ \A k \in 1..Len(Stamp) : Stamp[k] >= t => FirstFrom(t) <= k
         /\ \A k \in FirstFrom(t)..Len(Stamp) : Stamp[k] >= t
<1> DEFINE First(k) == /\ k <= Len(Stamp) => Stamp[k] >= t
                       /\ \A j \in 1..(k - 1) : Stamp[j] < t
           T == {k \in 1..(Len(Stamp) + 1) : k <= Len(Stamp) => Stamp[k] >= t}
<1>1. T \in SUBSET Nat /\ Len(Stamp) + 1 \in T
  BY StampFacts
<1>2. PICK m \in T : \A k \in T : m <= k
  BY <1>1, LeastNatural
<1>3. \A j \in 1..(m - 1) : Stamp[j] < t
  <2> SUFFICES ASSUME NEW j \in 1..(m - 1) PROVE Stamp[j] < t
    OBVIOUS
  <2>1. j \in 1..Len(Stamp) /\ j \notin T
    BY <1>2, StampFacts
  <2>2. QED BY <2>1, StampFacts
<1>4. \E k \in 1..(Len(Stamp) + 1) : First(k)
  BY <1>2, <1>3
<1>5. FirstFrom(t) \in 1..(Len(Stamp) + 1) /\ First(FirstFrom(t))
  BY <1>4 DEF FirstFrom
<1> HIDE DEF T
<1> DEFINE f == FirstFrom(t)
<1> HIDE DEF f
<1>6. f \in 1..(Len(Stamp) + 1) /\ First(f)
  BY <1>5 DEF f
<1>7. ASSUME NEW k \in 1..Len(Stamp), Stamp[k] >= t PROVE f <= k
  BY <1>6, <1>7, StampFacts
<1>8. ASSUME NEW k \in f..Len(Stamp) PROVE Stamp[k] >= t
  BY <1>6, StampFacts
<1>9. QED BY <1>6, <1>7, <1>8 DEF f

\* What is given to the callback is added to the lines, unless it is not a line.
LEMMA LinesAppend ==
  ASSUME delivered \in Seq(0..Len(Stamp)), NEW k \in 0..Len(Stamp),
         delivered' = Append(delivered, k)
  PROVE  /\ delivered' \in Seq(0..Len(Stamp))
         /\ Len(delivered') = Len(delivered) + 1
         /\ \A p \in 1..Len(delivered) : delivered'[p] = delivered[p]
         /\ delivered'[Len(delivered) + 1] = k
         /\ Lines' = IF k = NoLine THEN Lines ELSE Lines \cup {k}
<1>1. /\ Append(delivered, k) \in Seq(0..Len(Stamp))
      /\ Len(Append(delivered, k)) = Len(delivered) + 1
      /\ \A p \in 1..Len(delivered) : Append(delivered, k)[p] = delivered[p]
      /\ Append(delivered, k)[Len(delivered) + 1] = k
      /\ DOMAIN Append(delivered, k) = 1..(Len(delivered) + 1)
      /\ DOMAIN delivered = 1..Len(delivered) /\ Len(delivered) \in Nat
  OBVIOUS
<1>2. ToSet(Append(delivered, k)) = ToSet(delivered) \cup {k}
  <2>1. \A p \in 1..(Len(delivered) + 1) :
           p = Len(delivered) + 1 \/ p \in 1..Len(delivered)
    BY <1>1
  <2>2. ToSet(Append(delivered, k)) \subseteq ToSet(delivered) \cup {k}
    BY <1>1, <2>1 DEF ToSet
  <2>3. \A p \in 1..Len(delivered) : p \in 1..(Len(delivered) + 1)
    BY <1>1
  <2>4. Len(delivered) + 1 \in 1..(Len(delivered) + 1)
    BY <1>1
  <2>5. ToSet(delivered) \cup {k} \subseteq ToSet(Append(delivered, k))
    BY <1>1, <2>3, <2>4 DEF ToSet
  <2>6. QED BY <2>2, <2>5
<1>3. QED BY <1>1, <1>2 DEF Lines

\* The types are kept.
THEOREM ReaderTypes == Spec => []TypeOK
<1>1. Init => TypeOK
  <2> SUFFICES ASSUME Init PROVE TypeOK
    OBVIOUS
  <2>1. /\ printed \in 0..Len(Stamp) /\ since \in Nat /\ timestamp \in Nat
        /\ next \in 1..(Len(Stamp) + 1) /\ barren \in Nat
        /\ cuts \in 0..MaxCuts /\ faults \in 0..MaxFaults
    BY StampFacts, StampsAssumption DEF Init, Empty
  <2>2. delivered \in Seq(0..Len(Stamp))
    BY DEF Init
  <2>3. QED BY <2>1, <2>2 DEF Init, TypeOK
<1>2. ASSUME TypeOK, [Next]_vars PROVE TypeOK'
  <2> USE StampFacts, StampsAssumption DEF TypeOK, stream
  <2>1. ASSUME NEW k \in 0..Len(Stamp), delivered' = Append(delivered, k)
        PROVE  delivered' \in Seq(0..Len(Stamp))
    BY <1>2, <2>1, LinesAppend
  <2>2. CASE PrintLine
    BY <1>2, <2>2 DEF PrintLine, reader
  <2>3. CASE BoxEnds
    BY <1>2, <2>3 DEF BoxEnds, reader
  <2>4. CASE Cancel
    BY <1>2, <2>4 DEF Cancel, reader
  <2>5. CASE Connect
    BY <1>2, <2>5, FirstFromFacts DEF Connect, Served, Garbage, Empty
  <2>6. CASE ConnectFails
    BY <1>2, <2>6 DEF ConnectFails, End, Fault
  <2>7. CASE Loop
    BY <1>2, <2>7 DEF Loop, End
  <2>8. CASE Aborted
    BY <1>2, <2>8 DEF Aborted, End
  <2>9. CASE Deliver
    BY <1>2, <2>1, <2>9 DEF Deliver, HasFrame, Callback
  <2>10. CASE Cut
    <3>1. next \in 0..Len(Stamp) /\ next + 1 \in 1..(Len(Stamp) + 1)
      BY <1>2, <2>10 DEF Cut, HasFrame
    <3>2. cuts' \in 0..MaxCuts
      BY <1>2, <2>10 DEF Cut
    <3>3. CASE /\ pc' = "done" /\ result' = "panic"
               /\ UNCHANGED <<printed, box, cancelled, since, timestamp, stream,
                              delivered, barren>>
      BY <1>2, <2>10, <3>2, <3>3 DEF Cut
    <3>4. CASE /\ Callback(next, Stamp[next])
               /\ next' = next + 1 /\ aligned' = FALSE /\ UNCHANGED over
      <4>1. delivered' \in Seq(0..Len(Stamp)) /\ Stamp[next] \in Nat
        BY <1>2, <2>1, <2>10, <3>1, <3>4 DEF Cut, HasFrame, Callback
      <4>2. QED BY <1>2, <2>10, <3>1, <3>2, <3>4, <4>1 DEF Cut, Callback
    <3>5. QED BY <2>10, <3>3, <3>4 DEF Cut
  <2>11. CASE Misread
    <3>1. CASE End("panic")
      BY <1>2, <2>11, <3>1 DEF Misread, End
    <3>2. CASE /\ Callback(NoLine, Garbage)
               /\ next' \in next..(printed + 1)
               /\ aligned' \in BOOLEAN /\ UNCHANGED <<over, cuts>>
      <4>1. delivered' \in Seq(0..Len(Stamp)) /\ next' \in 1..(Len(Stamp) + 1)
        BY <1>2, <2>1, <3>2 DEF Callback, NoLine
      <4>2. QED BY <1>2, <2>11, <3>2, <4>1 DEF Misread, Callback
    <3>3. QED BY <2>11, <3>1, <3>2 DEF Misread
  <2>12. CASE Grabbing
    BY <1>2, <2>1, <2>12 DEF Grabbing, Callback, NoLine, Fault
  <2>13. CASE Lost
    BY <1>2, <2>13 DEF Lost, Fault
  <2>14. CASE Eof \/ EofWithLine
    BY <1>2, <2>14 DEF Eof, EofWithLine, End
  <2>15. CASE UNCHANGED vars
    BY <1>2, <2>15 DEF vars
  <2>16. QED
    BY <1>2, <2>2, <2>3, <2>4, <2>5, <2>6, <2>7, <2>8, <2>9, <2>10, <2>11, <2>12, <2>13,
       <2>14, <2>15 DEF Next, Reading, Terminating
<1>3. QED BY <1>1, <1>2, PTL DEF Spec

\* What a step does to a reader that has read every frame whole: it delivers the next
\* line, it is told of an error, it connects, it loses its connection, or no line, no
\* time and no position of the stream change.
LEMMA WholeSteps ==
  ASSUME TypeOK, aligned, cuts' = 0, [Next]_vars
  PROVE  /\ cuts = 0 /\ aligned'
         /\ \/ Connect \/ Deliver \/ Grabbing \/ Lost
            \/ /\ UNCHANGED <<delivered, barren, since, timestamp, next>>
               /\ printed' >= printed /\ printed' \in 0..Len(Stamp)
               /\ pc' \in {"loop", "read"} => pc \in {"loop", "read"}
               /\ pc' = "connect" => pc = "connect"
<1> USE DEF stream
<1>0. printed \in Nat /\ Len(Stamp) \in Nat /\ printed <= Len(Stamp) /\ cuts \in Nat
  BY StampFacts, StampsAssumption DEF TypeOK
<1> USE <1>0
<1>1. CASE PrintLine
  BY <1>1 DEF PrintLine, reader
<1>2. CASE BoxEnds \/ Cancel
  <2>1. UNCHANGED <<delivered, barren, since, timestamp, next, aligned, printed, pc, cuts>>
    BY <1>2 DEF BoxEnds, Cancel, reader
  <2>2. QED BY <2>1
<1>3. CASE ConnectFails \/ Loop \/ Aborted \/ Eof \/ EofWithLine
  <2>1. UNCHANGED <<delivered, barren, since, timestamp, next, aligned, printed, cuts>>
    BY <1>3 DEF ConnectFails, Loop, Aborted, Eof, EofWithLine, End
  <2>2. pc' = "done" \/ (pc = "loop" /\ pc' = "read")
    BY <1>3 DEF ConnectFails, Loop, Aborted, Eof, EofWithLine, End
  <2>3. QED BY <2>1, <2>2
<1>4. CASE Connect \/ Grabbing \/ Lost
  BY <1>4 DEF Connect, Served, Grabbing, Lost, Callback
<1>5. CASE Deliver
  BY <1>5 DEF Deliver
<1>6. ~Cut
  <2>1. Cut => cuts' = cuts + 1
    BY DEF Cut
  <2>2. QED BY <2>1
<1>7. ~Misread
  BY DEF Misread
<1>8. CASE UNCHANGED vars
  BY <1>8 DEF vars
<1>9. QED
  BY <1>1, <1>2, <1>3, <1>4, <1>5, <1>6, <1>7, <1>8 DEF Next, Reading, Terminating

\* A reader that has lost no line loses none with its next step.
LEMMA AdjacentKept ==
  ASSUME TypeOK, TypeOK', NextIsAdjacent, [Next]_vars
  PROVE  NextIsAdjacent'
<1> USE StampFacts DEF Empty, Garbage, NoLine
<1> SUFFICES ASSUME cuts' = 0
             PROVE  /\ aligned'
                    /\ \E m \in 0..printed' :
                          /\ Lines' = 1..m
                          /\ {since', timestamp'} \subseteq
                                {Empty, Garbage} \cup {Stamp[k] : k \in 1..m}
                          /\ pc' \in {"loop", "read"} => next' <= m + 1
  BY DEF NextIsAdjacent
<1>1. cuts = 0 /\ aligned
  <2>1. cuts' >= cuts /\ cuts \in Nat
    BY StampsAssumption
       DEF TypeOK, Next, vars, Reading, Terminating, PrintLine, BoxEnds, Cancel, reader,
           Connect, Served, ConnectFails, Loop, Aborted, Deliver, Cut, Misread, Grabbing,
           Lost, Eof, EofWithLine, End, Callback
  <2>2. QED BY <2>1 DEF NextIsAdjacent
<1>2. PICK m \in 0..printed :
         /\ Lines = 1..m
         /\ {since, timestamp} \subseteq {Empty, Garbage} \cup {Stamp[k] : k \in 1..m}
         /\ pc \in {"loop", "read"} => next <= m + 1
  BY <1>1 DEF NextIsAdjacent
<1>3. /\ printed \in 0..Len(Stamp) /\ next \in 1..(Len(Stamp) + 1) /\ m \in Nat
      /\ delivered \in Seq(0..Len(Stamp)) /\ since \in Nat \cup {Garbage}
      /\ m \in 0..Len(Stamp)
  BY <1>2 DEF TypeOK
<1>4. aligned'
  BY <1>1, WholeSteps
<1>5. CASE Connect
  <2>1. /\ UNCHANGED <<printed, since, delivered>> /\ timestamp' = Empty
        /\ next' = FirstFrom(since) /\ since \in Nat
    BY <1>3, <1>5 DEF Connect, Served
  <2>2. FirstFrom(since) <= m + 1
    <3> DEFINE f == FirstFrom(since)
    <3>0. f \in 1..(Len(Stamp) + 1)
          /\ \A k \in 1..Len(Stamp) : Stamp[k] >= since => f <= k
      BY <2>1, FirstFromFacts
    <3> SUFFICES f <= m + 1
      OBVIOUS
    <3> HIDE DEF f
    <3>1. CASE since = Empty
      <4>1. CASE Len(Stamp) = 0
        BY <1>3, <3>0, <4>1
      <4>2. CASE Len(Stamp) # 0
        <5>1. 1 \in 1..Len(Stamp) /\ Stamp[1] >= since
          BY <3>1, <4>2
        <5>2. QED BY <1>3, <3>0, <5>1
      <4>3. QED BY <4>1, <4>2
    <3>2. CASE since # Empty
      <4>1. PICK k \in 1..m : since = Stamp[k]
        BY <1>2, <2>1, <3>2
      <4>2. k \in 1..Len(Stamp) /\ Stamp[k] >= since
        BY <1>3, <4>1, <2>1
      <4>3. QED BY <1>3, <3>0, <4>1, <4>2
    <3>3. QED BY <3>1, <3>2
  <2>3. Lines' = Lines
    BY <2>1 DEF Lines
  <2>4. QED BY <1>2, <1>4, <2>1, <2>2, <2>3
<1>6. CASE Deliver
  <2>1. /\ next <= printed /\ next \in 1..Len(Stamp) /\ pc = "read"
        /\ delivered' = Append(delivered, next) /\ next' = next + 1
        /\ timestamp' = Stamp[next] /\ UNCHANGED <<printed, since>>
    BY <1>3, <1>6 DEF Deliver, HasFrame, Callback
  <2>2. Lines' = Lines \cup {next}
    BY <1>3, <2>1, LinesAppend
  <2> DEFINE n == IF next = m + 1 THEN m + 1 ELSE m
  <2>3. n \in 0..printed' /\ m <= n /\ next \in 1..n
    BY <1>2, <1>3, <2>1
  <2>4. Lines' = 1..n
    BY <1>2, <1>3, <2>1, <2>2
  <2>5. {since', timestamp'} \subseteq {Empty, Garbage} \cup {Stamp[k] : k \in 1..n}
    <3>1. timestamp' \in {Stamp[k] : k \in 1..n}
      BY <2>1, <2>3
    <3>2. {Stamp[k] : k \in 1..m} \subseteq {Stamp[k] : k \in 1..n}
      BY <1>3, <2>3
    <3>3. since' \in {Empty, Garbage} \cup {Stamp[k] : k \in 1..n}
      BY <1>2, <2>1, <3>2
    <3>4. QED BY <3>1, <3>3
  <2>6. next' <= n + 1
    BY <1>3, <2>1, <2>3
  <2> HIDE DEF n
  <2>7. QED BY <1>4, <2>3, <2>4, <2>5, <2>6
<1>7. CASE Grabbing
  <2>1. /\ delivered' = Append(delivered, NoLine) /\ timestamp' = Garbage /\ pc = "read"
        /\ UNCHANGED <<printed, since, next>>
    BY <1>7 DEF Grabbing, Callback
  <2>2. Lines' = Lines
    BY <1>3, <2>1, LinesAppend
  <2>3. QED BY <1>2, <1>4, <2>1, <2>2
<1>8. CASE Lost
  <2>1. /\ UNCHANGED <<delivered, printed, timestamp>> /\ since' = timestamp
        /\ pc' = "connect"
    BY <1>8 DEF Lost
  <2>2. Lines' = Lines
    BY <2>1 DEF Lines
  <2>3. QED BY <1>2, <1>4, <2>1, <2>2
<1>9. CASE /\ UNCHANGED <<delivered, barren, since, timestamp, next>>
           /\ printed' >= printed /\ printed' \in 0..Len(Stamp)
           /\ pc' \in {"loop", "read"} => pc \in {"loop", "read"}
           /\ pc' = "connect" => pc = "connect"
  <2>1. Lines' = Lines /\ m \in 0..printed'
    BY <1>3, <1>9 DEF Lines
  <2>2. QED BY <1>2, <1>4, <1>9, <2>1
<1>10. QED BY <1>1, <1>5, <1>6, <1>7, <1>8, <1>9, WholeSteps

\* With a connection that begins where it should, none of its lines is older than one
\* that has been delivered.
LEMMA NoOlderKept ==
  ASSUME TypeOK, TypeOK', NextIsAdjacent, NextIsNoOlder, [Next]_vars
  PROVE  NextIsNoOlder'
<1> USE StampFacts DEF Empty, Garbage, NoLine
<1> SUFFICES ASSUME barren' = 0, cuts' = 0
             PROVE  /\ pc' = "connect" /\ since' # Garbage => \A t \in Times' : t <= since'
                    /\ pc' \in {"loop", "read"} =>
                          /\ timestamp' \notin {Empty, Garbage} =>
                                \A t \in Times' : t <= timestamp'
                          /\ \A t \in Times' : \A k \in next'..Len(Stamp) : t <= Stamp[k]
  BY DEF NextIsNoOlder
<1>1. /\ barren = 0 /\ cuts = 0 /\ aligned
      /\ Lost => timestamp # Empty
  <2>1. cuts' >= cuts /\ cuts \in Nat
    BY StampsAssumption
       DEF TypeOK, Next, vars, Reading, Terminating, PrintLine, BoxEnds, Cancel, reader,
           Connect, Served, ConnectFails, Loop, Aborted, Deliver, Cut, Misread, Grabbing,
           Lost, Eof, EofWithLine, End, Callback
  <2>2. barren \in Nat
    BY DEF TypeOK
  <2>3. /\ barren' = barren \/ Lost
        /\ Lost => barren' = barren + (IF timestamp = Empty THEN 1 ELSE 0)
    BY DEF Next, vars, Reading, Terminating, PrintLine, BoxEnds, Cancel, reader, Connect,
           Served, ConnectFails, Loop, Aborted, Deliver, Cut, Misread, Grabbing, Lost, Eof,
           EofWithLine, End, Callback
  <2>4. cuts = 0
    BY <2>1
  <2>5. barren = 0 /\ (Lost => timestamp # Empty)
    BY <2>2, <2>3
  <2>6. QED BY <2>4, <2>5 DEF NextIsAdjacent
<1>2. /\ pc = "connect" /\ since # Garbage => \A t \in Times : t <= since
      /\ pc \in {"loop", "read"} =>
            /\ timestamp \notin {Empty, Garbage} => \A t \in Times : t <= timestamp
            /\ \A t \in Times : \A k \in next..Len(Stamp) : t <= Stamp[k]
  BY <1>1 DEF NextIsNoOlder
<1>3. /\ printed \in 0..Len(Stamp) /\ next \in 1..(Len(Stamp) + 1)
      /\ delivered \in Seq(0..Len(Stamp)) /\ since \in Nat \cup {Garbage}
      /\ Lines \subseteq 1..Len(Stamp)
  <2>1. PICK m \in 0..printed : Lines = 1..m
    BY <1>1 DEF NextIsAdjacent
  <2>2. QED BY <2>1 DEF TypeOK
<1>4. Times \subseteq Nat \ {0}
  BY <1>3 DEF Times
<1>5. UNCHANGED delivered => Times' = Times
  BY DEF Times, Lines
<1>6. CASE Connect
  <2>1. /\ UNCHANGED delivered /\ timestamp' = Empty /\ pc = "connect" /\ pc' = "loop"
        /\ next' = FirstFrom(since) /\ since \in Nat
    BY <1>3, <1>6 DEF Connect, Served
  <2>2. \A k \in next'..Len(Stamp) : k \in 1..Len(Stamp) /\ Stamp[k] >= since
    <3> DEFINE f == FirstFrom(since)
    <3>1. f \in 1..(Len(Stamp) + 1) /\ \A k \in f..Len(Stamp) : Stamp[k] >= since
      BY <2>1, FirstFromFacts
    <3>2. next' = f
      BY <2>1
    <3> HIDE DEF f
    <3>3. QED BY <3>1, <3>2
  <2>3. ASSUME NEW t \in Times', NEW k \in next'..Len(Stamp) PROVE t <= Stamp[k]
    <3>1. t <= since /\ t \in Nat
      <4>1. t \in Times /\ since # Garbage
        BY <1>5, <2>1, <2>3
      <4>2. QED BY <1>2, <1>4, <2>1, <4>1
    <3>2. k \in 1..Len(Stamp) /\ Stamp[k] >= since
      BY <2>2, <2>3
    <3>3. QED BY <2>1, <3>1, <3>2
  <2>4. QED BY <2>1, <2>3
<1>7. CASE Deliver
  <2>1. /\ next \in 1..Len(Stamp) /\ pc = "read" /\ pc' = "loop"
        /\ delivered' = Append(delivered, next) /\ next' = next + 1
        /\ timestamp' = Stamp[next]
    BY <1>3, <1>7 DEF Deliver, HasFrame, Callback
  <2>2. Lines' = Lines \cup {next}
    BY <1>3, <2>1, LinesAppend
  <2>3. Times' = Times \cup {Stamp[next]}
    BY <2>2 DEF Times
  <2>4. \A t \in Times' : \A k \in next..Len(Stamp) : t <= Stamp[k]
    <3> SUFFICES ASSUME NEW t \in Times', NEW k \in next..Len(Stamp) PROVE t <= Stamp[k]
      OBVIOUS
    <3>1. CASE t \in Times
      BY <1>2, <2>1, <3>1
    <3>2. CASE t = Stamp[next]
      <4>1. k \in 1..Len(Stamp) /\ next <= k
        BY <2>1
      <4>2. QED BY <2>1, <3>2, <4>1
    <3>3. QED BY <2>3, <3>1, <3>2
  <2>5. next \in next..Len(Stamp) /\ \A k \in next'..Len(Stamp) : k \in next..Len(Stamp)
    BY <2>1
  <2>6. QED BY <2>1, <2>4, <2>5
<1>8. CASE Grabbing
  <2>1. /\ delivered' = Append(delivered, NoLine) /\ timestamp' = Garbage /\ pc = "read"
        /\ pc' = "loop" /\ UNCHANGED next
    BY <1>8 DEF Grabbing, Callback
  <2>2. Lines' = Lines
    BY <1>3, <2>1, LinesAppend
  <2>3. Times' = Times
    BY <2>2 DEF Times
  <2>4. QED BY <1>2, <2>1, <2>3
<1>9. CASE Lost
  <2>1. UNCHANGED delivered /\ since' = timestamp /\ pc = "read" /\ pc' = "connect"
    BY <1>9 DEF Lost
  <2>2. QED BY <1>1, <1>2, <1>5, <1>9, <2>1
<1>10. CASE /\ UNCHANGED <<delivered, barren, since, timestamp, next>>
            /\ printed' >= printed /\ printed' \in 0..Len(Stamp)
            /\ pc' \in {"loop", "read"} => pc \in {"loop", "read"}
            /\ pc' = "connect" => pc = "connect"
  BY <1>2, <1>5, <1>10
<1>11. QED BY <1>1, <1>6, <1>7, <1>8, <1>9, <1>10, WholeSteps

\* So the lines are in the order of their times.
LEMMA NoRewindKept ==
  ASSUME TypeOK, NextIsAdjacent, NextIsNoOlder, NoRewind, barren = 0, cuts = 0, aligned,
         cuts' = 0, [Next]_vars
  PROVE  NoRewind'
<1> USE StampFacts
<1>1. delivered \in Seq(0..Len(Stamp)) /\ next \in 1..(Len(Stamp) + 1)
      /\ printed \in 0..Len(Stamp)
  BY DEF TypeOK
<1> DEFINE Ordered(s) == \A p, q \in 1..Len(s) :
                            p < q /\ s[p] # NoLine /\ s[q] # NoLine
                            => Stamp[s[p]] <= Stamp[s[q]]
<1>2. Ordered(delivered)
  BY DEF NoRewind
<1>3. Ordered(delivered')
  <2>1. CASE UNCHANGED delivered
    BY <1>2, <2>1
  <2>2. CASE Deliver \/ Grabbing
    <3>1. PICK k \in 0..Len(Stamp) :
             /\ delivered' = Append(delivered, k)
             /\ k # NoLine => k = next /\ next \in 1..Len(Stamp) /\ pc = "read"
      <4>1. CASE Deliver
        <5>1. delivered' = Append(delivered, next) /\ next <= printed /\ pc = "read"
          BY <4>1 DEF Deliver, HasFrame, Callback
        <5>2. next \in 1..Len(Stamp) /\ next \in 0..Len(Stamp)
          BY <1>1, <5>1
        <5>3. QED BY <5>1, <5>2
      <4>2. CASE Grabbing
        BY <4>2 DEF Grabbing, Callback, NoLine
      <4>3. QED BY <2>2, <4>1, <4>2
    <3>2. /\ Len(delivered') = Len(delivered) + 1 /\ Len(delivered) \in Nat
          /\ \A p \in 1..Len(delivered) : delivered'[p] = delivered[p]
          /\ delivered'[Len(delivered) + 1] = k
      BY <1>1, <3>1, LinesAppend
    <3>3. ASSUME NEW p \in 1..Len(delivered'), NEW q \in 1..Len(delivered'), p < q,
                 delivered'[p] # NoLine, delivered'[q] # NoLine
          PROVE  Stamp[delivered'[p]] <= Stamp[delivered'[q]]
      <4>1. p \in 1..Len(delivered) /\ delivered'[p] = delivered[p]
        BY <3>2, <3>3
      <4>2. CASE q \in 1..Len(delivered)
        BY <1>2, <3>2, <3>3, <4>1, <4>2
      <4>3. CASE q = Len(delivered) + 1
        <5>1. k = next /\ next \in 1..Len(Stamp) /\ pc = "read" /\ delivered'[q] = next
          BY <3>1, <3>2, <3>3, <4>3
        <5>2. Stamp[delivered[p]] \in Times
          BY <1>1, <3>3, <4>1 DEF Times, Lines, ToSet
        <5>3. next \in next..Len(Stamp)
          BY <5>1
        <5>4. QED BY <4>1, <5>1, <5>2, <5>3 DEF NextIsNoOlder
      <4>4. QED BY <3>2, <4>2, <4>3
    <3>4. QED BY <3>3
  <2>3. CASE Connect \/ Lost
    BY <1>2, <2>3 DEF Connect, Served, Lost
  <2>4. QED BY <2>1, <2>2, <2>3, WholeSteps
<1>4. QED BY <1>3 DEF NoRewind

\* While every frame is read whole, a connection begins at most one line after what
\* has been delivered, and, unless one was lost before its first line, with no line
\* that is older than what has been delivered.
THEOREM ReaderInvariant == Spec => []ReaderInv
<1>1. Init => ReaderInv
  <2> SUFFICES ASSUME Init PROVE ReaderInv
    OBVIOUS
  <2>1. TypeOK
    <3>1. /\ printed \in 0..Len(Stamp) /\ since \in Nat /\ timestamp \in Nat
          /\ next \in 1..(Len(Stamp) + 1) /\ barren \in Nat
          /\ cuts \in 0..MaxCuts /\ faults \in 0..MaxFaults
      BY StampFacts, StampsAssumption DEF Init, Empty
    <3>2. delivered \in Seq(0..Len(Stamp))
      BY DEF Init
    <3>3. QED BY <3>1, <3>2 DEF Init, TypeOK
  <2>2. delivered = <<>> /\ Lines = {} /\ Times = {} /\ Len(delivered) = 0
    BY DEF Init, Lines, Times, ToSet
  <2>3. NextIsAdjacent
    <3>1. Lines = 1..0 /\ 0 \in 0..printed
      BY <2>2 DEF Init
    <3>2. QED BY <3>1 DEF Init, NextIsAdjacent, Empty
  <2>4. NextIsNoOlder /\ NoRewind
    BY <2>2 DEF NextIsNoOlder, NoRewind
  <2>5. QED BY <2>1, <2>3, <2>4 DEF ReaderInv
<1>2. ASSUME ReaderInv, TypeOK', [Next]_vars PROVE ReaderInv'
  <2>1. NextIsAdjacent' /\ NextIsNoOlder'
    BY <1>2, AdjacentKept, NoOlderKept DEF ReaderInv
  <2>2. NoRewind'
    <3> SUFFICES ASSUME barren' = 0, cuts' = 0 PROVE NoRewind'
      BY DEF NoRewind
    <3>1. barren = 0 /\ cuts = 0
      BY <1>2, StampsAssumption
         DEF ReaderInv, TypeOK, Next, vars, Reading, Terminating, PrintLine, BoxEnds,
             Cancel, reader, Connect, Served, ConnectFails, Loop, Aborted, Deliver, Cut,
             Misread, Grabbing, Lost, Eof, EofWithLine, End, Callback
    <3>2. aligned
      BY <1>2, <3>1 DEF ReaderInv, NextIsAdjacent
    <3>3. QED BY <1>2, <3>1, <3>2, NoRewindKept DEF ReaderInv
  <2>3. QED BY <1>2, <2>1, <2>2 DEF ReaderInv
<1>3. QED BY <1>1, <1>2, ReaderTypes, PTL DEF Spec

\* As long as no frame is cut, a connection that is lost, however often, loses no line
\* that the container has printed, not even one of several with the same time.
THEOREM NoLineSkipped == Spec => []NothingSkipped
<1>1. ReaderInv => NothingSkipped
  BY DEF ReaderInv, NextIsAdjacent, NothingSkipped
<1>2. QED BY <1>1, ReaderInvariant, PTL

\* And as long as none is lost before its first line, lines come in the order of time.
THEOREM NoLineRewinds == Spec => []NoRewind
<1>1. ReaderInv => NoRewind
  BY DEF ReaderInv
<1>2. QED BY <1>1, ReaderInvariant, PTL
=============================================================================
