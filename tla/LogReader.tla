----------------------------- MODULE LogReader -----------------------------
(***************************************************************************)
(* host.ReadContainerLogs (src/host/container.go:125): the goroutine of    *)
(* containerLogs that follows the stderr of a container over connections   *)
(* to docker.  A connection that is lost is opened again from the time of  *)
(* the last line it delivered; the lines go to a callback that makes log   *)
(* entries of them.                                                        *)
(*                                                                         *)
(* The lines of the container are numbered; Stamp is the time docker puts  *)
(* before each.  A fault is a connection that fails or is lost, or docker's*)
(* own "Error grabbing logs"; a cut is a Read that returns less than a     *)
(* frame holds, which the code does not look at.                           *)
(***************************************************************************)
EXTENDS Integers, SequencesExt

CONSTANTS Stamp,        (* the time of each line the container prints         *)
          MaxFaults, MaxCuts    (* bounds                                     *)

ASSUME StampsAssumption ==
    /\ Stamp \in Seq(Nat \ {0})
    /\ \A i, j \in 1..Len(Stamp) : i <= j => Stamp[i] <= Stamp[j]
    /\ MaxFaults \in Nat /\ MaxCuts \in Nat

VARIABLES printed,      (* lines the container has printed                    *)
          box,          (* the container: "running" or "ended"                *)
          cancelled,    (* ctx                                                *)
          pc,           (* where the goroutine is                             *)
          since,        (* options.Since of the connection                    *)
          timestamp,    (* local of readContainerLogs                         *)
          next,         (* the line docker sends next on the connection       *)
          aligned,      (* a Read of a header finds a header                  *)
          over,         (* docker has ended the stream with an error message  *)
          delivered,    (* history: lines given to the callback               *)
          barren,       (* history: connections lost before their first line  *)
          result,       (* how ReadContainerLogs has ended                    *)
          cuts, faults

stream == <<next, aligned, over>>
vars   == <<printed, box, cancelled, pc, since, timestamp, stream, delivered,
            barren, result, cuts, faults>>

Empty   == 0            \* no time: the whole log
Garbage == -1           \* bytes that are not a time
NoLine  == 0            \* what is given to the callback is not a line

Fault == faults < MaxFaults /\ faults' = faults + 1

Init == /\ printed = 0 /\ box = "running" /\ cancelled = FALSE
        /\ pc = "connect" /\ since = Empty /\ timestamp = Empty
        /\ next = 1 /\ aligned = TRUE /\ over = FALSE
        /\ delivered = <<>> /\ barren = 0 /\ result = "none"
        /\ cuts = 0 /\ faults = 0

reader == <<pc, since, timestamp, stream, delivered, barren, result, cuts, faults>>

PrintLine == /\ box = "running" /\ printed < Len(Stamp)
             /\ printed' = printed + 1
             /\ UNCHANGED <<box, cancelled, reader>>

BoxEnds == /\ box = "running" /\ box' = "ended"
           /\ UNCHANGED <<printed, cancelled, reader>>

\* The watcher's context: the action that started the container was given it.
Cancel == /\ ~cancelled /\ cancelled' = TRUE
          /\ UNCHANGED <<printed, box, reader>>
-----------------------------------------------------------------------------
End(r) == /\ pc' = "done" /\ result' = r
          /\ UNCHANGED <<printed, box, cancelled, since, timestamp, stream,
                         delivered, barren, cuts>>

\* The first line that is not older than a time.
FirstFrom(t) == CHOOSE k \in 1..(Len(Stamp) + 1) :
                    /\ k <= Len(Stamp) => Stamp[k] >= t
                    /\ \A j \in 1..(k - 1) : Stamp[j] < t

Served(k) == /\ pc = "connect" /\ ~cancelled /\ since # Garbage
             /\ pc' = "loop" /\ timestamp' = Empty
             /\ next' = k /\ aligned' = TRUE /\ over' = FALSE
             /\ UNCHANGED <<printed, box, cancelled, since, delivered, barren, result,
                            cuts, faults>>

\* (A slip: from the line after the last one, by its time.)
ConnectAfter == Served(IF since = Empty THEN 1 ELSE FirstFrom(since + 1))

\* client.ContainerLogs: docker sends what is not older than Since.
Connect == Served(FirstFrom(since))

\* It returns an error, and so does ReadContainerLogs.
ConnectFails == /\ pc = "connect"
                /\ \/ (cancelled \/ since = Garbage) /\ UNCHANGED faults
                   \/ Fault
                /\ End("error")

\* The select at the top of the loop.
Loop == /\ pc = "loop"
        /\ \/ /\ cancelled /\ End("nil") /\ UNCHANGED faults
           \/ /\ ~cancelled /\ pc' = "read"
              /\ UNCHANGED <<printed, box, cancelled, since, timestamp, stream,
                             delivered, barren, result, cuts, faults>>

\* A Read is aborted with the request.
Aborted == /\ pc = "read" /\ cancelled
           /\ End("nil") /\ UNCHANGED faults

Callback(k, t) == /\ pc' = "loop" /\ timestamp' = t
                  /\ delivered' = Append(delivered, k)
                  /\ UNCHANGED <<printed, box, cancelled, since, barren, result>>

HasFrame == pc = "read" /\ aligned /\ ~over /\ next <= printed

\* Header and body of a frame are read whole.
Deliver == /\ HasFrame
           /\ Callback(next, Stamp[next]) /\ next' = next + 1
           /\ UNCHANGED <<aligned, over, cuts, faults>>

\* The body is cut: without a space in what was read s[1] is out of range, else the
\* line is delivered cut, and its rest is taken for the next header.
Cut == /\ HasFrame /\ cuts < MaxCuts /\ cuts' = cuts + 1
       /\ \/ /\ pc' = "done" /\ result' = "panic"
             /\ UNCHANGED <<printed, box, cancelled, since, timestamp, stream,
                            delivered, barren>>
          \/ /\ Callback(next, Stamp[next])
             /\ next' = next + 1 /\ aligned' = FALSE
             /\ UNCHANGED over
       /\ UNCHANGED faults

\* What is not a header tells a length: the body runs over later frames.
Misread == /\ pc = "read" /\ ~aligned /\ ~over
           /\ \/ End("panic")
              \/ /\ Callback(NoLine, Garbage)
                 /\ next' \in next..(printed + 1)
                 /\ aligned' \in BOOLEAN
                 /\ aligned' \/ next' > next
                 /\ UNCHANGED <<over, cuts>>
           /\ UNCHANGED faults

\* Docker tells of an error of its own in a frame without a time.  It is delivered as
\* a line, unless Read returns an error with its bytes (see Lost).
Grabbing == /\ pc = "read" /\ aligned /\ ~over /\ Fault
            /\ Callback(NoLine, Garbage)
            /\ over' = TRUE
            /\ UNCHANGED <<next, aligned, cuts>>

\* (A slip: the time is not taken over.)
LostForget == /\ pc = "read" /\ Fault
              /\ pc' = "connect"
              /\ barren' = barren + (IF timestamp = Empty THEN 1 ELSE 0)
              /\ UNCHANGED <<printed, box, cancelled, since, timestamp, stream,
                             delivered, result, cuts>>

\* Read returns an error other than EOF: at once, or after 600ms if the bytes tell of
\* docker's error, the next connection is opened from the time of this one's last line.
Lost == /\ pc = "read" /\ Fault
        /\ pc' = "connect" /\ since' = timestamp
        /\ barren' = barren + (IF timestamp = Empty THEN 1 ELSE 0)
        /\ UNCHANGED <<printed, box, cancelled, timestamp, stream, delivered, result, cuts>>

\* (A slip: reading ends with the container.)
EofAtEnd == /\ pc = "read" /\ box = "ended"
            /\ End("nil") /\ UNCHANGED faults

\* io.EOF: docker ends the stream when it has sent all of an ended container.
Eof == /\ pc = "read" /\ (over \/ (box = "ended" /\ next > printed))
       /\ End("nil") /\ UNCHANGED faults

\* The last frame comes with io.EOF: Read returns both, and the line is dropped.
EofWithLine == /\ pc = "read" /\ box = "ended" /\ ~over
               /\ next = printed \/ ~aligned
               /\ End("nil") /\ UNCHANGED faults

Terminating == pc = "done" /\ box = "ended" /\ UNCHANGED vars

Reading == Connect \/ ConnectFails \/ Loop \/ Aborted \/ Deliver \/ Cut \/ Misread
           \/ Grabbing \/ Lost \/ Eof \/ EofWithLine

Next == PrintLine \/ BoxEnds \/ Cancel \/ Reading \/ Terminating

\* The goroutine runs when docker answers; it blocks as long as there is nothing to
\* read.  Nothing is assumed of the container and of faults.
Fairness == WF_vars(Reading)
Spec     == Init /\ [][Next]_vars
FairSpec == Spec /\ Fairness
-----------------------------------------------------------------------------
\* Every variable has its type.
TypeOK ==
    /\ printed \in 0..Len(Stamp) /\ box \in {"running", "ended"} /\ cancelled \in BOOLEAN
    /\ pc \in {"connect", "loop", "read", "done"}
    /\ since \in Nat \cup {Garbage} /\ timestamp \in Nat \cup {Garbage}
    /\ next \in 1..(Len(Stamp) + 1) /\ aligned \in BOOLEAN /\ over \in BOOLEAN
    /\ delivered \in Seq(0..Len(Stamp)) /\ barren \in Nat
    /\ result \in {"none", "nil", "error", "panic"}
    /\ cuts \in 0..MaxCuts /\ faults \in 0..MaxFaults

Lines == ToSet(delivered) \ {NoLine}

\* As long as every frame was read whole, the lines delivered are an initial segment
\* of what the container has printed: a connection that is lost, however often, loses
\* no line, not even one of several with the same time.
NothingSkipped == cuts = 0 => \E m \in 0..printed : Lines = 1..m

\* The lines are delivered in the order of their times, some of the last time twice.
\* The exception is a connection that is lost before its first line: the time is
\* local to a connection, so the next one starts with the whole log again.
NoRewind ==
    barren = 0 /\ cuts = 0 =>
        \A p, q \in 1..Len(delivered) :
            /\ p < q
            /\ delivered[p] # NoLine /\ delivered[q] # NoLine
            => Stamp[delivered[p]] <= Stamp[delivered[q]]

\* The inductive invariant.  A connection begins at most one line after those that have
\* been delivered, because what it is opened with is no time, or that of one of them.
NextIsAdjacent ==
    cuts = 0 =>
        /\ aligned
        /\ \E m \in 0..printed :
              /\ Lines = 1..m
              /\ {since, timestamp} \subseteq {Empty, Garbage} \cup {Stamp[k] : k \in 1..m}
              /\ pc \in {"loop", "read"} => next <= m + 1

\* And it begins with no line that is older than one of those.
Times == {Stamp[k] : k \in Lines}

NextIsNoOlder ==
    barren = 0 /\ cuts = 0 =>
        /\ pc = "connect" /\ since # Garbage => \A t \in Times : t <= since
        /\ pc \in {"loop", "read"} =>
              /\ timestamp \notin {Empty, Garbage} => \A t \in Times : t <= timestamp
              /\ \A t \in Times : \A k \in next..Len(Stamp) : t <= Stamp[k]

ReaderInv == TypeOK /\ NextIsAdjacent /\ NextIsNoOlder /\ NoRewind

\* The stream of an ended container may end with the bytes of its last line, and
\* ReadContainerLogs returns as if it had read all.
CutOff(k) == k = printed /\ box = "ended" /\ result = "nil"

\* A printed line is delivered in the end, unless the run is over, a connection is
\* refused, docker tells of an error in a line of its own, a frame was cut, or it is the
\* last line of a container that has ended.
DeliveredEventually ==
    \A k \in 1..Len(Stamp) :
        k <= printed ~> \/ k \in Lines \/ CutOff(k)
                        \/ cancelled \/ result = "error" \/ over \/ cuts > 0
=============================================================================
