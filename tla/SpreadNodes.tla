----------------------------- MODULE SpreadNodes -----------------------------
(***************************************************************************)
(* How the nodes of a design are spread over its hosts by weight:          *)
(* calcSpreadNodes (src/cmds/util.go) step by step, and spreadNodes        *)
(* (src/cmds/process_host.go), which sorts the hosts, calls it and slices  *)
(* the list of nodes by the counts.                                        *)
(*                                                                         *)
(* math.Ceil(float64(w) * r) is the exact quotient rounded up: the floats  *)
(* of the code give the same for all inputs within MaxNodes = 15, four     *)
(* hosts and MaxWeight = 4.                                                *)
(***************************************************************************)
EXTENDS Integers, SequencesExt

CONSTANTS MaxNodes, MaxHosts, MaxWeight     \* bounds on the inputs

ASSUME BoundsAssumption == MaxNodes \in Nat /\ MaxHosts \in Nat \ {0} /\ MaxWeight \in Nat

VARIABLES n,            (* number of nodes                                    *)
          weights,      (* of the hosts, the heaviest first                   *)
          counts,       (* nodes for each host                                *)
          assigned,     (* the sum of counts, so far                          *)
          sum,          (* of the weights, so far                             *)
          i,            (* the host a loop is at                              *)
          at,           (* where the computation is                           *)
          l,            (* nodes selected, so far                             *)
          selected      (* positions in the list of nodes, for each host      *)

calcVars == <<n, weights, counts, assigned, sum, i, at, l, selected>>

H == Len(weights)
Hosts == 1..H
Weightless == \A h \in Hosts : weights[h] = 0

Descending(ws) == \A j, k \in DOMAIN ws : j < k => ws[j] >= ws[k]

\* A design has at least one host; the sort is spreadNodes's.
CalcInit ==
    /\ n \in 0..MaxNodes
    /\ \E h \in 1..MaxHosts :
          weights \in {ws \in [1..h -> 0..MaxWeight] : Descending(ws)}
    /\ counts = [h \in Hosts |-> 0] /\ assigned = 0 /\ sum = 0
    /\ i = 1 /\ at = "start"
    /\ l = 0 /\ selected = [h \in Hosts |-> {}]

Go(next) == at' = next /\ UNCHANGED <<n, weights, l, selected>>

\* No node, or one: the result has a single count, however many hosts there are.
Start == /\ at = "start"
         /\ IF n < 2
            THEN counts' = <<n>> /\ Go("select")
            ELSE counts' = counts /\ Go("seed")
         /\ UNCHANGED <<assigned, sum, i>>

\* One node for each host with a weight, as far as there are nodes.
Seed == /\ at = "seed" /\ i <= H
        /\ IF weights[i] = 0
           THEN i' = i + 1 /\ Go("seed") /\ UNCHANGED <<counts, assigned, sum>>
           ELSE /\ counts' = [counts EXCEPT ![i] = 1]
                /\ assigned' = assigned + 1
                /\ sum' = sum + weights[i]
                /\ IF assigned' = n THEN i' = 1 /\ Go("select")
                                    ELSE i' = i + 1 /\ Go("seed")

\* (A slip: the last host and not the first of the greatest weight.)
RemainderToLast ==
    /\ at = "seed" /\ i > H /\ i' = 1 /\ UNCHANGED <<assigned, sum>>
    /\ IF n - assigned = 1
       THEN counts' = [counts EXCEPT ![H] = @ + 1] /\ Go("select")
       ELSE counts' = counts /\ Go("spread")

\* What is left after that: one node goes to the first of the greatest weight.
Remainder ==
    /\ at = "seed" /\ i > H
    /\ i' = 1
    /\ UNCHANGED <<assigned, sum>>
    /\ IF n - assigned = 1
       THEN /\ \E top \in Hosts :
                  /\ \A h \in Hosts : weights[h] <= weights[top]
                  /\ \A h \in 1..(top - 1) : weights[h] < weights[top]
                  /\ counts' = [counts EXCEPT ![top] = @ + 1]
            /\ Go("select")
       ELSE counts' = counts /\ Go("spread")

\* (A slip: shares rounded down, and for all hosts together.)
SharesDown(w) == {(w * n) \div (H * sum + 1)}

\* With no weight at all the share is the conversion of a NaN to uint: 2^63 on
\* amd64, more than there are nodes, and 0 on arm64.
Shares(w) == IF sum = 0 THEN {0, n} ELSE {(w * n + sum - 1) \div sum}

\* (A slip: the last share is not cut.)
SpreadUncut ==
    /\ at = "spread" /\ \E j \in Shares(weights[i]) :
          /\ counts' = [counts EXCEPT ![i] = @ + j]
          /\ assigned' = assigned + j
          /\ Go(IF assigned + j >= n THEN "select" ELSE "spread")
          /\ i' = IF i = H \/ assigned + j >= n THEN 1 ELSE i + 1
    /\ UNCHANGED sum

\* The rest in proportion to the weights, going round the hosts.
Spread ==
    /\ at = "spread"
    /\ UNCHANGED sum
    /\ \E j \in Shares(weights[i]) :
          IF assigned + j >= n
          THEN /\ counts' = [counts EXCEPT ![i] = @ + (n - assigned)]
               /\ i' = 1 /\ assigned' = assigned
               /\ Go("select")
          ELSE /\ counts' = [counts EXCEPT ![i] = @ + j]
               /\ assigned' = assigned + j
               /\ i' = IF i = H THEN 1 ELSE i + 1
               /\ Go("spread")

\* spreadNodes: nodes[l:l+spread[i]] for every host; one count for more than one
\* host is an index out of range.
Select ==
    /\ at = "select"
    /\ IF i > H \/ i > Len(counts)
       THEN /\ at' = IF i > H THEN "done" ELSE "panic"
            /\ UNCHANGED <<i, l, selected>>
       ELSE /\ selected' = [selected EXCEPT ![i] = (l + 1)..(l + counts[i])]
            /\ l' = l + counts[i]
            /\ i' = i + 1
            /\ at' = at
    /\ UNCHANGED <<n, weights, counts, assigned, sum>>

Terminating == at \in {"done", "panic"} /\ UNCHANGED calcVars

Step == Start \/ Seed \/ Remainder \/ Spread \/ Select

CalcNext == Step \/ Terminating

CalcSpec == CalcInit /\ [][CalcNext]_calcVars

\* The computation is sequential and goes on.
FairSpec == CalcSpec /\ WF_calcVars(Step)
-----------------------------------------------------------------------------
Selected(h) == selected[h] # {}

\* Every node is on one host, and no host is given a position past the end of the
\* list of nodes (a slice out of range in the code).  An index is out of range only
\* for a design of several hosts and fewer than two nodes.
EveryNodeOnOneHost ==
    /\ at = "done" =>
        /\ UNION {selected[h] : h \in Hosts} = 1..n
        /\ \A g, h \in Hosts : g # h => selected[g] \cap selected[h] = {}
    /\ at = "panic" => n < 2 /\ H > 1

\* A host never has fewer nodes than a lighter one, and none with a weight stays
\* without a node while a host has two.  A host without a weight has none, unless that
\* is so of every host: the comment in design.go:88 says it is ignored, and a single
\* host of weight 0 is not.
FairShares ==
    at = "done" => \A g, h \in Hosts :
        /\ weights[g] > weights[h] => counts[g] >= counts[h]
        /\ weights[h] > 0 /\ counts[g] > 1 => counts[h] > 0
        /\ weights[h] = 0 /\ Selected(h) => Weightless

Served   == {h \in Hosts : Selected(h)}
Weighted == {h \in Hosts : weights[h] > 0}

\* The hosts that are given nodes: as many of those with a weight as there are nodes; one
\* if none has a weight.
HostsServed ==
    at = "done" =>
        IF n = 0 THEN Served = {}
        ELSE IF Weighted = {} \/ n = 1 THEN Cardinality(Served) = 1
        ELSE /\ Served \subseteq Weighted
             /\ Cardinality(Served) = IF n < Cardinality(Weighted) THEN n
                                                                 ELSE Cardinality(Weighted)

\* The inductive invariant.
Making == {"start", "seed", "spread"}

TypeOK ==
    /\ n \in Nat /\ weights \in Seq(Nat) /\ H > 0 /\ Descending(weights)
    /\ counts \in Seq(Nat) /\ assigned \in Nat /\ sum \in Nat
    /\ i \in 1..(H + 1) /\ l \in Nat /\ selected \in [Hosts -> SUBSET Nat]
    /\ at \in Making \cup {"select", "done", "panic"}
    /\ at \in {"seed", "spread"} => n >= 2 /\ assigned < n
    /\ at = "start" => assigned = 0
    /\ at = "spread" => i <= H
    /\ IF n < 2 /\ at \notin Making THEN counts = <<n>> ELSE Len(counts) = H

\* s[h] is what the first h hosts have: assigned as long as the counts are being made, n
\* for all of them when they are used.
AddUp(s, c, total) ==
    /\ s[0] = 0 /\ s[Len(c)] = total
    /\ \A h \in 1..Len(c) : s[h] = s[h - 1] + c[h]

CountsAddUp ==
    \E s \in [0..Len(counts) -> Nat] :
        /\ AddUp(s, counts, IF at \in Making THEN assigned ELSE n)
        /\ at \notin Making => i <= Len(counts) + 1 /\ l = s[i - 1]

\* The first l nodes are selected, each for one host that is counted to have some.
SelectedInTurn ==
    /\ at \in Making => l = 0
    /\ \A x \in 1..l : \E h \in Hosts : x \in selected[h]
    /\ \A h \in Hosts : /\ selected[h] \subseteq 1..l
                        /\ Selected(h) => h <= Len(counts) /\ counts[h] > 0
                        /\ at \notin Making /\ h >= i => ~Selected(h)
    /\ \A g, h \in Hosts : g # h => selected[g] \cap selected[h] = {}
    /\ at = "done" => i > H
    /\ at = "panic" => i <= H /\ i > Len(counts)

\* A host's share of a round, as long as there are weights.
Share(h) == (weights[h] * n + sum - 1) \div sum

\* What a host had before this round.
Before(h) == counts[h] - (IF h < i THEN Share(h) ELSE 0)

SeededInTurn ==
    /\ sum = 0 => assigned = 0
    /\ at = "start" => i = 1 /\ sum = 0 /\ \A h \in Hosts : counts[h] = 0
    /\ at = "seed" => /\ sum > 0 => ~Weightless
                      /\ \A h \in Hosts : h < i /\ weights[h] > 0 => sum > 0
                      /\ \A h \in Hosts : counts[h] = IF h < i /\ weights[h] > 0 THEN 1 ELSE 0
    /\ at = "spread" => sum = 0 <=> Weightless

\* The hosts are in the order of their weights, and so are their counts after every round.
FairInTurn ==
    /\ at = "spread" /\ sum > 0 =>
          /\ \A h \in Hosts : counts[h] > 0 <=> weights[h] > 0
          /\ \A g, h \in Hosts : g < h => Before(g) >= Before(h)
    /\ at \notin Making /\ Len(counts) = H /\ ~Weightless =>
          \A h \in Hosts : /\ counts[h] > 0 => weights[h] > 0
                           /\ \A g \in Hosts : /\ g < h => counts[g] >= counts[h]
                                               /\ weights[h] > 0 /\ counts[g] > 1 => counts[h] > 0

\* A host is given as many nodes as are counted.
SelectedByCount ==
    at \notin Making => \A h \in Hosts : h < i =>
        \E m \in Nat : selected[h] = (m + 1)..(m + counts[h])

\* Without weights one host is counted them all.
OneWithoutWeights ==
    Weightless =>
        /\ at \in {"seed", "spread"} => \A h \in Hosts : counts[h] = 0
        /\ at \notin Making /\ n >= 2 => \E g \in Hosts : \A h \in Hosts : counts[h] > 0 <=> h = g

SpreadInv == TypeOK /\ CountsAddUp /\ SelectedInTurn /\ SeededInTurn /\ FairInTurn
             /\ SelectedByCount /\ OneWithoutWeights

\* The loop of calcSpreadNodes ends if there is any weight at all.
SpreadEnds == ~Weightless ~> at \in {"done", "panic"}
=============================================================================
